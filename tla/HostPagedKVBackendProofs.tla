---------------------- MODULE HostPagedKVBackendProofs ----------------------
(***************************************************************************)
(* Proofs about the host page allocator, for any number of pages,          *)
(* sequences, table slots and processes: its invariants, that it           *)
(* implements the page ledger, keeps what the prefix cache owns, and loses *)
(* pages to kills only.                                                    *)
(***************************************************************************)
EXTENDS HostPagedKVBackend, FiniteSetTheorems, WellFoundedInduction, TLAPS

USE ZenonT(60)

-----------------------------------------------------------------------------
(* Sequences used as lists of distinct items (free stacks, page chains,    *)
(* pages carried by an operation): appending, splitting and selecting keep *)
(* the items distinct and lose or invent none.                             *)

\* Appending a list appends its elements (every push and every attach).
LEMMA RangeConcat ==
    ASSUME NEW S, NEW s \in Seq(S), NEW t \in Seq(S)
    PROVE  s \o t \in Seq(S) /\ Range(s \o t) = Range(s) \union Range(t)
  <1>1. s \o t \in Seq(S) /\ Len(s \o t) = Len(s) + Len(t)
    BY SMT
  <1>2. \A i \in 1 .. Len(s) : (s \o t)[i] = s[i]
    BY SMT
  <1>3. \A i \in 1 .. Len(t) : (s \o t)[Len(s) + i] = t[i]
    BY SMT
  <1>4. Range(s \o t) \subseteq Range(s) \union Range(t)
    <2> SUFFICES ASSUME NEW i \in 1 .. Len(s) + Len(t)
                 PROVE  (s \o t)[i] \in Range(s) \union Range(t)
      BY <1>1, SMT DEF Range
    <2>1. CASE i <= Len(s)
      BY <2>1, <1>2, SMT DEF Range
    <2>2. CASE i > Len(s)
      <3>1. i - Len(s) \in 1 .. Len(t) /\ i = Len(s) + (i - Len(s))
        BY <2>2, SMT
      <3>2. QED  BY <3>1, <1>3, SMT DEF Range
    <2>3. QED  BY <2>1, <2>2, SMT
  <1>5. Range(s) \subseteq Range(s \o t)
    BY <1>1, <1>2, SMT DEF Range
  <1>6. Range(t) \subseteq Range(s \o t)
    <2> SUFFICES ASSUME NEW i \in 1 .. Len(t)
                 PROVE  t[i] \in Range(s \o t)
      BY SMT DEF Range
    <2>1. Len(s) + i \in DOMAIN (s \o t) /\ t[i] = (s \o t)[Len(s) + i]
      BY <1>1, <1>3, SMT
    <2>2. QED  BY <2>1 DEF Range
  <1>7. QED  BY <1>1, <1>4, <1>5, <1>6

\* Two lists of distinct pages with no page in common make one such list.
LEMMA InjectiveConcat ==
    ASSUME NEW S, NEW s \in Seq(S), NEW t \in Seq(S),
           IsInjective(s), IsInjective(t), Range(s) \intersect Range(t) = {}
    PROVE  IsInjective(s \o t)
  <1>1. Len(s \o t) = Len(s) + Len(t) /\ DOMAIN (s \o t) = 1 .. Len(s) + Len(t)
    BY SMT
  <1>2. \A i \in 1 .. Len(s) : (s \o t)[i] = s[i]
    BY SMT
  <1>3. \A i \in 1 .. Len(t) : (s \o t)[Len(s) + i] = t[i]
    BY SMT
  <1> SUFFICES ASSUME NEW i \in 1 .. Len(s) + Len(t), NEW j \in 1 .. Len(s) + Len(t),
                      (s \o t)[i] = (s \o t)[j]
               PROVE  i = j
    BY <1>1 DEF IsInjective
  <1>4. ASSUME NEW k \in 1 .. Len(s) + Len(t), k > Len(s)
        PROVE  k - Len(s) \in 1 .. Len(t) /\ (s \o t)[k] = t[k - Len(s)]
    <2>1. k - Len(s) \in 1 .. Len(t) /\ k = Len(s) + (k - Len(s))
      BY <1>4, SMT
    <2>2. QED  BY <2>1, <1>3
  <1>5. CASE i <= Len(s) /\ j <= Len(s)
    BY <1>5, <1>2, SMT DEF IsInjective
  <1>6. CASE i > Len(s) /\ j > Len(s)
    <2>1. t[i - Len(s)] = t[j - Len(s)] /\ i - Len(s) \in DOMAIN t /\ j - Len(s) \in DOMAIN t
      BY <1>6, <1>4, SMT
    <2>2. i - Len(s) = j - Len(s)
      BY <2>1 DEF IsInjective
    <2>3. QED  BY <2>2, SMT
  <1>7. CASE i <= Len(s) /\ j > Len(s)
    <2>1. (s \o t)[i] \in Range(s) /\ (s \o t)[j] \in Range(t)
      BY <1>7, <1>2, <1>4, SMT DEF Range
    <2>2. QED  BY <2>1
  <1>8. CASE i > Len(s) /\ j <= Len(s)
    <2>1. (s \o t)[j] \in Range(s) /\ (s \o t)[i] \in Range(t)
      BY <1>8, <1>2, <1>4, SMT DEF Range
    <2>2. QED  BY <2>1
  <1>9. QED  BY <1>5, <1>6, <1>7, <1>8, SMT

\* Splitting a list of distinct pages at k: both parts are such lists, they
\* have no page in common and together hold every page (pop, prefix release).
LEMMA SplitList ==
    ASSUME NEW S, NEW s \in Seq(S), NEW k \in 0 .. Len(s), IsInjective(s)
    PROVE  LET a == SubSeq(s, 1, k)
               b == SubSeq(s, k + 1, Len(s))
           IN  /\ a \in Seq(S) /\ b \in Seq(S)
               /\ IsInjective(a) /\ IsInjective(b)
               /\ Range(a) \intersect Range(b) = {}
               /\ Range(a) \union Range(b) = Range(s)
  <1> DEFINE a == SubSeq(s, 1, k)
             b == SubSeq(s, k + 1, Len(s))
  <1>1. a \in Seq(S) /\ Len(a) = k /\ \A i \in 1 .. k : a[i] = s[i]
    BY SMT
  <1>2. b \in Seq(S) /\ Len(b) = Len(s) - k /\ \A i \in 1 .. Len(s) - k : b[i] = s[k + i]
    BY SMT
  <1> HIDE DEF a, b
  <1>3. IsInjective(a)
    BY <1>1, SMT DEF IsInjective
  <1>4. IsInjective(b)
    <2> SUFFICES ASSUME NEW i \in 1 .. Len(s) - k, NEW j \in 1 .. Len(s) - k, b[i] = b[j]
                 PROVE  i = j
      BY <1>2, SMT DEF IsInjective
    <2>1. k + i \in DOMAIN s /\ k + j \in DOMAIN s /\ s[k + i] = s[k + j]
      BY <1>2, SMT
    <2>2. k + i = k + j
      BY <2>1 DEF IsInjective
    <2>3. QED  BY <2>2, SMT
  <1>5. Range(a) \intersect Range(b) = {}
    <2> SUFFICES ASSUME NEW i \in 1 .. k, NEW j \in 1 .. Len(s) - k, a[i] = b[j]
                 PROVE  FALSE
      BY <1>1, <1>2, SMT DEF Range
    <2>1. i \in DOMAIN s /\ k + j \in DOMAIN s /\ s[i] = s[k + j]
      BY <1>1, <1>2, SMT
    <2>2. i = k + j
      BY <2>1 DEF IsInjective
    <2>3. QED  BY <2>2, SMT
  <1>6. Range(a) \union Range(b) \subseteq Range(s)
    <2>1. \A i \in 1 .. k : a[i] \in Range(s)
      BY <1>1, SMT DEF Range
    <2>2. ASSUME NEW i \in 1 .. Len(s) - k  PROVE b[i] \in Range(s)
      <3>1. k + i \in DOMAIN s /\ b[i] = s[k + i]
        BY <1>2, SMT
      <3>2. QED  BY <3>1 DEF Range
    <2>3. DOMAIN a = 1 .. k /\ DOMAIN b = 1 .. Len(s) - k
      BY <1>1, <1>2, SMT
    <2>4. ASSUME NEW x \in Range(a)  PROVE x \in Range(s)
      <3>1. PICK i \in DOMAIN a : x = a[i]
        BY DEF Range
      <3>2. QED  BY <3>1, <2>1, <2>3
    <2>5. ASSUME NEW x \in Range(b)  PROVE x \in Range(s)
      <3>1. PICK i \in DOMAIN b : x = b[i]
        BY DEF Range
      <3>2. QED  BY <3>1, <2>2, <2>3
    <2>6. QED  BY <2>4, <2>5
  <1>7. Range(s) \subseteq Range(a) \union Range(b)
    <2> SUFFICES ASSUME NEW i \in 1 .. Len(s)
                 PROVE  s[i] \in Range(a) \union Range(b)
      BY SMT DEF Range
    <2>1. CASE i <= k
      BY <2>1, <1>1, SMT DEF Range
    <2>2. CASE i > k
      <3>1. i - k \in 1 .. Len(s) - k /\ i = k + (i - k)
        BY <2>2, SMT
      <3>2. i - k \in DOMAIN b /\ b[i - k] = s[i]
        BY <3>1, <1>2, SMT
      <3>3. QED  BY <3>2 DEF Range
    <2>3. QED  BY <2>1, <2>2, SMT
  <1>8. QED  BY <1>1, <1>2, <1>3, <1>4, <1>5, <1>6, <1>7 DEF a, b

\* The least number of a set (the first cut at or beyond a position).
LEMMA LeastNumber ==
    ASSUME NEW T \in SUBSET Nat, T # {}
    PROVE  \E i \in T : \A j \in T : ~(j < i)
  <1> DEFINE R == {d \in Nat \X Nat : d[1] < d[2]}
  <1>1. IsWellFoundedOn(R, Nat)
    BY NatLessThanWellFounded DEF OpToRel
  <1>2. T \subseteq Nat /\ T # {}
    OBVIOUS
  <1> HIDE DEF R
  <1>3. PICK i \in T : \A j \in T : ~(<<j, i>> \in R)
    BY ONLY <1>1, <1>2, WFMin, ZenonT(60)
  <1>4. \A j \in T : ~(j < i)
    BY <1>3 DEF R
  <1>5. QED  BY <1>4

\* A part of a list of distinct pages is such a list: the pages at a + 1 .. b.
LEMMA PartList ==
    ASSUME NEW S, NEW s \in Seq(S), IsInjective(s),
           NEW a \in 0 .. Len(s), NEW b \in 0 .. Len(s), a <= b
    PROVE  /\ SubSeq(s, a + 1, b) \in Seq(S)
           /\ IsInjective(SubSeq(s, a + 1, b))
           /\ Range(SubSeq(s, a + 1, b)) = {s[k] : k \in a + 1 .. b}
  <1> DEFINE q == SubSeq(s, a + 1, b)
  <1>1. q \in Seq(S) /\ DOMAIN q = 1 .. b - a
        /\ \A k \in 1 .. b - a : q[k] = s[a + k] /\ a + k \in DOMAIN s
    BY SMT
  <1> HIDE DEF q
  <1>2. IsInjective(q)
    <2> SUFFICES ASSUME NEW k \in 1 .. b - a, NEW l \in 1 .. b - a, q[k] = q[l]
                 PROVE  k = l
      BY <1>1 DEF IsInjective
    <2>1. a + k = a + l
      BY <1>1 DEF IsInjective
    <2>2. QED  BY <2>1, SMT
  <1>3. ASSUME NEW x \in Range(q)  PROVE x \in {s[k] : k \in a + 1 .. b}
    <2>1. PICK k \in DOMAIN q : x = q[k]
      BY DEF Range
    <2>2. a + k \in a + 1 .. b /\ x = s[a + k]
      BY <2>1, <1>1, SMT
    <2>3. QED  BY <2>2
  <1>4. ASSUME NEW k \in a + 1 .. b  PROVE s[k] \in Range(q)
    <2>1. k - a \in 1 .. b - a /\ a + (k - a) = k
      BY SMT
    <2>2. k - a \in DOMAIN q /\ q[k - a] = s[k]
      BY <2>1, <1>1
    <2>3. QED  BY <2>2 DEF Range
  <1>5. QED  BY <1>1, <1>2, <1>3, <1>4 DEF q

\* Increasing cuts from 0 to N split 1 .. N into consecutive intervals.
LEMMA Cutting ==
    ASSUME NEW N \in Nat, NEW m \in Nat, NEW cut \in [0 .. m -> 0 .. N],
           cut[0] = 0, cut[m] = N,
           \A i, j \in 0 .. m : i < j => cut[i] < cut[j]
    PROVE  /\ \A i \in 1 .. m : cut[i - 1] \in 0 .. N /\ cut[i] \in 0 .. N /\ cut[i - 1] < cut[i]
           /\ \A i, j \in 1 .. m : i < j => cut[i] <= cut[j - 1]
           /\ \A k \in 1 .. N : \E i \in 1 .. m : cut[i - 1] < k /\ k <= cut[i]
  <1>1. ASSUME NEW i \in 1 .. m
        PROVE  cut[i - 1] \in 0 .. N /\ cut[i] \in 0 .. N /\ cut[i - 1] < cut[i]
    <2>1. i \in 0 .. m /\ i - 1 \in 0 .. m /\ i - 1 < i
      BY SMT
    <2>2. QED  BY <2>1
  <1>2. ASSUME NEW i \in 1 .. m, NEW j \in 1 .. m, i < j
        PROVE  cut[i] <= cut[j - 1]
    <2>1. i \in 0 .. m /\ j - 1 \in 0 .. m /\ (i = j - 1 \/ i < j - 1)
      BY <1>2, SMT
    <2>2. cut[i] \in Int /\ cut[j - 1] \in Int
      BY <2>1, SMT
    <2>3. cut[i] = cut[j - 1] \/ cut[i] < cut[j - 1]
      BY <2>1
    <2>4. QED  BY <2>2, <2>3, SMT
  <1>3. ASSUME NEW k \in 1 .. N
        PROVE  \E i \in 1 .. m : cut[i - 1] < k /\ k <= cut[i]
    <2> DEFINE T == {i \in 0 .. m : k <= cut[i]}
    <2>1. m \in 0 .. m /\ T \in SUBSET Nat
      BY SMT
    <2>2. m \in T
      BY <2>1, SMT
    <2> HIDE DEF T
    <2>3. PICK i \in T : \A j \in T : ~(j < i)
      BY <2>1, <2>2, LeastNumber
    <2>4. i \in 0 .. m /\ k <= cut[i]
      BY <2>3 DEF T
    <2>5. i # 0
      BY <2>4, SMT
    <2>6. i \in 1 .. m /\ i - 1 \in 0 .. m /\ i - 1 < i
      BY <2>4, <2>5, SMT
    <2>7. i - 1 \notin T
      BY <2>3, <2>6
    <2>8. cut[i - 1] < k
      BY <2>6, <2>7, SMT DEF T
    <2>9. QED  BY <2>4, <2>6, <2>8
  <1>4. QED  BY <1>1, <1>2, <1>3

\* Increasing cuts of 1 .. N into m intervals, and the m parts of s they give.
IsCut(cut, m, N) == /\ cut \in [0 .. m -> 0 .. N] /\ cut[0] = 0 /\ cut[m] = N
                    /\ \A i, j \in 0 .. m : i < j => cut[i] < cut[j]
\* Part i may stop short, at upto[i].
IsUpto(upto, cut, m) == \A i \in 1 .. m : upto[i] \in cut[i - 1] .. cut[i]
AreShares(share, s, cut, upto, m) ==
    \A i \in 1 .. m : share[i] = SubSeq(s, cut[i - 1] + 1, upto[i])

\* m lists of distinct items of s, no two with an item in common.
Parcels(share, m, s, S) ==
    /\ \A i \in 1 .. m : share[i] \in Seq(S) /\ IsInjective(share[i])
    /\ \A i, j \in 1 .. m : i # j => Range(share[i]) \intersect Range(share[j]) = {}
    /\ UNION {Range(share[i]) : i \in 1 .. m} \subseteq Range(s)
\* If no part stops short, every item of s is in one.
AllParcelled(share, m, s, cut, upto) ==
    (\A i \in 1 .. m : upto[i] = cut[i]) => Range(s) \subseteq UNION {Range(share[i]) : i \in 1 .. m}

\* Cutting a list of distinct pages at increasing positions, as a wave does
\* with the pages it popped: the shares are lists of distinct pages, no two
\* have a page in common, and if none stops short they hold every page.
LEMMA CutList ==
    ASSUME NEW S, NEW s \in Seq(S), IsInjective(s),
           NEW m \in Nat, NEW cut, IsCut(cut, m, Len(s)), NEW upto, IsUpto(upto, cut, m),
           NEW share, AreShares(share, s, cut, upto, m)
    PROVE  Parcels(share, m, s, S) /\ AllParcelled(share, m, s, cut, upto)
  <1>0. /\ s \in Seq(S) /\ IsInjective(s) /\ m \in Nat /\ cut \in [0 .. m -> 0 .. Len(s)]
        /\ cut[0] = 0 /\ cut[m] = Len(s) /\ \A i, j \in 0 .. m : i < j => cut[i] < cut[j]
        /\ Len(s) \in Nat /\ DOMAIN s = 1 .. Len(s)
    BY SMT DEF IsCut
  <1>1. /\ \A i \in 1 .. m : cut[i - 1] \in 0 .. Len(s) /\ cut[i] \in 0 .. Len(s) /\ cut[i - 1] < cut[i]
        /\ \A i, j \in 1 .. m : i < j => cut[i] <= cut[j - 1]
        /\ \A k \in 1 .. Len(s) : \E i \in 1 .. m : cut[i - 1] < k /\ k <= cut[i]
    BY ONLY <1>0, Cutting, ZenonT(60)
  <1>u. ASSUME NEW i \in 1 .. m
        PROVE  upto[i] \in 0 .. Len(s) /\ cut[i - 1] <= upto[i] /\ upto[i] <= cut[i]
    <2> DEFINE a == cut[i - 1]
               b == upto[i]
               c == cut[i]
    <2>1. b \in a .. c
      BY DEF IsUpto
    <2>2. a \in 0 .. Len(s) /\ c \in 0 .. Len(s)
      BY ONLY <1>1, i \in 1 .. m, ZenonT(60)
    <2> HIDE DEF a, b, c
    <2>3. b \in 0 .. Len(s) /\ a <= b /\ b <= c
      BY ONLY <2>1, <2>2, <1>0, SMT
    <2>4. QED  BY ONLY <2>3, ZenonT(60) DEF a, b, c
  <1>2. ASSUME NEW i \in 1 .. m
        PROVE  /\ share[i] \in Seq(S) /\ IsInjective(share[i])
               /\ Range(share[i]) = {s[k] : k \in cut[i - 1] + 1 .. upto[i]}
    <2> DEFINE a == cut[i - 1]
               b == upto[i]
    <2>1. share[i] = SubSeq(s, a + 1, b)
      BY DEF AreShares
    <2>2. a \in 0 .. Len(s) /\ b \in 0 .. Len(s) /\ a <= b
      BY ONLY <1>1, <1>u, i \in 1 .. m, ZenonT(60)
    <2> HIDE DEF a, b
    <2>4. /\ SubSeq(s, a + 1, b) \in Seq(S) /\ IsInjective(SubSeq(s, a + 1, b))
          /\ Range(SubSeq(s, a + 1, b)) = {s[k] : k \in a + 1 .. b}
      BY ONLY <1>0, <2>2, PartList, ZenonT(60)
    <2>5. QED  BY ONLY <2>1, <2>4, ZenonT(60) DEF a, b
  <1>3. ASSUME NEW i \in 1 .. m, NEW j \in 1 .. m, i < j
        PROVE  Range(share[i]) \intersect Range(share[j]) = {}
    <2> SUFFICES ASSUME NEW x \in Range(share[i]), x \in Range(share[j])
                 PROVE  FALSE
      OBVIOUS
    <2>a. PICK k \in cut[i - 1] + 1 .. upto[i] : x = s[k]
      BY ONLY <1>2, i \in 1 .. m, x \in Range(share[i]), ZenonT(60)
    <2>b. PICK l \in cut[j - 1] + 1 .. upto[j] : x = s[l]
      BY ONLY <1>2, j \in 1 .. m, x \in Range(share[j]), ZenonT(60)
    <2>1. /\ cut[i - 1] \in 0 .. Len(s) /\ cut[i] \in 0 .. Len(s) /\ cut[j - 1] \in 0 .. Len(s)
          /\ upto[i] \in 0 .. Len(s) /\ upto[j] \in 0 .. Len(s)
          /\ upto[i] <= cut[i] /\ cut[i] <= cut[j - 1]
      BY ONLY <1>1, <1>u, <1>3, i \in 1 .. m, j \in 1 .. m, ZenonT(60)
    <2>2. k \in DOMAIN s /\ l \in DOMAIN s /\ k < l
      <3> DEFINE a == cut[i - 1]
                 b == upto[i]
                 c == cut[j - 1]
                 d == upto[j]
                 e == cut[i]
      <3>1. /\ a \in 0 .. Len(s) /\ b \in 0 .. Len(s) /\ c \in 0 .. Len(s) /\ d \in 0 .. Len(s)
            /\ e \in 0 .. Len(s) /\ b <= e /\ e <= c
        BY ONLY <2>1, ZenonT(60)
      <3>2. k \in a + 1 .. b /\ l \in c + 1 .. d /\ DOMAIN s = 1 .. Len(s) /\ Len(s) \in Nat
        BY ONLY k \in cut[i - 1] + 1 .. upto[i], l \in cut[j - 1] + 1 .. upto[j], <1>0, ZenonT(60)
      <3> HIDE DEF a, b, c, d, e
      <3>3. k \in 1 .. Len(s) /\ l \in 1 .. Len(s) /\ k < l
        BY ONLY <3>1, <3>2, SMT
      <3>4. QED  BY ONLY <3>2, <3>3, ZenonT(60)
    <2>3. k = l
      BY ONLY <2>a, <2>b, <2>2, IsInjective(s), ZenonT(60) DEF IsInjective
    <2>4. QED  BY ONLY <2>2, <2>3, <1>0, SMT
  <1>4. ASSUME NEW i \in 1 .. m, NEW j \in 1 .. m, i # j
        PROVE  Range(share[i]) \intersect Range(share[j]) = {}
    <2>1. i < j \/ j < i
      BY ONLY <1>4, <1>0, i \in 1 .. m, j \in 1 .. m, SMT
    <2>2. QED  BY ONLY <2>1, <1>3, i \in 1 .. m, j \in 1 .. m, ZenonT(60)
  <1>5. ASSUME NEW i \in 1 .. m, NEW x \in Range(share[i])
        PROVE  x \in Range(s)
    <2>1. PICK k \in cut[i - 1] + 1 .. upto[i] : x = s[k]
      BY ONLY <1>2, i \in 1 .. m, x \in Range(share[i]), ZenonT(60)
    <2>2. k \in DOMAIN s
      <3> DEFINE a == cut[i - 1]
                 b == upto[i]
      <3>1. k \in a + 1 .. b /\ a \in 0 .. Len(s) /\ b \in 0 .. Len(s)
        BY ONLY <2>1, <1>1, <1>u, i \in 1 .. m, ZenonT(60)
      <3> HIDE DEF a, b
      <3>2. k \in 1 .. Len(s)
        BY ONLY <3>1, <1>0, SMT
      <3>3. QED  BY ONLY <3>2, <1>0, ZenonT(60)
    <2>3. QED  BY ONLY <2>1, <2>2, ZenonT(60) DEF Range
  <1>6. ASSUME \A i \in 1 .. m : upto[i] = cut[i], NEW x \in Range(s)
        PROVE  \E i \in 1 .. m : x \in Range(share[i])
    <2>1. PICK k \in DOMAIN s : x = s[k]
      BY ONLY x \in Range(s), ZenonT(60) DEF Range
    <2>2. PICK i \in 1 .. m : cut[i - 1] < k /\ k <= cut[i]
      BY ONLY <2>1, <1>0, <1>1, ZenonT(60)
    <2>3. k \in cut[i - 1] + 1 .. cut[i]
      BY ONLY <2>1, <2>2, <1>0, <1>1, SMT
    <2>4. k \in cut[i - 1] + 1 .. upto[i]
      BY ONLY <2>2, <2>3, <1>6, ZenonT(60)
    <2>5. QED  BY ONLY <2>1, <2>2, <2>4, <1>2, ZenonT(60)
  <1>7. UNION {Range(share[i]) : i \in 1 .. m} \subseteq Range(s)
    BY ONLY <1>5, ZenonT(60)
  <1>8. Parcels(share, m, s, S)
    BY ONLY <1>2, <1>4, <1>7, ZenonT(60) DEF Parcels
  <1>9. QED  BY ONLY <1>6, <1>8, ZenonT(60) DEF AllParcelled

-----------------------------------------------------------------------------
(* What the control state of a process says about the pages it carries.    *)

\* A process that is neither idle nor dead carries a list of pages; it is
\* "attach" (then it also names a sequence) or "push".
LEMMA ControlStates ==
    ASSUME TypeOK, NEW p \in Procs
    PROVE  /\ pc[p].at = "attach" => pc[p].seq \in SequenceIds /\ pc[p].pages \in Seq(Pages)
           /\ pc[p].at = "push" => pc[p].pages \in Seq(Pages)
           /\ pc[p] \notin {Idle, Dead} => pc[p].at \in {"attach", "push"}
           /\ pc[p].at \in {"attach", "push"} => pc[p] \notin {Idle, Dead}
  <1>1. pc[p] \in {Idle, Dead} \union Carry
    BY DEF TypeOK
  <1>2. CASE pc[p] \in {Idle, Dead}
    BY <1>2, SMT DEF Idle, Dead
  <1>3. CASE pc[p] \in Carry
    BY <1>3, SMT DEF Carry, Idle, Dead
  <1>4. QED  BY <1>1, <1>2, <1>3

\* While the server pushes a released chain, what it holds is a list of pages.
LEMMA ServerPushing ==
    ASSUME TypeOK, server.at = "pushing"
    PROVE  server.pages \in Seq(Pages) /\ server.todo \in SUBSET SequenceIds
  <1> DEFINE D == [at : {"pushing"}, todo : SUBSET SequenceIds, pages : Seq(Pages)]
             C == [at : {"releasing"}, todo : SUBSET SequenceIds]
             U == {[at |-> "serving"], [at |-> "rebuilt"]}
  <1>1. server \in U \union C \union D
    BY DEF TypeOK
  <1>2. \A x \in U : x.at # "pushing"
    BY SMT
  <1>3. \A x \in C : x.at # "pushing"
    OBVIOUS
  <1>4. \A x \in D : x.pages \in Seq(Pages) /\ x.todo \in SUBSET SequenceIds
    OBVIOUS
  <1> HIDE DEF C, D, U
  <1>5. QED  BY <1>1, <1>2, <1>3, <1>4

\* The region as ConstructSharedState leaves it is well typed.
LEMMA TypeInit == Init => TypeOK
  <1> SUFFICES ASSUME Init PROVE TypeOK
    OBVIOUS
  <1>1. free_stack \in Seq(Pages)
    BY NumPagesAssumption, SMT DEF Init, Pages
  <1>2. QED  BY <1>1, SMT DEF Init, TypeOK

\* A set of integers of an interval is finite.
LEMMA IntervalSets ==
    ASSUME NEW a \in Int, NEW b \in Int, NEW S \in SUBSET (a .. b)
    PROVE  IsFiniteSet(S) /\ Cardinality(S) \in Nat
  <1>1. IsFiniteSet(a .. b)
    BY FS_Interval
  <1>2. IsFiniteSet(S)
    BY <1>1, FS_Subset
  <1>3. QED  BY <1>2, FS_CardinalityType

\* A set of pages is finite.
LEMMA PageSets ==
    ASSUME NEW S \in SUBSET Pages
    PROVE  IsFiniteSet(S) /\ Cardinality(S) \in Nat
  <1>1. 0 \in Int /\ NumPages - 1 \in Int /\ S \in SUBSET (0 .. NumPages - 1)
    BY NumPagesAssumption, SMT DEF Pages
  <1>2. QED  BY ONLY <1>1, IntervalSets, ZenonT(60)

\* The increasing listing of a set of positions or pages lists each once.
LEMMA AscendingList ==
    ASSUME NEW K \in SUBSET Int, Cardinality(K) \in Nat, NEW f \in Ascending(K)
    PROVE  f \in [1 .. Cardinality(K) -> K] /\ IsInjective(f) /\ Range(f) = K
  <1>1. /\ f \in [1 .. Cardinality(K) -> K]
        /\ \A i, j \in DOMAIN f : i < j => f[i] < f[j]
        /\ \A k \in K : \E i \in DOMAIN f : f[i] = k
    BY DEF Ascending
  <1>2. IsInjective(f)
    <2> SUFFICES ASSUME NEW i \in DOMAIN f, NEW j \in DOMAIN f, f[i] = f[j] PROVE i = j
      BY DEF IsInjective
    <2> DEFINE n == Cardinality(K)
    <2>a. n \in Nat /\ f \in [1 .. n -> K]
      BY <1>1
    <2> HIDE DEF n
    <2>1. i \in Int /\ j \in Int /\ f[i] \in Int /\ f[j] \in Int
      <3>1. i \in 1 .. n /\ j \in 1 .. n
        BY <2>a
      <3>2. f[i] \in K /\ f[j] \in K
        BY <3>1, <2>a
      <3>3. i \in Int /\ j \in Int
        BY ONLY <2>a, <3>1, SMT
      <3>4. QED  BY <3>2, <3>3
    <2>2. ~(f[i] < f[j]) /\ ~(f[j] < f[i])
      BY <2>1, SMT
    <2>3. QED  BY <1>1, <2>1, <2>2, SMT
  <1>3. Range(f) = K
    BY <1>1 DEF Range
  <1>4. QED  BY <1>1, <1>2, <1>3

\* What SetOwner writes is an owner map.
LEMMA OwnersTyped ==
    ASSUME TypeOK, NEW S \in SUBSET Pages,
           NEW owner \in SequenceIds \union {Empty, PrefixResident}
    PROVE  SetOwner(S, owner) \in [Pages -> SequenceIds \union {Empty, PrefixResident}]
  BY DEF TypeOK, SetOwner

\* The items of a list of pages are pages.
LEMMA RangeTyped ==
    ASSUME NEW S, NEW s \in Seq(S)
    PROVE  Range(s) \subseteq S
  BY SMT DEF Range

\* A pop of n pages leaves a stack and yields a list of n pages.
LEMMA PopTyped ==
    ASSUME TypeOK, NEW n \in 0 .. Top
    PROVE  PopTop(n) \in Seq(Pages) /\ BelowTop(n) \in Seq(Pages) /\ Len(PopTop(n)) = n
  <1>1. free_stack \in Seq(Pages) /\ Top \in Nat
    BY SMT DEF TypeOK, Top
  <1>2. PopTop(n) \in Seq(Pages) /\ Len(PopTop(n)) = n
    BY <1>1, SMT DEF PopTop, Top
  <1>3. BelowTop(n) \in Seq(Pages)
    BY <1>1, SMT DEF BelowTop, Top
  <1>4. QED  BY <1>2, <1>3

\* The ids of a wave are distinct sequences, and its cuts increase.
LEMMA WaveForm ==
    ASSUME NEW ids \in Waves, NEW total \in Nat, NEW cut \in Cuts(Len(ids), total)
    PROVE  /\ Len(ids) \in Nat /\ DOMAIN ids = 1 .. Len(ids)
           /\ Range(ids) \subseteq SequenceIds /\ IsInjective(ids)
           /\ IsCut(cut, Len(ids), total)
           /\ \A i \in 1 .. Len(ids) : cut[i - 1] \in 0 .. total /\ cut[i] \in 0 .. total /\ cut[i - 1] < cut[i]
  <1>1. PICK m \in 1 .. MaxWave : ids \in [1 .. m -> SequenceIds]
    BY DEF Waves
  <1>2. Len(ids) = m /\ DOMAIN ids = 1 .. m /\ Range(ids) \subseteq SequenceIds /\ m \in Nat
    BY <1>1, WaveAssumption, SMT DEF Range
  <1>3. IsInjective(ids) /\ IsCut(cut, Len(ids), total)
    BY DEF Waves, Cuts, IsCut
  <1>4. QED  BY <1>2, <1>3, Cutting DEF IsCut

\* A wave of ids, whole or cut short by a kill: id i gets its pages up to upto[i]
\* and the ids with a page have an entry.
IsWave(ids, total, cut, upto, entries) ==
    /\ IsUpto(upto, cut, Len(ids))
    /\ entries \subseteq Range(ids)
    /\ \A i \in 1 .. Len(ids) : ids[i] \in entries \/ upto[i] = cut[i - 1]
    /\ AttachWave(ids, total, cut, upto, entries)

\* AcquirePagesForSequences is a wave in which every id gets all its pages.
LEMMA WholeWave ==
    ASSUME NEW p \in Procs, NEW ids \in Waves, NEW total \in 1 .. NumPages,
           NEW cut \in Cuts(Len(ids), total), AcquirePagesForSequences(p, ids, total, cut)
    PROVE  \E upto : /\ IsWave(ids, total, cut, upto, Range(ids))
                     /\ \A i \in 1 .. Len(ids) : upto[i] = cut[i]
  <1> DEFINE upto == [i \in 1 .. Len(ids) |-> cut[i]]
  <1>1. total \in Nat
    BY NumPagesAssumption, SMT
  <1>2. AttachWave(ids, total, cut, upto, Range(ids))
    BY DEF AcquirePagesForSequences
  <1>3. \A i \in 1 .. Len(ids) : upto[i] = cut[i]
    OBVIOUS
  <1> HIDE DEF upto
  <1>4. IsUpto(upto, cut, Len(ids))
    <2> SUFFICES ASSUME NEW i \in 1 .. Len(ids) PROVE upto[i] \in cut[i - 1] .. cut[i]
      BY DEF IsUpto
    <2>1. cut[i - 1] \in 0 .. total /\ cut[i] \in 0 .. total /\ cut[i - 1] < cut[i]
      BY <1>1, WaveForm
    <2>2. QED  BY ONLY <2>1, <1>3, <1>1, i \in 1 .. Len(ids), SMT
  <1>5. \A i \in 1 .. Len(ids) : ids[i] \in Range(ids)
    BY <1>1, WaveForm DEF Range
  <1>6. QED  BY <1>2, <1>3, <1>4, <1>5 DEF IsWave

\* A process killed while it attached a wave leaves a wave cut short.
LEMMA CutWave ==
    ASSUME NEW p \in Procs, NEW ids \in Waves, NEW total \in 1 .. NumPages,
           NEW cut \in Cuts(Len(ids), total), NEW last \in DOMAIN ids,
           NEW end \in cut[last - 1] .. cut[last], NEW done,
           KillInWave(p, ids, total, cut, last, end, done)
    PROVE  \E upto : IsWave(ids, total, cut, upto, Part(ids, 1, last))
  <1> DEFINE upto == [i \in 1 .. Len(ids) |-> IF i < last THEN cut[i]
                                             ELSE IF i = last THEN end ELSE cut[i - 1]]
  <1>1. total \in Nat
    BY NumPagesAssumption, SMT
  <1>2. AttachWave(ids, total, cut, upto, Part(ids, 1, last))
    BY DEF KillInWave
  <1>3. DOMAIN ids = 1 .. Len(ids) /\ Len(ids) \in Nat /\ last \in Nat /\ last <= Len(ids)
    <2>1. DOMAIN ids = 1 .. Len(ids) /\ Len(ids) \in Nat
      BY <1>1, WaveForm
    <2>2. QED  BY ONLY <2>1, last \in DOMAIN ids, SMT
  <1>4. ASSUME NEW i \in 1 .. Len(ids)
        PROVE  upto[i] \in cut[i - 1] .. cut[i] /\ (i \in 1 .. last \/ upto[i] = cut[i - 1])
    <2>1. cut[i - 1] \in 0 .. total /\ cut[i] \in 0 .. total /\ cut[i - 1] < cut[i]
      BY <1>1, WaveForm
    <2>2. upto[i] = IF i < last THEN cut[i] ELSE IF i = last THEN end ELSE cut[i - 1]
      OBVIOUS
    <2> HIDE DEF upto
    <2>3. CASE i < last
      BY ONLY <2>1, <2>2, <2>3, <1>1, <1>3, i \in 1 .. Len(ids), SMT
    <2>4. CASE i = last
      BY ONLY <2>2, <2>4, <1>3, end \in cut[last - 1] .. cut[last], i \in 1 .. Len(ids), SMT
    <2>5. CASE ~(i < last) /\ i # last
      BY ONLY <2>1, <2>2, <2>5, <1>1, SMT
    <2>6. QED  BY <2>3, <2>4, <2>5
  <1> HIDE DEF upto
  <1>5. IsUpto(upto, cut, Len(ids))
    BY <1>4 DEF IsUpto
  <1>6. Part(ids, 1, last) \subseteq Range(ids)
    <2>1. \A k \in 1 .. last : k \in DOMAIN ids
      BY ONLY <1>3, SMT
    <2>2. QED  BY <2>1 DEF Part, Range
  <1>7. \A i \in 1 .. Len(ids) : ids[i] \in Part(ids, 1, last) \/ upto[i] = cut[i - 1]
    BY <1>4 DEF Part
  <1>8. QED  BY <1>2, <1>5, <1>6, <1>7 DEF IsWave

\* So does one killed while it rolled a wave back.
LEMMA RolledBackWave ==
    ASSUME NEW p \in Procs, NEW ids \in Waves, NEW total \in 1 .. NumPages,
           NEW cut \in Cuts(Len(ids), total), NEW full \in DOMAIN ids,
           NEW first \in 2 .. full, NEW counted,
           KillInRollBack(p, ids, total, cut, full, first, counted)
    PROVE  \E upto : IsWave(ids, total, cut, upto, Part(ids, first, full - 1))
  <1> DEFINE upto == [i \in 1 .. Len(ids) |-> IF first <= i /\ i < full THEN cut[i] ELSE cut[i - 1]]
  <1>1. total \in Nat
    BY NumPagesAssumption, SMT
  <1>2. AttachWave(ids, total, cut, upto, Part(ids, first, full - 1))
    BY DEF KillInRollBack
  <1>3. DOMAIN ids = 1 .. Len(ids) /\ Len(ids) \in Nat /\ full \in 1 .. Len(ids)
        /\ first \in 2 .. full
    <2>1. DOMAIN ids = 1 .. Len(ids) /\ Len(ids) \in Nat
      BY <1>1, WaveForm
    <2>2. QED  BY <2>1
  <1>4. ASSUME NEW i \in 1 .. Len(ids)
        PROVE  upto[i] \in cut[i - 1] .. cut[i] /\ (i \in first .. full - 1 \/ upto[i] = cut[i - 1])
    <2>1. cut[i - 1] \in 0 .. total /\ cut[i] \in 0 .. total /\ cut[i - 1] < cut[i]
      BY <1>1, WaveForm
    <2>2. upto[i] = IF first <= i /\ i < full THEN cut[i] ELSE cut[i - 1]
      OBVIOUS
    <2> HIDE DEF upto
    <2>3. CASE first <= i /\ i < full
      BY ONLY <2>1, <2>2, <2>3, <1>1, <1>3, i \in 1 .. Len(ids), SMT
    <2>4. CASE ~(first <= i /\ i < full)
      BY ONLY <2>1, <2>2, <2>4, <1>1, SMT
    <2>5. QED  BY <2>3, <2>4
  <1> HIDE DEF upto
  <1>5. IsUpto(upto, cut, Len(ids))
    BY <1>4 DEF IsUpto
  <1>6. Part(ids, first, full - 1) \subseteq Range(ids)
    <2>1. \A k \in first .. full - 1 : k \in DOMAIN ids
      BY ONLY <1>3, SMT
    <2>2. QED  BY <2>1 DEF Part, Range
  <1>7. \A i \in 1 .. Len(ids) : ids[i] \in Part(ids, first, full - 1) \/ upto[i] = cut[i - 1]
    BY <1>4 DEF Part
  <1>8. QED  BY <1>2, <1>5, <1>6, <1>7 DEF IsWave

\* A wave leaves stack, table, chains and owners well typed.
LEMMA WaveTyped ==
    ASSUME TypeOK, NEW ids \in Waves, NEW total \in 1 .. NumPages, total <= Top,
           NEW cut \in Cuts(Len(ids), total), NEW upto, NEW entries,
           IsWave(ids, total, cut, upto, entries)
    PROVE  /\ free_stack' \in Seq(Pages)
           /\ live' \in SUBSET SequenceIds
           /\ chain' \in [SequenceIds -> Seq(Pages)]
           /\ page_owners' \in [Pages -> SequenceIds \union {Empty, PrefixResident}]
  <1> DEFINE share == [i \in 1 .. Len(ids) |-> SubSeq(PopTop(total), cut[i - 1] + 1, upto[i])]
             Index(s) == CHOOSE i \in DOMAIN ids : ids[i] = s
             Has(page, i) == page \in Range(share[i])
  <1>1. total \in 0 .. Top /\ total \in Nat
    BY SMT DEF TypeOK, Top
  <1>2. PopTop(total) \in Seq(Pages) /\ BelowTop(total) \in Seq(Pages) /\ Len(PopTop(total)) = total
    BY <1>1, PopTyped
  <1>3. Len(ids) \in Nat /\ DOMAIN ids = 1 .. Len(ids) /\ Range(ids) \subseteq SequenceIds
    BY <1>1, WaveForm
  <1>4. ASSUME NEW i \in 1 .. Len(ids)  PROVE share[i] \in Seq(Pages)
    <2> DEFINE a == cut[i - 1]
               b == upto[i]
               c == cut[i]
    <2>1. a \in 0 .. total /\ c \in 0 .. total
      BY <1>1, WaveForm
    <2>2. b \in a .. c
      BY DEF IsWave, IsUpto
    <2>3. share[i] = SubSeq(PopTop(total), a + 1, b)
      OBVIOUS
    <2> HIDE DEF a, b, c, share
    <2>4. SubSeq(PopTop(total), a + 1, b) \in Seq(Pages)
      BY ONLY <2>1, <2>2, <1>1, <1>2, SMT
    <2>5. QED  BY <2>3, <2>4
  <1>5. \A s \in Range(ids) : Index(s) \in 1 .. Len(ids)
    BY <1>3 DEF Range
  <1>6. /\ free_stack' = BelowTop(total)
        /\ live' = live \union entries
        /\ chain' = [s \in SequenceIds |->
                        IF s \in Range(ids) THEN chain[s] \o share[Index(s)] ELSE chain[s]]
        /\ page_owners' = [page \in Pages |->
                        IF \E i \in DOMAIN ids : Has(page, i)
                        THEN ids[CHOOSE i \in DOMAIN ids : Has(page, i)]
                        ELSE page_owners[page]]
    BY DEF IsWave, AttachWave
  <1>7. chain' \in [SequenceIds -> Seq(Pages)]
    <2> HIDE DEF share, Index
    <2>1. ASSUME NEW s \in SequenceIds, s \in Range(ids)
          PROVE  chain[s] \o share[Index(s)] \in Seq(Pages)
      BY <2>1, <1>4, <1>5, RangeConcat DEF TypeOK
    <2>2. QED  BY <2>1, <1>6 DEF TypeOK
  <1>8. page_owners' \in [Pages -> SequenceIds \union {Empty, PrefixResident}]
    <2> HIDE DEF Has
    <2>1. ASSUME NEW page \in Pages, \E i \in DOMAIN ids : Has(page, i)
          PROVE  ids[CHOOSE i \in DOMAIN ids : Has(page, i)] \in SequenceIds
      <3>1. (CHOOSE i \in DOMAIN ids : Has(page, i)) \in DOMAIN ids
        BY <2>1
      <3>2. QED  BY <3>1, <1>3 DEF Range
    <2>2. QED  BY <2>1, <1>6 DEF TypeOK
  <1>9. live' \in SUBSET SequenceIds
    BY <1>3, <1>6 DEF IsWave, TypeOK
  <1>10. QED  BY <1>2, <1>6, <1>7, <1>8, <1>9

\* Attaching pages to a sequence keeps table, chains and owners well typed.
LEMMA AttachTyped ==
    ASSUME TypeOK, NEW s \in SequenceIds, NEW q \in Seq(Pages), AttachPages(s, q)
    PROVE  /\ live' \in SUBSET SequenceIds
           /\ chain' \in [SequenceIds -> Seq(Pages)]
           /\ page_owners' \in [Pages -> SequenceIds \union {Empty, PrefixResident}]
  <1>1. page_owners' \in [Pages -> SequenceIds \union {Empty, PrefixResident}]
    BY OwnersTyped, RangeTyped DEF AttachPages
  <1>2. chain[s] \o q \in Seq(Pages)
    BY RangeConcat, SMT DEF TypeOK
  <1>3. chain' \in [SequenceIds -> Seq(Pages)] /\ live' \in SUBSET SequenceIds
    BY <1>2 DEF AttachPages, TypeOK
  <1>4. QED  BY <1>1, <1>3

\* Unlinking pages keeps the chains well typed.
LEMMA UnlinkTyped ==
    ASSUME TypeOK, NEW s \in SequenceIds, NEW R, Unlink(s, R)
    PROVE  chain' \in [SequenceIds -> Seq(Pages)]
  <1> DEFINE K == {i \in DOMAIN chain[s] : chain[s][i] \notin R}
  <1>1. PICK f \in Ascending(K) : chain' = [chain EXCEPT ![s] = [i \in DOMAIN f |-> chain[s][f[i]]]]
    BY DEF Unlink
  <1>2. chain[s] \in Seq(Pages)
    BY DEF TypeOK
  <1>3. Cardinality(K) \in Nat
    <2>1. K \in SUBSET (1 .. Len(chain[s])) /\ Len(chain[s]) \in Int
      BY <1>2, SMT
    <2> HIDE DEF K
    <2>2. 1 \in Int
      BY SMT
    <2>3. QED  BY ONLY <2>1, <2>2, IntervalSets, ZenonT(60)
  <1>4. [i \in DOMAIN f |-> chain[s][f[i]]] \in Seq(Pages)
    <2>1. DOMAIN f = 1 .. Cardinality(K) /\ \A i \in DOMAIN f : f[i] \in DOMAIN chain[s]
      BY <1>1 DEF Ascending
    <2> HIDE DEF K
    <2>2. \A i \in DOMAIN f : chain[s][f[i]] \in Pages
      BY <2>1, <1>2, SMT
    <2> DEFINE n == Cardinality(K)
    <2>3. n \in Nat /\ DOMAIN f = 1 .. n
      BY <2>1, <1>3
    <2> HIDE DEF n
    <2>4. QED  BY <2>2, <2>3, SMT
  <1>5. QED  BY <1>1, <1>4 DEF TypeOK

\* A death keeps the control states and the set of torn sequences well typed.
LEMMA DiesTyped ==
    ASSUME TypeOK, NEW p \in Procs, NEW S \in SUBSET SequenceIds, Dies(p, S)
    PROVE  /\ pc' \in [Procs -> {Idle, Dead} \union Carry]
           /\ torn' \in SUBSET SequenceIds
           /\ server' = server
  BY DEF TypeOK, Dies

\* Counting ids moves the counter by a number.
LEMMA CountTyped ==
    ASSUME TypeOK, NEW S \in SUBSET SequenceIds
    PROVE  active_sequences + Cardinality(S \ live) \in Int
  <1>1. Cardinality(S \ live) \in Nat
    BY FiniteIdsAssumption, FS_Subset, FS_CardinalityType
  <1>2. QED  BY <1>1, SMT DEF TypeOK

\* A kill inside a critical section leaves a well-typed region.
LEMMA KillInsideTyped ==
    ASSUME TypeOK, NEW p \in Procs, KillInside(p)
    PROVE  TypeOK'
  <1>1. ASSUME NEW n \in 0 .. NumPages, NEW counted \in 0 .. 1, KillInAttach(p, n, counted)
        PROVE  TypeOK'
    <2> DEFINE s == pc[p].seq
               q == SubSeq(pc[p].pages, 1, n)
    <2>1. s \in SequenceIds /\ pc[p].pages \in Seq(Pages) /\ n < Len(pc[p].pages)
      BY <1>1, ControlStates DEF KillInAttach
    <2>2. q \in Seq(Pages)
      BY <2>1, SMT
    <2>3. /\ AttachPages(s, q) /\ Dies(p, {s}) /\ free_stack' = free_stack
          /\ active_sequences' = active_sequences + counted
      BY <1>1 DEF KillInAttach
    <2> HIDE DEF s, q
    <2>4. active_sequences' \in Int
      BY <2>3, SMT DEF TypeOK
    <2>5. {s} \in SUBSET SequenceIds
      BY <2>1
    <2>6. QED  BY <2>1, <2>2, <2>3, <2>4, <2>5, AttachTyped, DiesTyped DEF TypeOK
  <1>2. ASSUME NEW s \in SequenceIds, NEW k \in 0 .. 1, KillInRelease(p, s, k)
        PROVE  TypeOK'
    <2> DEFINE a == SubSeq(chain[s], 1, k)
               b == SubSeq(chain[s], k + 1, Len(chain[s]))
    <2>1. chain[s] \in Seq(Pages) /\ k <= Len(chain[s])
      BY <1>2 DEF KillInRelease, TypeOK
    <2>2. a \in Seq(Pages) /\ b \in Seq(Pages)
      BY <2>1, SMT
    <2>3. /\ chain' = [chain EXCEPT ![s] = a] /\ page_owners' = SetOwner(Range(b), Empty)
          /\ live' = IF k = 0 THEN live \ {s} ELSE live
          /\ Dies(p, {s}) /\ UNCHANGED <<free_stack, active_sequences>>
      BY <1>2 DEF KillInRelease
    <2> HIDE DEF a, b
    <2>4. page_owners' \in [Pages -> SequenceIds \union {Empty, PrefixResident}]
      BY <2>2, <2>3, OwnersTyped, RangeTyped
    <2>5. {s} \in SUBSET SequenceIds
      OBVIOUS
    <2>6. live' \in SUBSET SequenceIds /\ chain' \in [SequenceIds -> Seq(Pages)]
      BY <2>2, <2>3 DEF TypeOK
    <2>7. QED  BY <2>3, <2>4, <2>5, <2>6, DiesTyped DEF TypeOK
  <1>3. ASSUME NEW s \in SequenceIds, NEW R \in SUBSET Range(chain[s]), NEW half \in R,
               KillInRetain(p, s, R, half)
        PROVE  TypeOK'
    <2>1. /\ Unlink(s, R) /\ Dies(p, {s}) /\ UNCHANGED <<free_stack, live, active_sequences>>
          /\ page_owners' = [page \in Pages |-> IF page = half THEN Empty
                                                ELSE IF page \in R THEN PrefixResident
                                                ELSE page_owners[page]]
      BY <1>3 DEF KillInRetain
    <2>2. page_owners' \in [Pages -> SequenceIds \union {Empty, PrefixResident}]
      BY <2>1 DEF TypeOK
    <2>3. {s} \in SUBSET SequenceIds
      OBVIOUS
    <2>4. QED  BY <2>1, <2>2, <2>3, UnlinkTyped, DiesTyped DEF TypeOK
  <1>4. ASSUME NEW ids \in Waves, NEW total \in 1 .. NumPages, NEW cut \in Cuts(Len(ids), total),
               NEW upto, NEW entries, IsWave(ids, total, cut, upto, entries), total <= Top,
               NEW counted \in SUBSET Range(ids), Dies(p, Range(ids)),
               active_sequences' = active_sequences + Cardinality(counted \ live)
        PROVE  TypeOK'
    <2>1. total \in Nat
      BY NumPagesAssumption, SMT
    <2>2. Range(ids) \in SUBSET SequenceIds
      BY <2>1, WaveForm
    <2>3. active_sequences' \in Int
      BY <1>4, <2>2, CountTyped
    <2>4. QED  BY <1>4, <2>2, <2>3, WaveTyped, DiesTyped DEF TypeOK
  <1>5. ASSUME NEW ids \in Waves, NEW i \in Int, NEW j \in Int, i >= 1, NEW last \in DOMAIN ids, j <= last
        PROVE  Part(ids, i, j) \in SUBSET Range(ids)
    <2>1. PICK m \in 1 .. MaxWave : ids \in [1 .. m -> SequenceIds]
      BY DEF Waves
    <2>2. \A k \in i .. j : k \in DOMAIN ids
      BY <1>5, <2>1, SMT
    <2>3. QED  BY <2>2 DEF Part, Range
  <1>6. ASSUME NEW ids \in Waves, NEW total \in 1 .. NumPages, NEW cut \in Cuts(Len(ids), total),
               NEW last \in DOMAIN ids, NEW end \in cut[last - 1] .. cut[last],
               NEW done \in last - 1 .. last, KillInWave(p, ids, total, cut, last, end, done)
        PROVE  TypeOK'
    <2>1. PICK upto : IsWave(ids, total, cut, upto, Part(ids, 1, last))
      BY <1>6, CutWave
    <2>2. /\ total <= Top /\ Dies(p, Range(ids))
          /\ active_sequences' = active_sequences + Cardinality(Part(ids, 1, done) \ live)
      BY <1>6 DEF KillInWave
    <2>3. last \in Int
      BY WaveForm, NumPagesAssumption, SMT
    <2>4. done \in Int /\ done <= last /\ 1 \in Int /\ 1 >= 1
      BY <2>3, SMT
    <2>5. Part(ids, 1, done) \in SUBSET Range(ids)
      BY <2>4, <1>5
    <2>6. QED  BY <2>1, <2>2, <2>5, <1>4
  <1>7. ASSUME NEW ids \in Waves, NEW total \in 1 .. NumPages, NEW cut \in Cuts(Len(ids), total),
               NEW full \in DOMAIN ids, NEW first \in 2 .. full, NEW counted \in first - 1 .. first,
               KillInRollBack(p, ids, total, cut, full, first, counted)
        PROVE  TypeOK'
    <2>1. PICK upto : IsWave(ids, total, cut, upto, Part(ids, first, full - 1))
      BY <1>7, RolledBackWave
    <2>2. /\ total <= Top /\ Dies(p, Range(ids))
          /\ active_sequences' = active_sequences + Cardinality(Part(ids, counted, full - 1) \ live)
      BY <1>7 DEF KillInRollBack
    <2>3. full \in Int
      BY WaveForm, NumPagesAssumption, SMT
    <2>4. counted \in Int /\ counted >= 1 /\ full - 1 \in Int /\ full - 1 <= full
      BY <2>3, SMT
    <2>5. Part(ids, counted, full - 1) \in SUBSET Range(ids)
      BY <2>4, <1>5
    <2>6. QED  BY <2>1, <2>2, <2>5, <1>4
  <1>8. QED  BY <1>1, <1>2, <1>3, <1>6, <1>7 DEF KillInside, Intact, IntactWaves

\* The type invariant is inductive.
LEMMA TypeStep == TypeOK /\ [Next]_vars => TypeOK'
  <1> SUFFICES ASSUME TypeOK, [Next]_vars PROVE TypeOK'
    OBVIOUS
  <1> USE DEF counters, table
  <1>p. \A q \in Seq(Pages) : [at |-> "push", pages |-> q] \in Carry
    BY DEF Carry
  <1>1. ASSUME NEW p \in Procs, NEW s \in SequenceIds, NEW n \in 1 .. NumPages, AcquirePop(p, s, n)
        PROVE  TypeOK'
    <2>1. n \in 0 .. Top
      BY <1>1, SMT DEF AcquirePop, TypeOK, Top
    <2>2. PopTop(n) \in Seq(Pages) /\ BelowTop(n) \in Seq(Pages)
      BY <2>1, PopTyped
    <2>3. [at |-> "attach", seq |-> s, pages |-> PopTop(n)] \in Carry
      BY <2>2 DEF Carry
    <2>4. QED  BY <1>1, <2>2, <2>3 DEF AcquirePop, TypeOK
  <1>2. ASSUME NEW p \in Procs, AcquireAttach(p)
        PROVE  TypeOK'
    <2> DEFINE s == pc[p].seq
               q == pc[p].pages
    <2>1. s \in SequenceIds /\ q \in Seq(Pages)
      BY <1>2, ControlStates DEF AcquireAttach
    <2>2. /\ AttachPages(s, q) /\ active_sequences' = active_sequences + New(s)
          /\ pc' = [pc EXCEPT ![p] = Idle] /\ UNCHANGED <<free_stack, torn, server>>
      BY <1>2 DEF AcquireAttach
    <2> HIDE DEF s, q
    <2>3. active_sequences' \in Int
      BY <2>2, SMT DEF New, TypeOK
    <2>4. QED  BY <2>1, <2>2, <2>3, AttachTyped DEF TypeOK
  <1>3. ASSUME NEW p \in Procs, AcquireTableFull(p)
        PROVE  TypeOK'
    BY <1>3, <1>p, ControlStates DEF AcquireTableFull, TypeOK
  <1>4. ASSUME NEW p \in Procs, Push(p)
        PROVE  TypeOK'
    <2>1. free_stack \o pc[p].pages \in Seq(Pages)
      BY <1>4, ControlStates, RangeConcat DEF Push, TypeOK
    <2>2. QED  BY <1>4, <2>1 DEF Push, TypeOK
  <1>5. ASSUME NEW p \in Procs, NEW ids \in Waves, NEW total \in 1 .. NumPages,
               NEW cut \in Cuts(Len(ids), total), AcquirePagesForSequences(p, ids, total, cut)
        PROVE  TypeOK'
    <2>1. /\ total <= Top /\ UNCHANGED <<torn, pc, server>>
          /\ active_sequences' = active_sequences + Cardinality(Range(ids) \ live)
      BY <1>5 DEF AcquirePagesForSequences
    <2>2. PICK upto : IsWave(ids, total, cut, upto, Range(ids))
      BY <1>5, WholeWave
    <2>3. total \in Nat
      BY NumPagesAssumption, SMT
    <2>4. Range(ids) \in SUBSET SequenceIds
      BY <2>3, WaveForm
    <2>5. active_sequences' \in Int
      BY <2>1, <2>4, CountTyped
    <2>6. QED  BY <2>1, <2>2, <2>5, WaveTyped DEF TypeOK
  <1>6. ASSUME NEW s \in SequenceIds, DetachSequence(s)
        PROVE  /\ page_owners' \in [Pages -> SequenceIds \union {Empty, PrefixResident}]
               /\ live' \in SUBSET SequenceIds
               /\ chain' \in [SequenceIds -> Seq(Pages)]
               /\ active_sequences' \in Int /\ torn' = torn
    <2>1. Range(chain[s]) \subseteq Pages
      BY RangeTyped DEF TypeOK
    <2>2. page_owners' \in [Pages -> SequenceIds \union {Empty, PrefixResident}]
      BY <1>6, <2>1, OwnersTyped DEF DetachSequence
    <2>3. QED  BY <1>6, <2>2, SMT DEF DetachSequence, TypeOK
  <1>7. ASSUME NEW p \in Procs, NEW s \in SequenceIds, ReleaseSequence(p, s)
        PROVE  TypeOK'
    <2>1. AfterDetach(chain[s]) \in {Idle, Dead} \union Carry
      BY <1>p DEF AfterDetach, TypeOK
    <2>2. QED  BY <1>6, <1>7, <2>1 DEF ReleaseSequence, TypeOK
  <1>8. ASSUME NEW p \in Procs, NEW s \in SequenceIds, NEW n \in 1 .. NumPages,
               ReleasePrefixPages(p, s, n)
        PROVE  TypeOK'
    <2> DEFINE q == SubSeq(chain[s], 1, n)
               r == SubSeq(chain[s], n + 1, Len(chain[s]))
    <2>1. chain[s] \in Seq(Pages) /\ n \in 1 .. Len(chain[s])
      BY <1>8, SMT DEF ReleasePrefixPages, TypeOK
    <2>2. q \in Seq(Pages) /\ r \in Seq(Pages)
      BY <2>1, SMT
    <2>3. SetOwner(Range(q), Empty) \in [Pages -> SequenceIds \union {Empty, PrefixResident}]
      BY <2>2, OwnersTyped, RangeTyped
    <2>4. page_owners' = SetOwner(Range(q), Empty) /\ chain' = [chain EXCEPT ![s] = r]
          /\ pc' = [pc EXCEPT ![p] = [at |-> "push", pages |-> q]]
          /\ UNCHANGED <<free_stack, live, counters, server>>
      BY <1>8 DEF ReleasePrefixPages
    <2> HIDE DEF q, r
    <2>5. QED  BY <2>2, <2>3, <2>4, <1>p DEF TypeOK
  <1>9. ASSUME NEW p \in Procs, NEW s \in SequenceIds, NEW R \in SUBSET Range(chain[s]),
               RetainPages(p, s, R)
        PROVE  TypeOK'
    <2>1. R \subseteq Pages
      BY RangeTyped DEF TypeOK
    <2>2. SetOwner(R, PrefixResident) \in [Pages -> SequenceIds \union {Empty, PrefixResident}]
      BY <2>1, OwnersTyped
    <2>3. QED  BY <1>9, <2>2, UnlinkTyped DEF RetainPages, TypeOK
  <1>10. ASSUME NEW p \in Procs, NEW pages \in Listings(Resident), ReleaseResidentPages(p, pages)
        PROVE  TypeOK'
    <2>1. pages \in Seq(Pages)
      <3>1. PICK n \in 1 .. Cardinality(Resident) : pages \in [1 .. n -> Resident]
        BY DEF Listings
      <3>2. Cardinality(Resident) \in Nat
        BY PageSets DEF Resident
      <3>3. QED  BY <3>1, <3>2, SMT DEF Resident
    <2>2. SetOwner(Range(pages), Empty) \in [Pages -> SequenceIds \union {Empty, PrefixResident}]
      BY <2>1, OwnersTyped, RangeTyped
    <2>3. QED  BY <1>10, <1>p, <2>1, <2>2 DEF ReleaseResidentPages, TypeOK
  <1>11. ASSUME NEW p \in Procs, Kill(p)
         PROVE  TypeOK'
    BY <1>11 DEF Kill, Dies, TypeOK
  <1>12. CASE CollectLive
    BY <1>12 DEF CollectLive, TypeOK
  <1>13. ASSUME NEW s \in SequenceIds, ServerDetach(s)
         PROVE  TypeOK'
    <2>1. server' \in [at : {"pushing"}, todo : SUBSET SequenceIds, pages : Seq(Pages)]
      BY <1>13, SMT DEF ServerDetach, TypeOK
    <2>2. QED  BY <1>6, <1>13, <2>1 DEF ServerDetach, TypeOK
  <1>14. CASE ServerPush
    <2>1. server.pages \in Seq(Pages) /\ server.todo \in SUBSET SequenceIds
      BY <1>14, SMT DEF ServerPush, TypeOK
    <2>2. free_stack \o server.pages \in Seq(Pages)
      BY <2>1, RangeConcat DEF TypeOK
    <2>3. QED  BY <1>14, <2>1, <2>2 DEF ServerPush, TypeOK
  <1>15. CASE RebuildFreeState
    <2> DEFINE free == {page \in Pages : page_owners[page] # PrefixResident}
    <2>1. PICK f \in Ascending(free) : free_stack' = [i \in DOMAIN f |-> f[Cardinality(free) + 1 - i]]
      BY <1>15 DEF RebuildFreeState, RebuildFrom
    <2>2. Cardinality(free) \in Nat
      BY PageSets
    <2>3. f \in [1 .. Cardinality(free) -> Pages]
      BY <2>1 DEF Ascending
    <2>4. free_stack' \in Seq(Pages)
      <3>1. \A i \in 1 .. Cardinality(free) : f[Cardinality(free) + 1 - i] \in Pages
        BY <2>2, <2>3, SMT
      <3>2. QED  BY <2>1, <2>2, <2>3, <3>1, SMT
    <2>5. SetOwner(free, Empty) \in [Pages -> SequenceIds \union {Empty, PrefixResident}]
      BY OwnersTyped
    <2>6. page_owners' = SetOwner(free, Empty) /\ chain' = [s \in SequenceIds |-> << >>]
          /\ active_sequences' = 0 /\ torn' = {} /\ server' = [at |-> "rebuilt"]
          /\ UNCHANGED <<live, pc>>
      BY <1>15 DEF RebuildFreeState, RebuildFrom
    <2>7. QED  BY <2>4, <2>5, <2>6, SMT DEF TypeOK
  <1>16. CASE Respawn
    BY <1>16 DEF Respawn, TypeOK
  <1>17. CASE UNCHANGED vars
    BY <1>17 DEF vars, TypeOK
  <1>18. QED
    BY <1>1, <1>2, <1>3, <1>4, <1>5, <1>7, <1>8, <1>9, <1>10, <1>11, <1>12, <1>13,
       <1>14, <1>15, <1>16, <1>17, KillInsideTyped
    DEF Next, Start, Finish, Reconcile, Resident, Intact, IntactWaves

\* Every operation, kill and reconcile step keeps the region well typed: the
\* stack, the chains and what is carried hold page ids only.
THEOREM TypeCorrect == Spec => []TypeOK
  BY TypeInit, TypeStep, PTL DEF Spec

-----------------------------------------------------------------------------
(* No page in two places                                                   *)

\* NoPageTwice is inductive together with the type and with RebuildSafe: the
\* steps of a process need that the server holds nothing while it runs.
IndInv == TypeOK /\ NoPageTwice /\ RebuildSafe

\* Changing what one process carries changes nothing for the others.
LEMMA CarryFrame ==
    ASSUME TypeOK, NEW p \in Procs, NEW v, pc' = [pc EXCEPT ![p] = v]
    PROVE  /\ \A q \in Procs \ {p} : pc'[q] = pc[q] /\ InFlight(q)' = InFlight(q)
           /\ pc'[p] = v
           /\ InFlight(p)' = IF v \in {Idle, Dead} THEN {} ELSE Range(v.pages)
  BY DEF TypeOK, InFlight

\* The two shapes of a carrying control state are neither idle nor dead.
LEMMA NotIdle ==
    /\ Idle # Dead
    /\ \A q : [at |-> "push", pages |-> q] \notin {Idle, Dead}
    /\ \A s, q : [at |-> "attach", seq |-> s, pages |-> q] \notin {Idle, Dead}
    /\ \A q : [at |-> "push", pages |-> q].pages = q
    /\ \A s, q : [at |-> "attach", seq |-> s, pages |-> q].pages = q
  BY DEF Idle, Dead

\* While some process is not dead, the server is not reconciling.
LEMMA OnlyServing ==
    ASSUME IndInv, NEW p \in Procs, pc[p] # Dead
    PROVE  server.at = "serving" /\ ServerHeld = {}
  BY DEF IndInv, RebuildSafe, ServerHeld

\* A fresh region: all pages on the stack, once each.
LEMMA SafeInit == Init => NoPageTwice /\ RebuildSafe
  <1> SUFFICES ASSUME Init PROVE NoPageTwice /\ RebuildSafe
    OBVIOUS
  <1>1. IsInjective(free_stack)
    BY NumPagesAssumption, SMT DEF Init, IsInjective
  <1>2. Range(free_stack) \subseteq Pages
    BY NumPagesAssumption, SMT DEF Init, Range, Pages
  <1>3. StackSound
    BY <1>1, <1>2 DEF Init, StackSound
  <1>4. ChainsSound
    BY ReservedIdsAssumption, SMT DEF Init, ChainsSound, IsInjective, Range
  <1>5. \A p \in Procs : InFlight(p) = {}
    BY DEF Init, InFlight
  <1>6. CarriedSound
    BY <1>5 DEF Init, CarriedSound, ServerHeld
  <1>7. RebuildSafe
    BY DEF Init, RebuildSafe
  <1>8. QED  BY <1>3, <1>4, <1>6, <1>7 DEF NoPageTwice

\* A step of a process leaves the server where it is: serving.
LEMMA ServingStep ==
    ASSUME IndInv, NEW p \in Procs, pc[p] # Dead, UNCHANGED server
    PROVE  RebuildSafe' /\ ServerHeld' = {} /\ server'.at = "serving"
  BY OnlyServing DEF RebuildSafe, ServerHeld

\* AcquirePop splits the stack: the popped pages leave it as they are carried.
LEMMA SafeAcquirePop ==
    ASSUME IndInv, NEW p \in Procs, NEW s \in SequenceIds, NEW n \in 1 .. NumPages,
           AcquirePop(p, s, n)
    PROVE  NoPageTwice' /\ RebuildSafe'
  <1> DEFINE a == BelowTop(n)
             b == PopTop(n)
  <1> USE DEF counters, table
  <1>1. TypeOK /\ StackSound /\ ChainsSound /\ CarriedSound
    BY DEF IndInv, NoPageTwice
  <1>2. pc[p] = Idle /\ InFlight(p) = {} /\ pc[p] # Dead
    BY NotIdle DEF AcquirePop, InFlight
  <1>3. Top - n \in 0 .. Len(free_stack) /\ free_stack \in Seq(Pages)
    BY <1>1, SMT DEF AcquirePop, Top, TypeOK
  <1>4. /\ IsInjective(a) /\ IsInjective(b)
        /\ Range(a) \intersect Range(b) = {}
        /\ Range(a) \union Range(b) = Range(free_stack)
    <2>1. a = SubSeq(free_stack, 1, Top - n) /\ b = SubSeq(free_stack, (Top - n) + 1, Len(free_stack))
      BY DEF BelowTop, PopTop, Top
    <2>2. IsInjective(free_stack)
      BY <1>1 DEF StackSound
    <2> HIDE DEF a, b
    <2>3. QED  BY <1>3, <2>1, <2>2, SplitList
  <1>5. free_stack' = a /\ pc' = [pc EXCEPT ![p] = [at |-> "attach", seq |-> s, pages |-> b]]
        /\ UNCHANGED <<page_owners, live, chain, server>>
    BY DEF AcquirePop
  <1> HIDE DEF a, b
  <1>6. InFlight(p)' = Range(b) /\ \A q \in Procs \ {p} : pc'[q] = pc[q] /\ InFlight(q)' = InFlight(q)
    <2> DEFINE v == [at |-> "attach", seq |-> s, pages |-> b]
    <2>1. v \notin {Idle, Dead} /\ v.pages = b
      BY NotIdle
    <2>2. pc' = [pc EXCEPT ![p] = v]
      BY <1>5
    <2> HIDE DEF v
    <2>3. QED  BY <1>1, <2>1, <2>2, CarryFrame
  <1>7. RebuildSafe' /\ ServerHeld' = {} /\ server'.at = "serving"
    BY <1>2, <1>5, ServingStep
  <1>8. StackSound'
    BY <1>1, <1>4, <1>5 DEF StackSound
  <1>9. ChainsSound'
    BY <1>1, <1>5 DEF ChainsSound
  <1>10. CarriedSound'
    <2>1. \A q \in Procs : pc'[q] \notin {Idle, Dead} => IsInjective(pc'[q].pages)
      BY <1>1, <1>4, <1>5, <1>6, CarryFrame, NotIdle, SMT DEF CarriedSound
    <2>2. \A q, r \in Procs : q # r => InFlight(q)' \intersect InFlight(r)' = {}
      BY <1>1, <1>4, <1>6, SMT DEF CarriedSound
    <2>3. ASSUME NEW q \in Procs, NEW page \in InFlight(q)'
          PROVE  page_owners'[page] = Empty /\ page \notin Range(free_stack')
      BY <1>1, <1>4, <1>5, <1>6 DEF CarriedSound, StackSound
    <2>4. QED  BY <2>1, <2>2, <2>3, <1>7 DEF CarriedSound
  <1>11. QED  BY <1>7, <1>8, <1>9, <1>10 DEF NoPageTwice

\* A step of p that leaves the others what they carry, gives no page that is
\* carried by another an owner and puts nothing on the stack.
LEMMA SafeFrame ==
    ASSUME IndInv, NEW p \in Procs, pc[p] # Dead, server' = server,
           pc'[p] \in {Idle, Dead}, \A r \in Procs \ {p} : pc'[r] = pc[r],
           StackSound', ChainsSound', Range(free_stack') \subseteq Range(free_stack),
           \A page \in Pages : /\ page_owners[page] = Empty
                               /\ page \notin Range(free_stack) \union InFlight(p)
                               => page_owners'[page] = Empty
    PROVE  NoPageTwice' /\ RebuildSafe'
  <1>1. TypeOK /\ CarriedSound
    BY DEF IndInv, NoPageTwice
  <1>2. InFlight(p)' = {} /\ \A r \in Procs \ {p} : InFlight(r)' = InFlight(r)
    BY DEF InFlight
  <1>3. RebuildSafe' /\ ServerHeld' = {} /\ server'.at = "serving"
    BY ServingStep
  <1>4. \A r \in Procs : pc'[r] \notin {Idle, Dead} => IsInjective(pc'[r].pages)
    BY <1>1 DEF CarriedSound
  <1>5. \A r, u \in Procs : r # u => InFlight(r)' \intersect InFlight(u)' = {}
    BY <1>1, <1>2 DEF CarriedSound
  <1>6. ASSUME NEW r \in Procs, NEW page \in InFlight(r)'
        PROVE  page_owners'[page] = Empty /\ page \notin Range(free_stack')
    <2>1. r # p /\ page \in InFlight(r)
      BY <1>2
    <2>2. page \notin InFlight(p)
      BY <2>1, <1>1 DEF CarriedSound
    <2>3. page_owners[page] = Empty /\ page \notin Range(free_stack)
      BY <2>1, <1>1 DEF CarriedSound
    <2>4. page \in Pages
      BY <2>1, <1>1, ControlStates, RangeTyped DEF InFlight
    <2>5. QED  BY <2>2, <2>3, <2>4
  <1>7. \A page \in ServerHeld' \union UNION {InFlight(r)' : r \in Procs} :
           page_owners'[page] = Empty /\ page \notin Range(free_stack')
    BY <1>3, <1>6
  <1>8. CarriedSound'
    BY <1>3, <1>4, <1>5, <1>7 DEF CarriedSound
  <1>9. QED  BY <1>3, <1>8 DEF NoPageTwice

\* Pages q that p carried are attached to s: all of them by AcquireAttach, the
\* first ones by an attach that a kill cuts short.
Given(p, s, q) ==
    /\ IsInjective(q) /\ Range(q) \subseteq InFlight(p)
    /\ AttachPages(s, q) /\ free_stack' = free_stack

\* Pages so attached were owned by nobody and become the sequence's.
LEMMA GivenSound ==
    ASSUME IndInv, NEW p \in Procs, NEW s \in SequenceIds, NEW q \in Seq(Pages), Given(p, s, q)
    PROVE  /\ StackSound' /\ ChainsSound'
           /\ Range(q) \subseteq Pages
           /\ \A page \in Range(q) : page_owners[page] = Empty /\ page \notin Range(free_stack)
           /\ \A page \in Pages : page_owners'[page] = IF page \in Range(q) THEN s ELSE page_owners[page]
  <1>1. TypeOK /\ StackSound /\ ChainsSound /\ CarriedSound
    BY DEF IndInv, NoPageTwice
  <1>2. IsInjective(q) /\ Range(q) \subseteq Pages /\ Range(q) \subseteq InFlight(p)
    BY RangeTyped DEF Given
  <1>3. /\ live' = live \union {s} /\ chain' = [chain EXCEPT ![s] = @ \o q]
        /\ page_owners' = SetOwner(Range(q), s) /\ free_stack' = free_stack
    BY DEF Given, AttachPages
  <1>4. \A page \in Range(q) : page_owners[page] = Empty /\ page \notin Range(free_stack)
    BY <1>1, <1>2 DEF CarriedSound
  <1>7. \A page \in Pages : page_owners'[page] = IF page \in Range(q) THEN s ELSE page_owners[page]
    BY <1>3 DEF SetOwner
  <1>8. StackSound'
    BY <1>1, <1>3, <1>4, <1>7, RangeTyped DEF StackSound, TypeOK
  <1>9. ChainsSound'
    <2>1. chain[s] \in Seq(Pages) /\ IsInjective(chain[s])
          /\ Range(chain[s]) = {page \in Pages : page_owners[page] = s}
      BY <1>1 DEF TypeOK, ChainsSound
    <2>2. Range(chain[s]) \intersect Range(q) = {}
      BY <2>1, <1>4, ReservedIdsAssumption
    <2>3. IsInjective(chain[s] \o q) /\ Range(chain[s] \o q) = Range(chain[s]) \union Range(q)
      BY <2>1, <2>2, <1>2, RangeConcat, InjectiveConcat, SMT
    <2>4. chain'[s] = chain[s] \o q /\ \A u \in SequenceIds \ {s} : chain'[u] = chain[u]
      BY <1>3, <1>1 DEF TypeOK
    <2>5. Range(chain'[s]) = {page \in Pages : page_owners'[page] = s}
      BY <2>1, <2>3, <2>4, <1>2, <1>7
    <2>6. ASSUME NEW u \in SequenceIds \ {s}
          PROVE  Range(chain'[u]) = {page \in Pages : page_owners'[page] = u}
      <3>1. {page \in Pages : page_owners'[page] = u} = {page \in Pages : page_owners[page] = u}
        BY <1>4, <1>7, ReservedIdsAssumption
      <3>2. QED  BY <2>4, <3>1, <1>1 DEF ChainsSound
    <2>7. \A u \in SequenceIds : IsInjective(chain'[u])
      BY <2>3, <2>4, <1>1 DEF ChainsSound
    <2>8. \A u \in SequenceIds \ live' : chain'[u] = << >>
      BY <2>4, <1>1, <1>3 DEF ChainsSound
    <2>9. QED  BY <2>5, <2>6, <2>7, <2>8 DEF ChainsSound
  <1>10. QED  BY <1>2, <1>4, <1>7, <1>8, <1>9

\* AcquireAttach attaches everything its process carries.
LEMMA AttachGives ==
    ASSUME IndInv, NEW p \in Procs, AcquireAttach(p)
    PROVE  /\ pc[p].seq \in SequenceIds /\ pc[p].pages \in Seq(Pages)
           /\ Given(p, pc[p].seq, pc[p].pages) /\ Range(pc[p].pages) = InFlight(p)
  <1>1. TypeOK /\ CarriedSound
    BY DEF IndInv, NoPageTwice
  <1>2. /\ pc[p].seq \in SequenceIds /\ pc[p].pages \in Seq(Pages) /\ pc[p] \notin {Idle, Dead}
        /\ InFlight(p) = Range(pc[p].pages)
    BY <1>1, ControlStates DEF AcquireAttach, InFlight
  <1>3. IsInjective(pc[p].pages)
    BY <1>1, <1>2 DEF CarriedSound
  <1>4. QED  BY <1>2, <1>3 DEF AcquireAttach, Given

\* AcquireAttach: the carried pages, owned by nobody, become the sequence's.
LEMMA SafeAcquireAttach ==
    ASSUME IndInv, NEW p \in Procs, AcquireAttach(p)
    PROVE  NoPageTwice' /\ RebuildSafe'
  <1> DEFINE s == pc[p].seq
             q == pc[p].pages
  <1>1. TypeOK
    BY DEF IndInv
  <1>2. s \in SequenceIds /\ q \in Seq(Pages) /\ Given(p, s, q) /\ Range(q) = InFlight(p)
    BY AttachGives
  <1>3. pc' = [pc EXCEPT ![p] = Idle] /\ server' = server /\ pc[p] # Dead
    BY <1>1, ControlStates DEF AcquireAttach
  <1> HIDE DEF s, q
  <1>4. pc'[p] = Idle /\ \A r \in Procs \ {p} : pc'[r] = pc[r]
    BY <1>1, <1>3 DEF TypeOK
  <1>5. /\ StackSound' /\ ChainsSound'
        /\ \A page \in Pages : page_owners'[page] = IF page \in Range(q) THEN s ELSE page_owners[page]
    BY <1>2, GivenSound
  <1>6. free_stack' = free_stack
    BY <1>2 DEF Given
  <1>7. QED  BY <1>2, <1>3, <1>4, <1>5, <1>6, SafeFrame

\* AcquireTableFull: the pages stay where they are, on their way back.
LEMMA SafeAcquireTableFull ==
    ASSUME IndInv, NEW p \in Procs, AcquireTableFull(p)
    PROVE  NoPageTwice' /\ RebuildSafe'
  <1> DEFINE v == [at |-> "push", pages |-> pc[p].pages]
  <1> USE DEF counters, table
  <1>1. TypeOK /\ StackSound /\ ChainsSound /\ CarriedSound
    BY DEF IndInv, NoPageTwice
  <1>2. pc[p] \notin {Idle, Dead} /\ InFlight(p) = Range(pc[p].pages)
    BY <1>1, ControlStates DEF AcquireTableFull, InFlight
  <1>3. pc' = [pc EXCEPT ![p] = v] /\ UNCHANGED <<free_stack, page_owners, live, chain, server>>
    BY DEF AcquireTableFull
  <1>4. v \notin {Idle, Dead} /\ v.pages = pc[p].pages
    BY NotIdle
  <1> HIDE DEF v
  <1>5. /\ \A r \in Procs \ {p} : pc'[r] = pc[r]
        /\ pc'[p] = v
        /\ \A r \in Procs : InFlight(r)' = InFlight(r)
    <2>1. /\ \A r \in Procs \ {p} : pc'[r] = pc[r] /\ InFlight(r)' = InFlight(r)
          /\ pc'[p] = v
          /\ InFlight(p)' = Range(v.pages)
      BY <1>1, <1>3, <1>4, CarryFrame
    <2>2. InFlight(p)' = InFlight(p)
      BY <1>2, <1>4, <2>1
    <2>3. QED  BY <2>1, <2>2
  <1>6. RebuildSafe' /\ ServerHeld' = {} /\ server'.at = "serving"
    BY <1>2, <1>3, ServingStep
  <1>7. StackSound' /\ ChainsSound'
    BY <1>1, <1>3 DEF StackSound, ChainsSound
  <1>8. \A r \in Procs : pc'[r] \notin {Idle, Dead} => IsInjective(pc'[r].pages)
    BY <1>1, <1>2, <1>4, <1>5 DEF CarriedSound
  <1>9. CarriedSound'
    BY <1>1, <1>3, <1>5, <1>6, <1>8 DEF CarriedSound
  <1>10. QED  BY <1>6, <1>7, <1>9 DEF NoPageTwice

\* Push: the carried pages are on no stack yet, so the stack stays free of
\* duplicates.
LEMMA SafePush ==
    ASSUME IndInv, NEW p \in Procs, Push(p)
    PROVE  NoPageTwice' /\ RebuildSafe'
  <1> DEFINE q == pc[p].pages
  <1> USE DEF counters, table
  <1>1. TypeOK /\ StackSound /\ ChainsSound /\ CarriedSound
    BY DEF IndInv, NoPageTwice
  <1>2. /\ q \in Seq(Pages) /\ pc[p] \notin {Idle, Dead}
        /\ InFlight(p) = Range(q) /\ IsInjective(q)
    BY <1>1, ControlStates DEF Push, InFlight, CarriedSound
  <1>3. /\ free_stack' = free_stack \o q /\ pc' = [pc EXCEPT ![p] = Idle]
        /\ UNCHANGED <<page_owners, live, chain, server>>
    BY DEF Push
  <1>4. \A page \in Range(q) : page_owners[page] = Empty /\ page \notin Range(free_stack)
    BY <1>1, <1>2 DEF CarriedSound
  <1> HIDE DEF q
  <1>5. InFlight(p)' = {} /\ \A r \in Procs \ {p} : pc'[r] = pc[r] /\ InFlight(r)' = InFlight(r)
    BY <1>1, <1>3, CarryFrame
  <1>6. RebuildSafe' /\ ServerHeld' = {} /\ server'.at = "serving"
    BY <1>2, <1>3, ServingStep
  <1>7. Range(free_stack') = Range(free_stack) \union Range(q)
    BY <1>1, <1>2, <1>3, RangeConcat, SMT DEF TypeOK
  <1>8. StackSound'
    <2>1. IsInjective(free_stack')
      BY <1>1, <1>2, <1>3, <1>4, InjectiveConcat DEF TypeOK, StackSound
    <2>2. QED  BY <2>1, <1>1, <1>3, <1>4, <1>7 DEF StackSound
  <1>9. ChainsSound'
    BY <1>1, <1>3 DEF ChainsSound
  <1>10. CarriedSound'
    <2>1. \A r \in Procs : pc'[r] \notin {Idle, Dead} => IsInjective(pc'[r].pages)
      BY <1>1, <1>3, <1>5, CarryFrame DEF CarriedSound
    <2>2. \A r, t \in Procs : r # t => InFlight(r)' \intersect InFlight(t)' = {}
      BY <1>1, <1>5 DEF CarriedSound
    <2>3. ASSUME NEW r \in Procs, NEW page \in InFlight(r)'
          PROVE  page_owners'[page] = Empty /\ page \notin Range(free_stack')
      <3>1. r # p /\ page \in InFlight(r) /\ page \notin Range(q)
        BY <1>1, <1>2, <1>5, SMT DEF CarriedSound
      <3>2. QED  BY <3>1, <1>1, <1>3, <1>7 DEF CarriedSound
    <2>4. QED  BY <2>1, <2>2, <2>3, <1>6 DEF CarriedSound
  <1>11. QED  BY <1>6, <1>8, <1>9, <1>10 DEF NoPageTwice

\* Taking owned pages out (ReleaseSequence, ReleasePrefixPages,
\* ReleaseResidentPages): they are on no stack and carried by nobody else.
LEMMA SafeTakeOut ==
    ASSUME IndInv, NEW p \in Procs, pc[p] = Idle,
           NEW q \in Seq(Pages), IsInjective(q),
           \A page \in Range(q) : page_owners[page] # Empty,
           page_owners' = SetOwner(Range(q), Empty),
           pc' = [pc EXCEPT ![p] = [at |-> "push", pages |-> q]],
           UNCHANGED <<free_stack, server>>
    PROVE  StackSound' /\ CarriedSound' /\ RebuildSafe'
  <1>1. TypeOK /\ StackSound /\ ChainsSound /\ CarriedSound
    BY DEF IndInv, NoPageTwice
  <1>2. InFlight(p)' = Range(q) /\ \A r \in Procs \ {p} : pc'[r] = pc[r] /\ InFlight(r)' = InFlight(r)
    <2> DEFINE v == [at |-> "push", pages |-> q]
    <2>1. v \notin {Idle, Dead} /\ v.pages = q /\ pc' = [pc EXCEPT ![p] = v]
      BY NotIdle
    <2> HIDE DEF v
    <2>2. QED  BY <1>1, <2>1, CarryFrame
  <1>3. RebuildSafe' /\ ServerHeld' = {} /\ server'.at = "serving"
    BY ServingStep, NotIdle
  <1>4. \A page \in Pages : page_owners'[page] = IF page \in Range(q) THEN Empty ELSE page_owners[page]
    BY DEF SetOwner
  <1>5. StackSound'
    BY <1>1, <1>4, RangeTyped DEF StackSound, TypeOK
  <1>6. \A r \in Procs \ {p} : InFlight(r) \subseteq Pages /\ InFlight(r) \intersect Range(q) = {}
    <2> SUFFICES ASSUME NEW r \in Procs \ {p}
                 PROVE  InFlight(r) \subseteq Pages /\ InFlight(r) \intersect Range(q) = {}
      OBVIOUS
    <2>1. InFlight(r) \subseteq Pages
      BY <1>1, ControlStates, RangeTyped DEF InFlight
    <2>2. \A page \in InFlight(r) : page_owners[page] = Empty
      BY <1>1 DEF CarriedSound
    <2>3. QED  BY <2>1, <2>2
  <1>7. \A r \in Procs : pc'[r] \notin {Idle, Dead} => IsInjective(pc'[r].pages)
    <2>1. pc'[p] = [at |-> "push", pages |-> q]
      BY <1>1 DEF TypeOK
    <2>2. pc'[p].pages = q
      BY <2>1, SMT
    <2>3. IsInjective(pc'[p].pages)
      BY <1>1, <2>2
    <2>4. \A r \in Procs \ {p} : pc[r] \notin {Idle, Dead} => IsInjective(pc[r].pages)
      BY <1>1 DEF CarriedSound
    <2>5. QED  BY <1>2, <2>3, <2>4
  <1>8. \A r, t \in Procs : r # t => InFlight(r)' \intersect InFlight(t)' = {}
    <2>1. \A r, t \in Procs \ {p} : r # t => InFlight(r) \intersect InFlight(t) = {}
      BY <1>1 DEF CarriedSound
    <2>2. \A r, t \in Procs \ {p} : r # t => InFlight(r)' \intersect InFlight(t)' = {}
      BY <1>2, <2>1
    <2>3. \A r \in Procs \ {p} : InFlight(r)' \intersect InFlight(p)' = {}
      BY <1>2, <1>6
    <2>4. QED  BY <2>2, <2>3
  <1>9. ASSUME NEW r \in Procs, NEW page \in InFlight(r)'
        PROVE  page_owners'[page] = Empty /\ page \notin Range(free_stack')
    <2>1. CASE r = p
      <3>1. page \in Range(q) /\ page \in Pages
        BY <2>1, <1>2, RangeTyped
      <3>2. QED  BY <3>1, <1>1, <1>4 DEF StackSound
    <2>2. CASE r # p
      BY <2>2, <1>1, <1>2, <1>4, <1>6, SMT DEF CarriedSound
    <2>3. QED  BY <2>1, <2>2
  <1>10. CarriedSound'
    BY <1>3, <1>7, <1>8, <1>9 DEF CarriedSound
  <1>11. QED  BY <1>3, <1>5, <1>10

\* Detaching a whole sequence empties its chain and leaves the others alone.
LEMMA SafeDetach ==
    ASSUME TypeOK, ChainsSound, NEW s \in SequenceIds, DetachSequence(s)
    PROVE  /\ ChainsSound'
           /\ chain[s] \in Seq(Pages) /\ IsInjective(chain[s])
           /\ \A page \in Range(chain[s]) : page_owners[page] # Empty
           /\ page_owners' = SetOwner(Range(chain[s]), Empty)
           /\ live' = live \ {s}
  <1>1. /\ chain[s] \in Seq(Pages) /\ IsInjective(chain[s])
        /\ Range(chain[s]) = {page \in Pages : page_owners[page] = s}
    BY DEF TypeOK, ChainsSound
  <1>2. /\ chain' = [chain EXCEPT ![s] = << >>] /\ live' = live \ {s}
        /\ page_owners' = SetOwner(Range(chain[s]), Empty)
    BY DEF DetachSequence
  <1>3. \A page \in Pages : page_owners'[page] = IF page_owners[page] = s THEN Empty ELSE page_owners[page]
    BY <1>1, <1>2 DEF SetOwner
  <1>4. chain'[s] = << >> /\ \A t \in SequenceIds \ {s} : chain'[t] = chain[t]
    BY <1>2 DEF TypeOK
  <1>5. Range(chain'[s]) = {} /\ IsInjective(chain'[s])
    BY <1>4, SMT DEF Range, IsInjective
  <1>6. \A t \in SequenceIds : Range(chain'[t]) = {page \in Pages : page_owners'[page] = t}
    BY <1>3, <1>4, <1>5, ReservedIdsAssumption, SMT DEF ChainsSound
  <1>7. ChainsSound'
    BY <1>2, <1>4, <1>5, <1>6 DEF ChainsSound
  <1>8. QED  BY <1>1, <1>2, <1>7, ReservedIdsAssumption

\* ReleaseSequence, of a sequence with or without pages.
LEMMA SafeReleaseSequence ==
    ASSUME IndInv, NEW p \in Procs, NEW s \in SequenceIds, ReleaseSequence(p, s)
    PROVE  NoPageTwice' /\ RebuildSafe'
  <1>1. TypeOK /\ StackSound /\ ChainsSound /\ CarriedSound
    BY DEF IndInv, NoPageTwice
  <1>2. /\ pc[p] = Idle /\ pc' = [pc EXCEPT ![p] = AfterDetach(chain[s])]
        /\ UNCHANGED <<free_stack, server>> /\ DetachSequence(s)
    BY DEF ReleaseSequence
  <1>3. /\ ChainsSound'
        /\ chain[s] \in Seq(Pages) /\ IsInjective(chain[s])
        /\ \A page \in Range(chain[s]) : page_owners[page] # Empty
        /\ page_owners' = SetOwner(Range(chain[s]), Empty)
    BY <1>1, <1>2, SafeDetach
  <1>4. CASE chain[s] = << >>
    <2>1. page_owners' = page_owners /\ pc' = pc
      <3>1. Range(chain[s]) = {}
        BY <1>4, SMT DEF Range
      <3>2. page_owners' = page_owners
        BY <3>1, <1>1, <1>3 DEF SetOwner, TypeOK
      <3>3. QED  BY <3>2, <1>1, <1>2, <1>4 DEF AfterDetach, TypeOK
    <2>2. StackSound'
      BY <2>1, <1>1, <1>2 DEF StackSound
    <2>3. CarriedSound'
      BY <2>1, <1>1, <1>2, SMT DEF CarriedSound, InFlight, ServerHeld
    <2>4. RebuildSafe'
      BY <1>2, NotIdle, ServingStep
    <2>5. QED  BY <2>2, <2>3, <2>4, <1>3 DEF NoPageTwice
  <1>5. CASE chain[s] # << >>
    <2>1. pc' = [pc EXCEPT ![p] = [at |-> "push", pages |-> chain[s]]]
      BY <1>2, <1>5 DEF AfterDetach
    <2>2. QED  BY <2>1, <1>2, <1>3, SafeTakeOut DEF NoPageTwice
  <1>6. QED  BY <1>4, <1>5

\* ReleasePrefixPages cuts the chain: the head part is carried away.
LEMMA SafeReleasePrefixPages ==
    ASSUME IndInv, NEW p \in Procs, NEW s \in SequenceIds, NEW n \in 1 .. NumPages,
           ReleasePrefixPages(p, s, n)
    PROVE  NoPageTwice' /\ RebuildSafe'
  <1> DEFINE q == SubSeq(chain[s], 1, n)
             r == SubSeq(chain[s], n + 1, Len(chain[s]))
  <1>1. TypeOK /\ StackSound /\ ChainsSound /\ CarriedSound
    BY DEF IndInv, NoPageTwice
  <1>2. chain[s] \in Seq(Pages) /\ n \in 0 .. Len(chain[s]) /\ IsInjective(chain[s])
        /\ Range(chain[s]) = {page \in Pages : page_owners[page] = s}
    <2>1. chain[s] \in Seq(Pages)
      BY <1>1 DEF TypeOK
    <2>2. n <= Len(chain[s])
      BY DEF ReleasePrefixPages
    <2>3. IsInjective(chain[s]) /\ Range(chain[s]) = {page \in Pages : page_owners[page] = s}
      BY <1>1 DEF ChainsSound
    <2>4. n \in 0 .. Len(chain[s])
      BY ONLY <2>1, <2>2, NumPagesAssumption, n \in 1 .. NumPages, SMT
    <2>5. QED  BY <2>1, <2>3, <2>4
  <1>3. /\ pc[p] = Idle /\ pc' = [pc EXCEPT ![p] = [at |-> "push", pages |-> q]]
        /\ page_owners' = SetOwner(Range(q), Empty) /\ chain' = [chain EXCEPT ![s] = r]
        /\ UNCHANGED <<free_stack, live, server>> /\ s \in live
    BY DEF ReleasePrefixPages
  <1>4. /\ q \in Seq(Pages) /\ r \in Seq(Pages) /\ IsInjective(q) /\ IsInjective(r)
        /\ Range(q) \intersect Range(r) = {} /\ Range(q) \union Range(r) = Range(chain[s])
    BY <1>2, SplitList
  <1> HIDE DEF q, r
  <1>5. StackSound' /\ CarriedSound' /\ RebuildSafe'
    BY <1>2, <1>3, <1>4, SafeTakeOut, ReservedIdsAssumption
  <1>6. ChainsSound'
    <2>1. \A page \in Pages : page_owners'[page] = IF page \in Range(q) THEN Empty ELSE page_owners[page]
      BY <1>3 DEF SetOwner
    <2>2. chain'[s] = r /\ \A t \in SequenceIds \ {s} : chain'[t] = chain[t]
      BY <1>1, <1>3 DEF TypeOK
    <2>3. Range(chain'[s]) = {page \in Pages : page_owners'[page] = s}
      BY <2>1, <2>2, <1>2, <1>4, ReservedIdsAssumption, SMT
    <2>4. \A t \in SequenceIds \ {s} : Range(chain'[t]) = {page \in Pages : page_owners'[page] = t}
      BY <2>1, <2>2, <1>1, <1>2, <1>4, ReservedIdsAssumption, SMT DEF ChainsSound
    <2>5. \A t \in SequenceIds : IsInjective(chain'[t])
      BY <2>2, <1>1, <1>4 DEF ChainsSound
    <2>6. \A t \in SequenceIds \ live' : chain'[t] = << >>
      BY <2>2, <1>1, <1>3 DEF ChainsSound
    <2>7. QED  BY <2>3, <2>4, <2>5, <2>6 DEF ChainsSound
  <1>7. QED  BY <1>5, <1>6 DEF NoPageTwice

\* Pages S leave the chain of s and become resident, but for those that are
\* lost: none by RetainPages, some by a retain or a release cut short by a kill.
Taken(s, S, lost) ==
    /\ S \subseteq Range(chain[s]) /\ lost \subseteq S /\ free_stack' = free_stack
    /\ page_owners' = [page \in Pages |-> IF page \in lost THEN Empty
                                          ELSE IF page \in S THEN PrefixResident
                                          ELSE page_owners[page]]
    /\ \A u \in SequenceIds \ {s} : chain'[u] = chain[u]
    /\ IsInjective(chain'[s]) /\ Range(chain'[s]) = Range(chain[s]) \ S
    /\ live' = live \/ (live' = live \ {s} /\ chain'[s] = << >>)
    /\ s \in live

\* Unlinking pages from a chain leaves the others in it.
LEMMA UnlinkList ==
    ASSUME TypeOK, ChainsSound, NEW s \in SequenceIds, NEW R, Unlink(s, R)
    PROVE  /\ \A u \in SequenceIds \ {s} : chain'[u] = chain[u]
           /\ IsInjective(chain'[s]) /\ Range(chain'[s]) = Range(chain[s]) \ R
  <1> DEFINE K == {i \in DOMAIN chain[s] : chain[s][i] \notin R}
  <1>1. chain[s] \in Seq(Pages) /\ IsInjective(chain[s])
    BY DEF TypeOK, ChainsSound
  <1>2. PICK f \in Ascending(K) : chain' = [chain EXCEPT ![s] = [i \in DOMAIN f |-> chain[s][f[i]]]]
    BY DEF Unlink
  <1> DEFINE t == [i \in DOMAIN f |-> chain[s][f[i]]]
  <1>3. IsInjective(t) /\ Range(t) = {chain[s][k] : k \in K}
    <2>1. K \in SUBSET (DOMAIN chain[s]) /\ K \in SUBSET (1 .. Len(chain[s])) /\ Len(chain[s]) \in Int
      BY <1>1, SMT
    <2> HIDE DEF K
    <2>2. 1 \in Int
      BY SMT
    <2>3. Cardinality(K) \in Nat
      BY ONLY <2>1, <2>2, IntervalSets, ZenonT(60)
    <2>4. f \in [1 .. Cardinality(K) -> K] /\ IsInjective(f) /\ Range(f) = K
      BY <1>2, <2>1, <2>3, AscendingList, SMT
    <2>5. DOMAIN t = DOMAIN f /\ \A i \in DOMAIN f : f[i] \in DOMAIN chain[s] /\ t[i] = chain[s][f[i]]
      BY <2>1, <2>4
    <2> HIDE DEF t
    <2>6. IsInjective(t)
      BY <2>4, <2>5, <1>1, SMT DEF IsInjective
    <2>7. Range(t) = {chain[s][k] : k \in K}
      BY <2>4, <2>5, SMT DEF Range
    <2>8. QED  BY <2>6, <2>7
  <1>4. Range(t) = Range(chain[s]) \ R
    BY <1>3 DEF Range
  <1>5. chain'[s] = t /\ \A u \in SequenceIds \ {s} : chain'[u] = chain[u]
    BY <1>2 DEF TypeOK
  <1> HIDE DEF t, K
  <1>6. QED  BY <1>3, <1>4, <1>5

\* Pages so taken have left their chain for good, and nobody else's changed.
LEMMA TakenSound ==
    ASSUME IndInv, NEW s \in SequenceIds, NEW S, NEW lost, Taken(s, S, lost)
    PROVE  /\ StackSound' /\ ChainsSound'
           /\ S \subseteq Pages /\ lost \subseteq S
           /\ \A page \in S : page_owners[page] = s /\ page \notin Range(free_stack)
           /\ \A page \in Pages : page_owners'[page] = IF page \in lost THEN Empty
                                                      ELSE IF page \in S THEN PrefixResident
                                                      ELSE page_owners[page]
  <1>1. TypeOK /\ StackSound /\ ChainsSound
    BY DEF IndInv, NoPageTwice
  <1>2. /\ IsInjective(chain[s]) /\ Range(chain[s]) = {page \in Pages : page_owners[page] = s}
    BY <1>1 DEF ChainsSound
  <1>3. S \subseteq Pages /\ lost \subseteq S /\ \A page \in S : page_owners[page] = s
    BY <1>2 DEF Taken
  <1>4. \A page \in S : page \notin Range(free_stack)
    BY <1>1, <1>3, ReservedIdsAssumption DEF StackSound
  <1>5. \A page \in Pages : page_owners'[page] = IF page \in lost THEN Empty
                                                ELSE IF page \in S THEN PrefixResident
                                                ELSE page_owners[page]
    BY DEF Taken
  <1>6. StackSound'
    <2>1. free_stack' = free_stack /\ Range(free_stack) \subseteq Pages
      BY <1>1, RangeTyped DEF Taken, TypeOK
    <2>2. QED  BY <2>1, <1>1, <1>3, <1>4, <1>5 DEF StackSound
  <1>7. ChainsSound'
    <2>1. /\ \A u \in SequenceIds \ {s} : chain'[u] = chain[u]
          /\ IsInjective(chain'[s]) /\ Range(chain'[s]) = Range(chain[s]) \ S
          /\ live' = live \/ (live' = live \ {s} /\ chain'[s] = << >>)
          /\ s \in live
      BY DEF Taken
    <2>2. Range(chain'[s]) = {page \in Pages : page_owners'[page] = s}
      <3>1. ASSUME NEW page \in Pages
            PROVE  (page_owners'[page] = s) <=> (page_owners[page] = s /\ page \notin S)
        BY <1>3, <1>5, ReservedIdsAssumption
      <3>2. QED  BY <3>1, <2>1, <1>2
    <2>3. ASSUME NEW u \in SequenceIds \ {s}
          PROVE  Range(chain'[u]) = {page \in Pages : page_owners'[page] = u}
      <3>1. ASSUME NEW page \in Pages
            PROVE  (page_owners'[page] = u) <=> (page_owners[page] = u)
        <4>1. u # s /\ u # Empty /\ u # PrefixResident
          BY ReservedIdsAssumption
        <4>2. CASE page \in S
          BY <4>1, <4>2, <1>3, <1>5
        <4>3. CASE page \notin S
          BY <4>3, <1>3, <1>5
        <4>4. QED  BY <4>2, <4>3
      <3>2. QED  BY <3>1, <2>1, <1>1 DEF ChainsSound
    <2>4. \A u \in SequenceIds : IsInjective(chain'[u])
      BY <2>1, <1>1 DEF ChainsSound
    <2>5. ASSUME NEW u \in SequenceIds \ live'  PROVE chain'[u] = << >>
      <3>1. CASE u = s
        BY <3>1, <2>1
      <3>2. CASE u # s
        <4>1. u \notin live /\ chain'[u] = chain[u]
          BY <3>2, <2>1
        <4>2. QED  BY <4>1, <1>1 DEF ChainsSound
      <3>3. QED  BY <3>1, <3>2
    <2>6. QED  BY <2>2, <2>3, <2>4, <2>5 DEF ChainsSound
  <1>8. QED  BY <1>3, <1>4, <1>5, <1>6, <1>7

\* RetainPages takes the pages it was given and loses none.
LEMMA RetainTakes ==
    ASSUME IndInv, NEW p \in Procs, NEW s \in SequenceIds, NEW R \in SUBSET Range(chain[s]),
           RetainPages(p, s, R)
    PROVE  Taken(s, R, {})
  <1>1. TypeOK /\ ChainsSound
    BY DEF IndInv, NoPageTwice
  <1>2. /\ Unlink(s, R) /\ s \in live /\ live' = live /\ free_stack' = free_stack
        /\ page_owners' = SetOwner(R, PrefixResident)
    BY DEF RetainPages
  <1>3. page_owners' = [page \in Pages |-> IF page \in {} THEN Empty
                                           ELSE IF page \in R THEN PrefixResident
                                           ELSE page_owners[page]]
    BY <1>2 DEF SetOwner
  <1>4. /\ \A u \in SequenceIds \ {s} : chain'[u] = chain[u]
        /\ IsInjective(chain'[s]) /\ Range(chain'[s]) = Range(chain[s]) \ R
    BY <1>1, <1>2, UnlinkList
  <1>5. QED  BY <1>2, <1>3, <1>4 DEF Taken

\* RetainPages: the pages kept out of the chain are the ones marked resident.
LEMMA SafeRetainPages ==
    ASSUME IndInv, NEW p \in Procs, NEW s \in SequenceIds, NEW R \in SUBSET Range(chain[s]),
           RetainPages(p, s, R)
    PROVE  NoPageTwice' /\ RebuildSafe'
  <1>1. pc[p] = Idle /\ pc' = pc /\ server' = server /\ free_stack' = free_stack
    BY DEF RetainPages
  <1>2. Taken(s, R, {})
    BY RetainTakes
  <1>3. /\ StackSound' /\ ChainsSound'
        /\ \A page \in R : page_owners[page] = s
        /\ \A page \in Pages : page_owners'[page] = IF page \in {} THEN Empty
                                                   ELSE IF page \in R THEN PrefixResident
                                                   ELSE page_owners[page]
    BY <1>2, TakenSound
  <1>4. \A page \in Pages : page_owners[page] = Empty => page_owners'[page] = Empty
    BY <1>3, ReservedIdsAssumption
  <1>5. QED  BY <1>1, <1>3, <1>4, SafeFrame, NotIdle

\* ReleaseResidentPages takes pages of the prefix cache; no chain has them.
LEMMA SafeReleaseResidentPages ==
    ASSUME IndInv, NEW p \in Procs, NEW pages \in Listings(Resident), ReleaseResidentPages(p, pages)
    PROVE  NoPageTwice' /\ RebuildSafe'
  <1>1. TypeOK /\ StackSound /\ ChainsSound /\ CarriedSound
    BY DEF IndInv, NoPageTwice
  <1>2. PICK n \in 1 .. Cardinality(Resident) : pages \in [1 .. n -> Resident]
    BY DEF Listings
  <1>3. Cardinality(Resident) \in Nat
    BY PageSets DEF Resident
  <1>4. pages \in Seq(Pages) /\ IsInjective(pages)
    BY <1>2, <1>3, SMT DEF Listings, Resident
  <1>5. /\ pc[p] = Idle /\ page_owners' = SetOwner(Range(pages), Empty)
        /\ pc' = [pc EXCEPT ![p] = [at |-> "push", pages |-> pages]]
        /\ UNCHANGED <<free_stack, live, chain, server>>
    BY DEF ReleaseResidentPages, counters
  <1>6. \A page \in Range(pages) : page_owners[page] = PrefixResident
    BY <1>2 DEF Range, Resident
  <1>7. StackSound' /\ CarriedSound' /\ RebuildSafe'
    BY <1>4, <1>5, <1>6, SafeTakeOut, ReservedIdsAssumption
  <1>8. \A page \in Pages : page_owners'[page] = IF page \in Range(pages) THEN Empty ELSE page_owners[page]
    BY <1>5 DEF SetOwner
  <1>9. \A u \in SequenceIds : {page \in Pages : page_owners'[page] = u} = {page \in Pages : page_owners[page] = u}
    BY <1>6, <1>8, ReservedIdsAssumption
  <1>10. ChainsSound'
    BY <1>1, <1>5, <1>9 DEF ChainsSound
  <1>11. QED  BY <1>7, <1>10 DEF NoPageTwice

\* A kill loses what the process carried, which is nowhere else; one inside a
\* section leaves what the section had written so far.
LEMMA SafeDies ==
    ASSUME IndInv, NEW p \in Procs, NEW T, Dies(p, T),
           StackSound', ChainsSound', Range(free_stack') \subseteq Range(free_stack),
           \A page \in Pages : /\ page_owners[page] = Empty
                               /\ page \notin Range(free_stack) \union InFlight(p)
                               => page_owners'[page] = Empty
    PROVE  NoPageTwice' /\ RebuildSafe'
  <1>1. pc[p] # Dead /\ server' = server /\ pc' = [pc EXCEPT ![p] = Dead]
    BY DEF Dies
  <1>2. pc'[p] = Dead /\ \A r \in Procs \ {p} : pc'[r] = pc[r]
    BY <1>1 DEF IndInv, TypeOK
  <1>3. QED  BY <1>1, <1>2, SafeFrame

\* A kill outside the sections.
LEMMA SafeKill ==
    ASSUME IndInv, NEW p \in Procs, Kill(p)
    PROVE  NoPageTwice' /\ RebuildSafe'
  <1>1. Dies(p, {}) /\ UNCHANGED <<free_stack, page_owners, live, chain>>
    BY DEF Kill, table
  <1>2. StackSound' /\ ChainsSound'
    BY <1>1 DEF IndInv, NoPageTwice, StackSound, ChainsSound
  <1>3. QED  BY <1>1, <1>2, SafeDies

\* With the whole cohort dead, nothing is carried but what the server holds.
LEMMA DeadCohort ==
    ASSUME IndInv, server.at # "serving"
    PROVE  \A p \in Procs : pc[p] = Dead /\ InFlight(p) = {}
  BY DEF IndInv, RebuildSafe, InFlight

\* The server lists the live ids.
LEMMA SafeCollectLive ==
    ASSUME IndInv, CollectLive
    PROVE  NoPageTwice' /\ RebuildSafe'
  <1> USE DEF counters, table
  <1>1. TypeOK /\ StackSound /\ ChainsSound /\ CarriedSound
    BY DEF IndInv, NoPageTwice
  <1>2. /\ \A p \in Procs : pc[p] = Dead
        /\ server' = [at |-> "releasing", todo |-> live]
        /\ UNCHANGED <<free_stack, page_owners, live, chain, pc>>
    BY DEF CollectLive
  <1>3. StackSound' /\ ChainsSound'
    BY <1>1, <1>2 DEF StackSound, ChainsSound
  <1>4. ServerHeld' = {} /\ \A p \in Procs : InFlight(p)' = {}
    BY <1>2 DEF ServerHeld, InFlight
  <1>5. CarriedSound'
    BY <1>2, <1>4 DEF CarriedSound
  <1>6. RebuildSafe'
    BY <1>2 DEF RebuildSafe
  <1>7. QED  BY <1>3, <1>5, <1>6 DEF NoPageTwice

\* The server detaches one sequence and holds its pages.
LEMMA SafeServerDetach ==
    ASSUME IndInv, NEW s \in SequenceIds, ServerDetach(s)
    PROVE  NoPageTwice' /\ RebuildSafe'
  <1>1. TypeOK /\ StackSound /\ ChainsSound /\ CarriedSound
    BY DEF IndInv, NoPageTwice
  <1>2. /\ server.at = "releasing"
        /\ server' = [at |-> "pushing", todo |-> server.todo \ {s}, pages |-> chain[s]]
        /\ UNCHANGED <<free_stack, pc>> /\ DetachSequence(s)
    BY DEF ServerDetach
  <1>3. /\ ChainsSound' /\ live' = live \ {s}
        /\ chain[s] \in Seq(Pages) /\ IsInjective(chain[s])
        /\ \A page \in Range(chain[s]) : page_owners[page] # Empty
        /\ page_owners' = SetOwner(Range(chain[s]), Empty)
    BY <1>1, <1>2, SafeDetach
  <1>4. \A p \in Procs : pc[p] = Dead /\ InFlight(p) = {} /\ InFlight(p)' = {}
    BY <1>2, DeadCohort DEF InFlight
  <1>5. \A page \in Pages : page_owners'[page] =
                IF page \in Range(chain[s]) THEN Empty ELSE page_owners[page]
    BY <1>3 DEF SetOwner
  <1>6. StackSound'
    BY <1>1, <1>2, <1>5, RangeTyped DEF StackSound, TypeOK
  <1>7. ServerHeld' = Range(chain[s])
    BY <1>2 DEF ServerHeld
  <1>8. CarriedSound'
    <2>1. \A page \in Range(chain[s]) : page_owners'[page] = Empty /\ page \notin Range(free_stack)
      BY <1>1, <1>3, <1>5, RangeTyped DEF StackSound
    <2>2. QED  BY <2>1, <1>2, <1>3, <1>4, <1>7 DEF CarriedSound
  <1>9. RebuildSafe'
    BY <1>2, <1>3, <1>4 DEF RebuildSafe, IndInv
  <1>10. QED  BY <1>3, <1>6, <1>8, <1>9 DEF NoPageTwice

\* The server pushes the pages it holds.
LEMMA SafeServerPush ==
    ASSUME IndInv, ServerPush
    PROVE  NoPageTwice' /\ RebuildSafe'
  <1> DEFINE q == server.pages
  <1> USE DEF counters, table
  <1>1. TypeOK /\ StackSound /\ ChainsSound /\ CarriedSound
    BY DEF IndInv, NoPageTwice
  <1>2. /\ server.at = "pushing" /\ free_stack' = free_stack \o q
        /\ server' = [at |-> "releasing", todo |-> server.todo]
        /\ UNCHANGED <<page_owners, live, chain, pc>>
    BY DEF ServerPush
  <1>3. q \in Seq(Pages) /\ IsInjective(q)
    <2>1. q \in Seq(Pages)
      BY <1>1, <1>2, ServerPushing
    <2>2. IsInjective(q)
      BY <1>1, <1>2 DEF CarriedSound
    <2>3. QED  BY <2>1, <2>2
  <1>4. \A page \in Range(q) : page_owners[page] = Empty /\ page \notin Range(free_stack)
    BY <1>1, <1>2 DEF CarriedSound, ServerHeld
  <1>5. \A p \in Procs : pc[p] = Dead /\ InFlight(p)' = {}
    BY <1>2, DeadCohort DEF InFlight
  <1> HIDE DEF q
  <1>6. Range(free_stack') = Range(free_stack) \union Range(q) /\ IsInjective(free_stack')
    <2>1. free_stack \in Seq(Pages) /\ IsInjective(free_stack)
      BY <1>1 DEF TypeOK, StackSound
    <2>2. Range(free_stack) \intersect Range(q) = {}
      BY <1>4
    <2>3. Range(free_stack \o q) = Range(free_stack) \union Range(q)
      BY <1>3, <2>1, RangeConcat, SMT
    <2>4. IsInjective(free_stack \o q)
      BY <1>3, <2>1, <2>2, InjectiveConcat
    <2>5. QED  BY <1>2, <2>3, <2>4
  <1>7. StackSound'
    BY <1>1, <1>2, <1>4, <1>6 DEF StackSound
  <1>8. ChainsSound'
    BY <1>1, <1>2 DEF ChainsSound
  <1>9. CarriedSound'
    BY <1>2, <1>5 DEF CarriedSound, ServerHeld
  <1>10. RebuildSafe'
    BY <1>2, <1>5 DEF RebuildSafe, IndInv
  <1>11. QED  BY <1>7, <1>8, <1>9, <1>10 DEF NoPageTwice

\* The rebuilt stack lists every page that is not resident, each once.
LEMMA RebuiltStack ==
    ASSUME RebuildFreeState
    PROVE  /\ IsInjective(free_stack')
           /\ Range(free_stack') = {page \in Pages : page_owners[page] # PrefixResident}
  <1> DEFINE free == {page \in Pages : page_owners[page] # PrefixResident}
             n == Cardinality(free)
  <1>1. PICK f \in Ascending(free) : free_stack' = [i \in DOMAIN f |-> f[n + 1 - i]]
    BY DEF RebuildFreeState, RebuildFrom
  <1>2. free \in SUBSET Pages /\ free \in SUBSET Int
    BY SMT DEF Pages
  <1> HIDE DEF free
  <1>3. n \in Nat
    BY <1>2, PageSets
  <1>4. f \in [1 .. n -> free] /\ IsInjective(f) /\ Range(f) = free
    BY <1>1, <1>2, <1>3, AscendingList
  <1> HIDE DEF n
  <1>5. /\ DOMAIN free_stack' = 1 .. n /\ DOMAIN f = 1 .. n
        /\ \A i \in 1 .. n : n + 1 - i \in 1 .. n /\ free_stack'[i] = f[n + 1 - i]
    BY <1>1, <1>3, <1>4, SMT
  <1>6. IsInjective(free_stack')
    <2> SUFFICES ASSUME NEW i \in 1 .. n, NEW j \in 1 .. n, free_stack'[i] = free_stack'[j]
                 PROVE  i = j
      BY <1>5 DEF IsInjective
    <2>1. n + 1 - i = n + 1 - j
      BY <1>4, <1>5 DEF IsInjective
    <2>2. QED  BY <2>1, <1>3, SMT
  <1>7. ASSUME NEW x \in Range(free_stack')  PROVE x \in free
    <2>1. PICK i \in 1 .. n : x = free_stack'[i]
      BY <1>5 DEF Range
    <2>2. QED  BY <2>1, <1>4, <1>5
  <1>8. ASSUME NEW x \in free  PROVE x \in Range(free_stack')
    <2>1. PICK i \in 1 .. n : x = f[i]
      BY <1>4, <1>5 DEF Range
    <2>2. n + 1 - i \in 1 .. n /\ n + 1 - (n + 1 - i) = i
      BY <1>3, SMT
    <2>3. n + 1 - i \in DOMAIN free_stack' /\ free_stack'[n + 1 - i] = x
      BY <2>1, <2>2, <1>5
    <2>4. QED  BY <2>3 DEF Range
  <1>9. QED  BY <1>6, <1>7, <1>8 DEF free

\* RebuildFreeStateLocked leaves every page free or resident.
LEMMA SafeRebuild ==
    ASSUME IndInv, RebuildFreeState
    PROVE  NoPageTwice' /\ RebuildSafe'
  <1> DEFINE free == {page \in Pages : page_owners[page] # PrefixResident}
  <1>1. TypeOK /\ ChainsSound
    BY DEF IndInv, NoPageTwice
  <1>2. /\ server.at = "releasing" /\ live = {} /\ page_owners' = SetOwner(free, Empty)
        /\ chain' = [s \in SequenceIds |-> << >>]
        /\ server' = [at |-> "rebuilt"] /\ UNCHANGED <<live, pc>>
    BY DEF RebuildFreeState, RebuildFrom
  <1>3. IsInjective(free_stack') /\ Range(free_stack') = free
    BY RebuiltStack
  <1>4. \A page \in Pages : page_owners'[page] = IF page \in free THEN Empty ELSE PrefixResident
    BY <1>2 DEF SetOwner
  <1> HIDE DEF free
  <1>5. \A p \in Procs : pc[p] = Dead /\ InFlight(p)' = {}
    BY <1>2, DeadCohort DEF InFlight
  <1>6. StackSound'
    BY <1>3, <1>4 DEF StackSound, free
  <1>7. ChainsSound'
    <2>1. \A s \in SequenceIds : chain'[s] = << >> /\ Range(chain'[s]) = {} /\ IsInjective(chain'[s])
      BY <1>2, SMT DEF Range, IsInjective
    <2>2. \A s \in SequenceIds : {page \in Pages : page_owners'[page] = s} = {}
      BY <1>4, ReservedIdsAssumption
    <2>3. QED  BY <2>1, <2>2 DEF ChainsSound
  <1>8. CarriedSound'
    BY <1>2, <1>5 DEF CarriedSound, ServerHeld
  <1>9. RebuildSafe'
    BY <1>2, <1>5 DEF RebuildSafe
  <1>10. QED  BY <1>6, <1>7, <1>8, <1>9 DEF NoPageTwice

\* The next cohort starts with nothing carried.
LEMMA SafeRespawn ==
    ASSUME IndInv, Respawn
    PROVE  NoPageTwice' /\ RebuildSafe'
  <1> USE DEF counters, table
  <1>1. TypeOK /\ StackSound /\ ChainsSound /\ CarriedSound
    BY DEF IndInv, NoPageTwice
  <1>2. /\ pc' = [p \in Procs |-> Idle] /\ server' = [at |-> "serving"]
        /\ UNCHANGED <<free_stack, page_owners, live, chain>>
    BY DEF Respawn
  <1>3. ServerHeld' = {} /\ \A p \in Procs : pc'[p] = Idle /\ InFlight(p)' = {}
    BY <1>2 DEF ServerHeld, InFlight
  <1>4. StackSound' /\ ChainsSound'
    BY <1>1, <1>2 DEF StackSound, ChainsSound
  <1>5. CarriedSound'
    BY <1>2, <1>3 DEF CarriedSound
  <1>6. RebuildSafe'
    BY <1>2 DEF RebuildSafe
  <1>7. QED  BY <1>4, <1>5, <1>6 DEF NoPageTwice

\* What a wave does, page by page: the popped pages are split over the ids, a
\* page of share i goes to ids[i], and nothing else changes owner.
LEMMA WaveShares ==
    ASSUME IndInv, NEW ids \in Waves, NEW total \in 1 .. NumPages, total <= Top,
           NEW cut \in Cuts(Len(ids), total), NEW upto, IsUpto(upto, cut, Len(ids)),
           NEW share, AreShares(share, PopTop(total), cut, upto, Len(ids))
    PROVE  /\ DOMAIN ids = 1 .. Len(ids) /\ Range(ids) \subseteq SequenceIds /\ IsInjective(ids)
           /\ Parcels(share, Len(ids), PopTop(total), Pages)
           /\ (\A i \in 1 .. Len(ids) : upto[i] = cut[i]) =>
                 Range(PopTop(total)) \subseteq UNION {Range(share[i]) : i \in 1 .. Len(ids)}
           /\ IsInjective(BelowTop(total))
           /\ Range(BelowTop(total)) \intersect Range(PopTop(total)) = {}
           /\ Range(BelowTop(total)) \union Range(PopTop(total)) = Range(free_stack)
  <1>1. TypeOK /\ StackSound
    BY DEF IndInv, NoPageTwice
  <1>2. total \in 0 .. Top /\ total \in Nat /\ free_stack \in Seq(Pages) /\ IsInjective(free_stack)
    <2>1. free_stack \in Seq(Pages) /\ IsInjective(free_stack)
      BY <1>1 DEF TypeOK, StackSound
    <2>2. total \in 0 .. Top /\ total \in Nat
      BY ONLY <2>1, total <= Top, NumPagesAssumption, total \in 1 .. NumPages, SMT DEF Top
    <2>3. QED  BY <2>1, <2>2
  <1>3. /\ IsInjective(BelowTop(total)) /\ IsInjective(PopTop(total))
        /\ Range(BelowTop(total)) \intersect Range(PopTop(total)) = {}
        /\ Range(BelowTop(total)) \union Range(PopTop(total)) = Range(free_stack)
    <2> DEFINE a == BelowTop(total)
               b == PopTop(total)
    <2>1. a = SubSeq(free_stack, 1, Top - total) /\ b = SubSeq(free_stack, (Top - total) + 1, Len(free_stack))
      BY DEF BelowTop, PopTop, Top
    <2>2. Top - total \in 0 .. Len(free_stack)
      BY <1>2, SMT DEF Top
    <2> HIDE DEF a, b
    <2>3. /\ IsInjective(a) /\ IsInjective(b)
          /\ Range(a) \intersect Range(b) = {}
          /\ Range(a) \union Range(b) = Range(free_stack)
      BY <1>2, <2>1, <2>2, SplitList
    <2>4. QED  BY <2>3 DEF a, b
  <1>4. /\ Len(ids) \in Nat /\ DOMAIN ids = 1 .. Len(ids) /\ Range(ids) \subseteq SequenceIds
        /\ IsInjective(ids) /\ IsCut(cut, Len(ids), total)
    BY <1>2, WaveForm
  <1>5. PopTop(total) \in Seq(Pages) /\ Len(PopTop(total)) = total
    BY <1>1, <1>2, PopTyped
  <1>6. IsCut(cut, Len(ids), Len(PopTop(total)))
    BY <1>4, <1>5
  <1> DEFINE m == Len(ids)
             popped == PopTop(total)
  <1>7. /\ m \in Nat /\ popped \in Seq(Pages) /\ IsInjective(popped) /\ IsCut(cut, m, Len(popped))
        /\ IsUpto(upto, cut, m) /\ AreShares(share, popped, cut, upto, m)
    BY <1>3, <1>4, <1>5, <1>6
  <1> HIDE DEF m, popped
  <1>8. Parcels(share, m, popped, Pages) /\ AllParcelled(share, m, popped, cut, upto)
    BY ONLY <1>7, CutList, ZenonT(60)
  <1>9. QED  BY ONLY <1>3, <1>4, <1>8, ZenonT(60) DEF m, popped, AllParcelled

\* A wave, whole or cut short: its pages come off the stack, each ends in at
\* most one chain, and, if the wave is whole, in one.
LEMMA WaveMoves ==
    ASSUME IndInv, NEW ids \in Waves, NEW total \in 1 .. NumPages, total <= Top,
           NEW cut \in Cuts(Len(ids), total), NEW upto, NEW entries,
           IsWave(ids, total, cut, upto, entries)
    PROVE  /\ StackSound' /\ ChainsSound'
           /\ Range(free_stack') \subseteq Range(free_stack)
           /\ \A page \in Pages :
                 \/ page_owners'[page] = page_owners[page]
                 \/ /\ page \in Range(free_stack) \ Range(free_stack')
                    /\ page_owners'[page] \in SequenceIds
           /\ (\A i \in 1 .. Len(ids) : upto[i] = cut[i]) =>
                 \A page \in Range(free_stack) \ Range(free_stack') : page_owners'[page] \in SequenceIds
  <1> DEFINE share == [i \in 1 .. Len(ids) |-> SubSeq(PopTop(total), cut[i - 1] + 1, upto[i])]
             Index(s) == CHOOSE i \in DOMAIN ids : ids[i] = s
             Has(page, i) == page \in Range(share[i])
             popped == PopTop(total)
             below == BelowTop(total)
             whole == \A i \in 1 .. Len(ids) : upto[i] = cut[i]
  <1>1. TypeOK /\ StackSound /\ ChainsSound
    BY DEF IndInv, NoPageTwice
  <1>2. /\ free_stack' = below /\ live' = live \union entries
        /\ chain' = [s \in SequenceIds |->
                        IF s \in Range(ids) THEN chain[s] \o share[Index(s)] ELSE chain[s]]
        /\ page_owners' = [page \in Pages |->
                        IF \E i \in DOMAIN ids : Has(page, i)
                        THEN ids[CHOOSE i \in DOMAIN ids : Has(page, i)]
                        ELSE page_owners[page]]
    BY DEF IsWave, AttachWave
  <1>3. /\ Range(ids) \subseteq SequenceIds /\ IsInjective(ids) /\ DOMAIN ids = 1 .. Len(ids)
        /\ \A i \in DOMAIN ids : share[i] \in Seq(Pages) /\ IsInjective(share[i])
        /\ \A i, j \in DOMAIN ids : i # j => Range(share[i]) \intersect Range(share[j]) = {}
        /\ UNION {Range(share[i]) : i \in DOMAIN ids} \subseteq Range(popped)
        /\ whole => Range(popped) \subseteq UNION {Range(share[i]) : i \in DOMAIN ids}
        /\ IsInjective(below)
        /\ Range(below) \intersect Range(popped) = {}
        /\ Range(below) \union Range(popped) = Range(free_stack)
    <2>1. AreShares(share, PopTop(total), cut, upto, Len(ids)) /\ IsUpto(upto, cut, Len(ids))
      BY DEF AreShares, IsWave
    <2> HIDE DEF share
    <2>2. /\ DOMAIN ids = 1 .. Len(ids) /\ Range(ids) \subseteq SequenceIds /\ IsInjective(ids)
          /\ Parcels(share, Len(ids), popped, Pages)
          /\ whole => Range(popped) \subseteq UNION {Range(share[i]) : i \in 1 .. Len(ids)}
          /\ IsInjective(below)
          /\ Range(below) \intersect Range(popped) = {}
          /\ Range(below) \union Range(popped) = Range(free_stack)
      BY <2>1, WaveShares
    <2> HIDE DEF popped, below, whole
    <2>3. QED  BY ONLY <2>2, ZenonT(60) DEF Parcels
  <1>4. \A s \in Range(ids) : Index(s) \in DOMAIN ids /\ ids[Index(s)] = s
    BY DEF Range
  <1>e. \A i \in DOMAIN ids : ids[i] \in entries \/ share[i] = << >>
    <2> SUFFICES ASSUME NEW i \in DOMAIN ids, ids[i] \notin entries PROVE share[i] = << >>
      OBVIOUS
    <2> DEFINE a == cut[i - 1]
    <2>1. i \in 1 .. Len(ids) /\ upto[i] = a
      BY <1>3 DEF IsWave
    <2>2. share[i] = SubSeq(popped, a + 1, a)
      BY <2>1
    <2>3. a \in Nat /\ popped \in Seq(Pages)
      <3>1. total \in Nat /\ total \in 0 .. Top
        BY NumPagesAssumption, <1>1, SMT DEF Top, TypeOK
      <3>2. a \in 0 .. total
        BY <2>1, <3>1, WaveForm
      <3>3. popped \in Seq(Pages)
        BY <1>1, <3>1, PopTyped
      <3> HIDE DEF a, popped
      <3>4. QED  BY ONLY <3>1, <3>2, <3>3, SMT
    <2> HIDE DEF a, popped, share
    <2>4. SubSeq(popped, a + 1, a) = << >>
      BY ONLY <2>3, SMT
    <2>5. QED  BY <2>2, <2>4
  <1>i. \A i \in DOMAIN ids : ids[i] \in SequenceIds
    BY <1>3 DEF Range
  <1> HIDE DEF share, popped, below, Index, whole
  <1>5. \A page \in Range(popped) : page \in Pages /\ page_owners[page] = Empty
    BY <1>1, <1>3, RangeTyped DEF StackSound, TypeOK
  <1>6. ASSUME NEW i \in DOMAIN ids, NEW page \in Range(share[i])
        PROVE  page \in Range(popped) /\ page \in Pages /\ page_owners'[page] = ids[i]
    <2>1. page \in Range(popped) /\ page \in Pages
      BY <1>3, <1>5
    <2>2. (CHOOSE j \in DOMAIN ids : Has(page, j)) = i
      BY <1>3
    <2>3. QED  BY <2>1, <2>2, <1>2
  <1>7. ASSUME NEW page \in Pages, ~ \E i \in DOMAIN ids : page \in Range(share[i])
        PROVE  page_owners'[page] = page_owners[page]
    BY <1>7, <1>2
  <1>8. \A page \in Pages :
           \/ page_owners'[page] = page_owners[page]
           \/ page \in Range(popped) /\ page_owners'[page] \in SequenceIds
    <2> SUFFICES ASSUME NEW page \in Pages, page_owners'[page] # page_owners[page]
                 PROVE  page \in Range(popped) /\ page_owners'[page] \in SequenceIds
      OBVIOUS
    <2>1. PICK i \in DOMAIN ids : page \in Range(share[i])
      BY <1>7
    <2>2. QED  BY ONLY <2>1, <1>i, <1>6, ZenonT(60)
  <1>9. StackSound'
    <2>1. Range(below) \subseteq Pages
      BY <1>1, <1>3, RangeTyped DEF TypeOK
    <2>2. \A page \in Range(below) : page_owners'[page] = page_owners[page]
      BY <2>1, <1>3, <1>8
    <2>3. QED  BY <2>2, <1>1, <1>2, <1>3 DEF StackSound
  <1>10. ASSUME NEW s \in SequenceIds, s \notin Range(ids)
         PROVE  /\ chain'[s] = chain[s] /\ IsInjective(chain'[s])
                /\ Range(chain'[s]) = {page \in Pages : page_owners'[page] = s}
    <2>1. chain'[s] = chain[s]
      BY <1>10, <1>2
    <2>2. ASSUME NEW page \in Pages  PROVE (page_owners'[page] = s) <=> (page_owners[page] = s)
      <3>1. CASE \E i \in DOMAIN ids : page \in Range(share[i])
        <4>1. PICK i \in DOMAIN ids : page \in Range(share[i])
          BY <3>1
        <4>2. page_owners'[page] = ids[i] /\ ids[i] # s /\ page \in Range(popped)
          BY <4>1, <1>6, <1>10 DEF Range
        <4>3. QED  BY <4>2, <1>5, ReservedIdsAssumption
      <3>2. CASE ~ \E i \in DOMAIN ids : page \in Range(share[i])
        BY <3>2, <1>7
      <3>3. QED  BY <3>1, <3>2
    <2>3. QED  BY <2>1, <2>2, <1>1 DEF ChainsSound
  <1>11. ASSUME NEW s \in SequenceIds, s \in Range(ids)
         PROVE  /\ IsInjective(chain'[s]) /\ (s \in entries \/ chain'[s] = chain[s])
                /\ Range(chain'[s]) = {page \in Pages : page_owners'[page] = s}
    <2> DEFINE k == Index(s)
    <2>1. k \in DOMAIN ids /\ ids[k] = s /\ chain'[s] = chain[s] \o share[k]
      BY <1>11, <1>2, <1>4
    <2> HIDE DEF k
    <2>2. chain[s] \in Seq(Pages) /\ IsInjective(chain[s])
          /\ Range(chain[s]) = {page \in Pages : page_owners[page] = s}
      BY <1>1 DEF TypeOK, ChainsSound
    <2>3. share[k] \in Seq(Pages) /\ IsInjective(share[k]) /\ Range(share[k]) \subseteq Range(popped)
      BY <2>1, <1>3
    <2>4. Range(chain[s]) \intersect Range(share[k]) = {}
      BY <2>2, <2>3, <1>5, ReservedIdsAssumption
    <2>5. IsInjective(chain'[s]) /\ Range(chain'[s]) = Range(chain[s]) \union Range(share[k])
      <3>1. Range(chain[s] \o share[k]) = Range(chain[s]) \union Range(share[k])
        BY <2>2, <2>3, RangeConcat, SMT
      <3>2. IsInjective(chain[s] \o share[k])
        BY <2>2, <2>3, <2>4, InjectiveConcat
      <3>3. QED  BY <2>1, <3>1, <3>2
    <2>6. ASSUME NEW page \in Pages
          PROVE  (page_owners'[page] = s) <=> (page_owners[page] = s \/ page \in Range(share[k]))
      <3>1. CASE \E i \in DOMAIN ids : page \in Range(share[i])
        <4>1. PICK i \in DOMAIN ids : page \in Range(share[i])
          BY <3>1
        <4>2. page_owners'[page] = ids[i] /\ page_owners[page] # s
          BY <4>1, <1>6, <1>5, ReservedIdsAssumption
        <4>3. CASE i = k
          BY <4>1, <4>2, <4>3, <2>1
        <4>4. CASE i # k
          <5>1. ids[i] # s
            BY <4>4, <2>1, <1>3 DEF IsInjective
          <5>2. page \notin Range(share[k])
            BY <4>1, <4>4, <2>1, <1>3
          <5>3. QED  BY <5>1, <5>2, <4>2
        <4>5. QED  BY <4>3, <4>4
      <3>2. CASE ~ \E i \in DOMAIN ids : page \in Range(share[i])
        BY <3>2, <1>7, <2>1
      <3>3. QED  BY <3>1, <3>2
    <2>7. Range(share[k]) \subseteq Pages
      BY <2>3, <1>5
    <2>8. s \in entries \/ chain'[s] = chain[s]
      <3>1. CASE share[k] = << >>
        BY <3>1, <2>1, <2>2, SMT
      <3>2. QED  BY <3>1, <2>1, <1>e
    <2>9. QED  BY <2>2, <2>5, <2>6, <2>7, <2>8
  <1>12. ChainsSound'
    <2>1. ASSUME NEW s \in SequenceIds \ live'  PROVE chain'[s] = << >>
      <3>1. s \notin live /\ s \notin entries
        BY <1>2
      <3>2. chain'[s] = chain[s]
        BY <3>1, <1>10, <1>11
      <3>3. QED  BY <3>1, <3>2, <1>1 DEF ChainsSound
    <2>2. QED  BY <1>10, <1>11, <2>1 DEF ChainsSound
  <1>13. Range(free_stack') \subseteq Range(free_stack)
         /\ Range(popped) = Range(free_stack) \ Range(free_stack')
    BY <1>2, <1>3
  <1>14. ASSUME whole, NEW page \in Range(popped)  PROVE page_owners'[page] \in SequenceIds
    <2>1. Range(popped) \subseteq UNION {Range(share[i]) : i \in DOMAIN ids}
      BY ONLY <1>3, <1>14, ZenonT(60)
    <2>2. PICK i \in DOMAIN ids : page \in Range(share[i])
      BY ONLY <2>1, page \in Range(popped), ZenonT(60)
    <2>3. QED  BY ONLY <2>2, <1>i, <1>6, ZenonT(60)
  <1>15. QED  BY <1>8, <1>9, <1>12, <1>13, <1>14 DEF whole

\* AcquirePagesForSequences: a page of the wave ends in one chain.
LEMMA SafeWave ==
    ASSUME IndInv, NEW p \in Procs, NEW ids \in Waves, NEW total \in 1 .. NumPages,
           NEW cut \in Cuts(Len(ids), total), AcquirePagesForSequences(p, ids, total, cut)
    PROVE  NoPageTwice' /\ RebuildSafe'
  <1>1. pc[p] = Idle /\ pc' = pc /\ server' = server /\ total <= Top
    BY DEF AcquirePagesForSequences
  <1>2. PICK upto : IsWave(ids, total, cut, upto, Range(ids))
    BY WholeWave
  <1>3. /\ StackSound' /\ ChainsSound' /\ Range(free_stack') \subseteq Range(free_stack)
        /\ \A page \in Pages \ Range(free_stack) : page_owners'[page] = page_owners[page]
    BY <1>1, <1>2, WaveMoves
  <1>4. QED  BY <1>1, <1>3, SafeFrame, NotIdle

-----------------------------------------------------------------------------
(* Kills inside a critical section                                         *)

\* Whoever dies inside a section leaves a torn sequence behind.
LEMMA KillTears ==
    ASSUME NEW p \in Procs, KillInside(p)
    PROVE  \E T : T # {} /\ Dies(p, T)
  <1>1. ASSUME NEW n, NEW c, KillInAttach(p, n, c)  PROVE \E T : T # {} /\ Dies(p, T)
    <2>1. {pc[p].seq} # {} /\ Dies(p, {pc[p].seq})
      BY <1>1 DEF KillInAttach
    <2>2. QED  BY <2>1
  <1>2. ASSUME NEW s, NEW k, KillInRelease(p, s, k)  PROVE \E T : T # {} /\ Dies(p, T)
    <2>1. {s} # {} /\ Dies(p, {s})
      BY <1>2 DEF KillInRelease
    <2>2. QED  BY <2>1
  <1>3. ASSUME NEW s, NEW R, NEW half, KillInRetain(p, s, R, half)  PROVE \E T : T # {} /\ Dies(p, T)
    <2>1. {s} # {} /\ Dies(p, {s})
      BY <1>3 DEF KillInRetain
    <2>2. QED  BY <2>1
  <1>4. ASSUME NEW ids, NEW total, NEW cut, NEW last \in DOMAIN ids,
               (\E end, done : KillInWave(p, ids, total, cut, last, end, done))
               \/ \E first, counted : KillInRollBack(p, ids, total, cut, last, first, counted)
        PROVE  \E T : T # {} /\ Dies(p, T)
    <2>1. Range(ids) # {} /\ Dies(p, Range(ids))
      BY <1>4 DEF KillInWave, KillInRollBack, Range
    <2>2. QED  BY <2>1
  <1>5. QED  BY <1>1, <1>2, <1>3, <1>4 DEF KillInside

\* Some part of a wave has been attached.
PartlyWaved ==
    \E ids \in Waves, total \in 1 .. NumPages : \E cut \in Cuts(Len(ids), total) : \E upto, entries :
       total <= Top /\ IsWave(ids, total, cut, upto, entries)

\* What a section cut short has done to the pages: part of an attach, of a
\* release or retain, or of a wave.
LEMMA KillLeaves ==
    ASSUME IndInv, NEW p \in Procs, KillInside(p)
    PROVE  \/ \E s \in SequenceIds, q \in Seq(Pages) : Given(p, s, q)
           \/ \E s \in SequenceIds : \E S, lost : Taken(s, S, lost)
           \/ PartlyWaved
  <1>0. TypeOK /\ ChainsSound /\ CarriedSound
    BY DEF IndInv, NoPageTwice
  <1>1. ASSUME NEW n \in 0 .. NumPages, NEW counted, KillInAttach(p, n, counted)
        PROVE  \E s \in SequenceIds, q \in Seq(Pages) : Given(p, s, q)
    <2> DEFINE s == pc[p].seq
               all == pc[p].pages
               q == SubSeq(all, 1, n)
    <2>1. s \in SequenceIds /\ all \in Seq(Pages) /\ pc[p] \notin {Idle, Dead} /\ n < Len(all)
      BY <1>0, <1>1, ControlStates DEF KillInAttach
    <2>2. InFlight(p) = Range(all) /\ IsInjective(all)
      BY <1>0, <2>1 DEF InFlight, CarriedSound
    <2>3. AttachPages(s, q) /\ free_stack' = free_stack
      BY <1>1 DEF KillInAttach
    <2> HIDE DEF all
    <2>4. n \in 0 .. Len(all)
      BY ONLY <2>1, n \in 0 .. NumPages, NumPagesAssumption, SMT
    <2>5. q \in Seq(Pages) /\ IsInjective(q) /\ Range(q) \subseteq Range(all)
      <3> DEFINE b == SubSeq(all, n + 1, Len(all))
      <3>1. /\ q \in Seq(Pages) /\ b \in Seq(Pages) /\ IsInjective(q) /\ IsInjective(b)
            /\ Range(q) \intersect Range(b) = {} /\ Range(q) \union Range(b) = Range(all)
        BY ONLY <2>1, <2>2, <2>4, SplitList, ZenonT(60)
      <3> HIDE DEF q, b
      <3>2. QED  BY ONLY <3>1, ZenonT(60)
    <2> HIDE DEF q, s
    <2>6. QED  BY <2>1, <2>2, <2>3, <2>5 DEF Given
  <1>2. ASSUME NEW s \in SequenceIds, NEW k \in 0 .. 1, KillInRelease(p, s, k)
        PROVE  \E S, lost : Taken(s, S, lost)
    <2> DEFINE a == SubSeq(chain[s], 1, k)
               b == SubSeq(chain[s], k + 1, Len(chain[s]))
               S == Range(b)
    <2>1. chain[s] \in Seq(Pages) /\ IsInjective(chain[s]) /\ k <= Len(chain[s])
      BY <1>0, <1>2 DEF KillInRelease, TypeOK, ChainsSound
    <2>2. k \in 0 .. Len(chain[s])
      BY ONLY <2>1, k \in 0 .. 1, SMT
    <2>3. /\ IsInjective(a) /\ Range(a) \intersect Range(b) = {}
          /\ Range(a) \union Range(b) = Range(chain[s])
      BY <2>1, <2>2, SplitList
    <2>4. k = 0 => a = << >>
      BY ONLY <2>1, SMT
    <2>5. /\ chain' = [chain EXCEPT ![s] = a] /\ page_owners' = SetOwner(S, Empty)
          /\ live' = IF k = 0 THEN live \ {s} ELSE live
          /\ s \in live /\ free_stack' = free_stack
      BY <1>2 DEF KillInRelease
    <2> HIDE DEF a, b
    <2>6. chain'[s] = a /\ \A u \in SequenceIds \ {s} : chain'[u] = chain[u]
      BY <1>0, <2>5 DEF TypeOK
    <2>7. page_owners' = [page \in Pages |-> IF page \in S THEN Empty
                                             ELSE IF page \in S THEN PrefixResident
                                             ELSE page_owners[page]]
      BY <2>5 DEF SetOwner
    <2>8. Range(chain'[s]) = Range(chain[s]) \ S /\ S \subseteq Range(chain[s])
      BY <2>3, <2>6
    <2>9. live' = live \/ (live' = live \ {s} /\ chain'[s] = << >>)
      BY <2>4, <2>5, <2>6
    <2> HIDE DEF S
    <2>10. Taken(s, S, S)
      BY <2>3, <2>5, <2>6, <2>7, <2>8, <2>9 DEF Taken
    <2>11. QED  BY <2>10
  <1>3. ASSUME NEW s \in SequenceIds, NEW R \in SUBSET Range(chain[s]), NEW half \in R,
               KillInRetain(p, s, R, half)
        PROVE  \E S, lost : Taken(s, S, lost)
    <2>1. /\ Unlink(s, R) /\ s \in live /\ live' = live /\ free_stack' = free_stack
          /\ page_owners' = [page \in Pages |-> IF page = half THEN Empty
                                                ELSE IF page \in R THEN PrefixResident
                                                ELSE page_owners[page]]
      BY <1>3 DEF KillInRetain
    <2>2. page_owners' = [page \in Pages |-> IF page \in {half} THEN Empty
                                             ELSE IF page \in R THEN PrefixResident
                                             ELSE page_owners[page]]
      BY <2>1
    <2>3. /\ \A u \in SequenceIds \ {s} : chain'[u] = chain[u]
          /\ IsInjective(chain'[s]) /\ Range(chain'[s]) = Range(chain[s]) \ R
      BY <1>0, <2>1, UnlinkList
    <2>4. Taken(s, R, {half})
      BY <2>1, <2>2, <2>3 DEF Taken
    <2>5. QED  BY <2>4
  <1>4. ASSUME NEW ids \in Waves, NEW total \in 1 .. NumPages, NEW cut \in Cuts(Len(ids), total),
               NEW last \in DOMAIN ids, NEW end \in cut[last - 1] .. cut[last], NEW done,
               KillInWave(p, ids, total, cut, last, end, done)
        PROVE  PartlyWaved
    <2>1. PICK upto : IsWave(ids, total, cut, upto, Part(ids, 1, last))
      BY <1>4, CutWave
    <2>2. total <= Top
      BY <1>4 DEF KillInWave
    <2>3. QED  BY <2>1, <2>2 DEF PartlyWaved
  <1>5. ASSUME NEW ids \in Waves, NEW total \in 1 .. NumPages, NEW cut \in Cuts(Len(ids), total),
               NEW full \in DOMAIN ids, NEW first \in 2 .. full, NEW counted,
               KillInRollBack(p, ids, total, cut, full, first, counted)
        PROVE  PartlyWaved
    <2>1. PICK upto : IsWave(ids, total, cut, upto, Part(ids, first, full - 1))
      BY <1>5, RolledBackWave
    <2>2. total <= Top
      BY <1>5 DEF KillInRollBack
    <2>3. QED  BY <2>1, <2>2 DEF PartlyWaved
  <1>6. QED  BY <1>1, <1>2, <1>3, <1>4, <1>5 DEF KillInside, Intact, IntactWaves

\* What such a kill leaves behind is sound: a page is in no two places even
\* though the section did not finish.
LEMMA SafeKillInside ==
    ASSUME IndInv, NEW p \in Procs, KillInside(p)
    PROVE  NoPageTwice' /\ RebuildSafe'
  <1>1. PICK T : Dies(p, T)
    BY KillTears
  <1>2. ASSUME NEW s \in SequenceIds, NEW q \in Seq(Pages), Given(p, s, q)
        PROVE  NoPageTwice' /\ RebuildSafe'
    <2>1. /\ StackSound' /\ ChainsSound'
          /\ \A page \in Pages : page_owners'[page] = IF page \in Range(q) THEN s ELSE page_owners[page]
      BY <1>2, GivenSound
    <2>2. free_stack' = free_stack /\ Range(q) \subseteq InFlight(p)
      BY <1>2 DEF Given
    <2>3. QED  BY <1>1, <2>1, <2>2, SafeDies
  <1>3. ASSUME NEW s \in SequenceIds, NEW S, NEW lost, Taken(s, S, lost)
        PROVE  NoPageTwice' /\ RebuildSafe'
    <2>1. /\ StackSound' /\ ChainsSound'
          /\ \A page \in S : page_owners[page] = s
          /\ \A page \in Pages : page_owners'[page] = IF page \in lost THEN Empty
                                                     ELSE IF page \in S THEN PrefixResident
                                                     ELSE page_owners[page]
      BY <1>3, TakenSound
    <2>2. \A page \in Pages : page_owners[page] = Empty => page_owners'[page] = Empty
      BY <2>1, ReservedIdsAssumption
    <2>3. free_stack' = free_stack
      BY <1>3 DEF Taken
    <2>4. QED  BY <1>1, <2>1, <2>2, <2>3, SafeDies
  <1>4. ASSUME PartlyWaved
        PROVE  NoPageTwice' /\ RebuildSafe'
    <2>1. /\ StackSound' /\ ChainsSound' /\ Range(free_stack') \subseteq Range(free_stack)
          /\ \A page \in Pages \ Range(free_stack) : page_owners'[page] = page_owners[page]
      BY <1>4, WaveMoves DEF PartlyWaved
    <2>2. QED  BY <1>1, <2>1, SafeDies
  <1>5. QED  BY <1>2, <1>3, <1>4, KillLeaves

\* The inductive invariant is preserved by every step.
LEMMA IndStep == IndInv /\ [Next]_vars => IndInv'
  <1> SUFFICES ASSUME IndInv, [Next]_vars PROVE IndInv'
    OBVIOUS
  <1>1. TypeOK'
    BY TypeStep DEF IndInv
  <1>2. CASE UNCHANGED vars
    <2>1. StackSound' /\ ChainsSound'
      BY <1>2 DEF IndInv, NoPageTwice, StackSound, ChainsSound, vars, table
    <2>2. CarriedSound'
      BY <1>2 DEF IndInv, NoPageTwice, CarriedSound, InFlight, ServerHeld, vars, table
    <2>3. RebuildSafe'
      BY <1>2 DEF IndInv, RebuildSafe, vars, table
    <2>4. QED  BY <1>1, <2>1, <2>2, <2>3 DEF IndInv, NoPageTwice
  <1>3. ASSUME NEW p \in Procs, Start(p) \/ Finish(p) \/ Kill(p) \/ KillInside(p)
        PROVE  NoPageTwice' /\ RebuildSafe'
    BY <1>3, SafeAcquirePop, SafeAcquireAttach, SafeAcquireTableFull, SafePush, SafeWave,
       SafeReleaseSequence, SafeReleasePrefixPages, SafeRetainPages,
       SafeReleaseResidentPages, SafeKill, SafeKillInside
    DEF Start, Finish, Resident, Intact, IntactWaves
  <1>4. ASSUME Reconcile
        PROVE  NoPageTwice' /\ RebuildSafe'
    BY <1>4, SafeCollectLive, SafeServerDetach, SafeServerPush, SafeRebuild, SafeRespawn
    DEF Reconcile
  <1>5. QED  BY <1>1, <1>2, <1>3, <1>4 DEF Next, IndInv

\* The inductive invariant holds of every behaviour.
LEMMA IndInvariant == Spec => []IndInv
  <1>1. Init => IndInv
    BY TypeInit, SafeInit DEF IndInv
  <1>2. QED  BY <1>1, IndStep, PTL DEF Spec

\* For any number of pages, sequences, slots and processes, no page is ever in
\* two places, whatever the interleaving of critical sections, kills and
\* reconciles (AcquirePages .. ReleaseResidentPages, ReleaseAllSequences).
THEOREM NoPageInTwoPlaces == Spec => []NoPageTwice
  BY IndInvariant, PTL DEF IndInv

\* The server releases exactly the live sequences of a dead cohort, so that
\* RebuildFreeStateLocked never meets a live one and never throws.
THEOREM RebuildNeverThrows == Spec => []RebuildSafe
  BY IndInvariant, PTL DEF IndInv

-----------------------------------------------------------------------------
(* The counters                                                            *)

\* live is a finite set; adding and removing entries moves its size.
LEMMA LiveSize ==
    ASSUME TypeOK, NEW S \in SUBSET SequenceIds
    PROVE  /\ Cardinality(live) \in Nat
           /\ Cardinality(live \union S) = Cardinality(live) + Cardinality(S \ live)
           /\ \A s \in SequenceIds \ live : Cardinality({s} \ live) = 1
           /\ \A s \in live : Cardinality({s} \ live) = 0
           /\ \A s \in live : Cardinality(live \ {s}) = Cardinality(live) - 1
  <1>1. IsFiniteSet(live) /\ IsFiniteSet(S \ live)
    BY FiniteIdsAssumption, FS_Subset DEF TypeOK
  <1>2. Cardinality(live) \in Nat /\ Cardinality(S \ live) \in Nat
    BY <1>1, FS_CardinalityType
  <1>3. Cardinality(live \union S) = Cardinality(live) + Cardinality(S \ live)
    <2>1. live \union S = live \union (S \ live) /\ live \intersect (S \ live) = {}
      OBVIOUS
    <2>2. Cardinality(live \union (S \ live)) =
          Cardinality(live) + Cardinality(S \ live) - Cardinality(live \intersect (S \ live))
      BY <1>1, FS_Union
    <2>3. Cardinality({}) = 0
      BY FS_EmptySet
    <2>4. /\ Cardinality(live \union S) = Cardinality(live \union (S \ live))
          /\ Cardinality(live \intersect (S \ live)) = 0
      BY ONLY <2>1, <2>3, ZenonT(60)
    <2>5. QED  BY ONLY <2>2, <2>4, <1>2, SMT
  <1>4. ASSUME NEW s \in SequenceIds \ live  PROVE Cardinality({s} \ live) = 1
    <2>1. {s} \ live = {s}
      OBVIOUS
    <2>2. QED  BY <2>1, FS_Singleton
  <1>5. ASSUME NEW s \in live  PROVE Cardinality({s} \ live) = 0
    <2>1. {s} \ live = {}
      OBVIOUS
    <2>2. QED  BY <2>1, FS_EmptySet
  <1>6. ASSUME NEW s \in live  PROVE Cardinality(live \ {s}) = Cardinality(live) - 1
    BY <1>1, FS_RemoveElement
  <1>7. QED  BY <1>2, <1>3, <1>4, <1>5, <1>6

\* The steps that change the table move the counter alike, but for a kill inside
\* a section, which leaves a torn sequence.
LEMMA CountersStep == TypeOK /\ CountersExact /\ [Next]_vars => CountersExact'
  <1> SUFFICES ASSUME TypeOK, CountersExact, [Next]_vars PROVE CountersExact'
    OBVIOUS
  <1> USE DEF counters, table
  <1>1. Cardinality(live) \in Nat
    BY LiveSize
  <1>2. ASSUME UNCHANGED <<live, active_sequences, torn>>  PROVE CountersExact'
    BY <1>2 DEF CountersExact
  <1>3. ASSUME NEW p \in Procs, AcquireAttach(p)  PROVE CountersExact'
    <2> DEFINE s == pc[p].seq
    <2>1. s \in SequenceIds
      BY <1>3, ControlStates DEF AcquireAttach
    <2>2. /\ live' = live \union {s} /\ torn' = torn
          /\ active_sequences' = active_sequences + (IF s \in live THEN 0 ELSE 1)
      BY <1>3 DEF AcquireAttach, AttachPages, New
    <2> HIDE DEF s
    <2>3. Cardinality(live') = Cardinality(live) + (IF s \in live THEN 0 ELSE 1)
      BY <2>1, <2>2, LiveSize
    <2>4. QED  BY <2>2, <2>3 DEF CountersExact
  <1>4. ASSUME NEW p \in Procs, NEW ids \in Waves, NEW total \in 1 .. NumPages,
               NEW cut \in Cuts(Len(ids), total), AcquirePagesForSequences(p, ids, total, cut)
        PROVE  CountersExact'
    <2>1. Range(ids) \in SUBSET SequenceIds
      <3>1. PICK m \in 1 .. MaxWave : ids \in [1 .. m -> SequenceIds]
        BY DEF Waves
      <3>2. QED  BY <3>1 DEF Range
    <2>2. /\ live' = live \union Range(ids) /\ torn' = torn
          /\ active_sequences' = active_sequences + Cardinality(Range(ids) \ live)
      BY <1>4 DEF AcquirePagesForSequences, AttachWave
    <2>3. QED  BY <2>1, <2>2, LiveSize DEF CountersExact
  <1>5. ASSUME NEW s \in SequenceIds, DetachSequence(s)  PROVE CountersExact'
    <2>1. /\ s \in live /\ live' = live \ {s}
          /\ active_sequences' = active_sequences - 1 /\ torn' = torn
      BY <1>5 DEF DetachSequence
    <2>2. QED  BY <2>1, LiveSize DEF CountersExact
  <1>6. CASE RebuildFreeState
    <2>1. live = {} /\ live' = live /\ active_sequences' = 0
      BY <1>6 DEF RebuildFreeState, RebuildFrom
    <2>2. Cardinality({}) = 0
      BY FS_EmptySet
    <2>3. QED  BY <2>1, <2>2 DEF CountersExact
  <1>7. ASSUME NEW p \in Procs, Start(p)  PROVE CountersExact'
    <2>1. ASSUME NEW s \in SequenceIds, NEW n \in 1 .. NumPages, AcquirePop(p, s, n)
          PROVE  CountersExact'
      BY <2>1, <1>2 DEF AcquirePop
    <2>2. ASSUME NEW s \in SequenceIds, ReleaseSequence(p, s)  PROVE CountersExact'
      BY <2>2, <1>5 DEF ReleaseSequence
    <2>3. ASSUME NEW s \in SequenceIds, NEW n \in 1 .. NumPages, ReleasePrefixPages(p, s, n)
          PROVE  CountersExact'
      BY <2>3, <1>2 DEF ReleasePrefixPages
    <2>4. ASSUME NEW s \in SequenceIds, NEW R, RetainPages(p, s, R)  PROVE CountersExact'
      BY <2>4, <1>2 DEF RetainPages
    <2>5. ASSUME NEW pages, ReleaseResidentPages(p, pages)  PROVE CountersExact'
      BY <2>5, <1>2 DEF ReleaseResidentPages
    <2>6. QED  BY <1>7, <1>4, <2>1, <2>2, <2>3, <2>4, <2>5 DEF Start, Intact, IntactWaves
  <1>8. ASSUME NEW p \in Procs, AcquireTableFull(p) \/ Push(p) \/ Kill(p)  PROVE CountersExact'
    BY <1>8, <1>2 DEF AcquireTableFull, Push, Kill, Dies
  <1>k. ASSUME NEW p \in Procs, KillInside(p)  PROVE CountersExact'
    <2>1. torn' # {}
      BY <1>k, KillTears DEF Dies
    <2>2. QED  BY <2>1 DEF CountersExact
  <1>9. CASE CollectLive \/ ServerPush \/ Respawn
    BY <1>9, <1>2 DEF CollectLive, ServerPush, Respawn
  <1>10. ASSUME NEW s \in SequenceIds, ServerDetach(s)  PROVE CountersExact'
    BY <1>10, <1>5 DEF ServerDetach
  <1>11. CASE UNCHANGED vars
    BY <1>11, <1>2 DEF vars
  <1>12. QED  BY <1>3, <1>6, <1>7, <1>8, <1>k, <1>9, <1>10, <1>11 DEF Next, Finish, Reconcile

\* active_sequences is the number of entries of the sequence table, unless a
\* process died inside a critical section since the last rebuild.  The rebuild
\* makes it exact again (AcquirePages .. ReleaseSequence, RebuildFreeStateLocked).
THEOREM CountersAlwaysExact == Spec => []CountersExact
  <1>1. Init => CountersExact
    BY FS_EmptySet DEF Init, CountersExact
  <1>2. QED  BY <1>1, CountersStep, TypeCorrect, PTL DEF Spec

-----------------------------------------------------------------------------
(* Where a step moves pages                                                *)

\* A page on the stack is free; a page with an owner is with its owner.
LEMMA PlaceOf ==
    ASSUME IndInv
    PROVE  /\ \A page \in Pages : page \in Range(free_stack) => Place[page] = Free
           /\ \A page \in Pages : page_owners[page] # Empty => Place[page] = page_owners[page]
           /\ \A page \in Pages : page_owners[page] = Empty /\ page \notin Range(free_stack)
                                    => Place[page] = Transit
           /\ Range(free_stack) \subseteq Pages
  BY RangeTyped DEF Place, IndInv, NoPageTwice, StackSound, TypeOK

\* A step that leaves stack and owners alone is a stuttering step of the ledger.
LEMMA PlaceKept ==
    ASSUME UNCHANGED <<free_stack, page_owners>>
    PROVE  Place' = Place
  BY DEF Place

\* A step that moves the pages S, and no other, is a move of the ledger.
LEMMA PlaceMoved ==
    ASSUME NEW S \in SUBSET Pages, NEW where,
           \A page \in Pages : Place'[page] = IF page \in S THEN where ELSE Place[page]
    PROVE  Ledger!Move(S, where)
  BY DEF Ledger!Move, Place

\* AcquirePages section 1: free pages come into transit.
LEMMA LedgerAcquirePop ==
    ASSUME IndInv, NEW p \in Procs, NEW s \in SequenceIds, NEW n \in 1 .. NumPages,
           AcquirePop(p, s, n)
    PROVE  Ledger!LedgerNext
  <1> DEFINE a == BelowTop(n)
             b == PopTop(n)
  <1>1. TypeOK /\ StackSound
    BY DEF IndInv, NoPageTwice
  <1>2. Top - n \in 0 .. Len(free_stack) /\ free_stack \in Seq(Pages)
    BY <1>1, SMT DEF AcquirePop, Top, TypeOK
  <1>3. Range(a) \intersect Range(b) = {} /\ Range(a) \union Range(b) = Range(free_stack)
    <2>1. a = SubSeq(free_stack, 1, Top - n) /\ b = SubSeq(free_stack, (Top - n) + 1, Len(free_stack))
      BY DEF BelowTop, PopTop, Top
    <2>2. IsInjective(free_stack)
      BY <1>1 DEF StackSound
    <2> HIDE DEF a, b
    <2>3. QED  BY <1>2, <2>1, <2>2, SplitList
  <1>4. free_stack' = a /\ page_owners' = page_owners
    BY DEF AcquirePop, table
  <1> HIDE DEF a, b
  <1>5. Range(b) \subseteq Pages /\ Range(b) \in SUBSET Ledger!At(Free)
    BY <1>3, PlaceOf DEF Ledger!At
  <1>6. \A page \in Pages : Place'[page] = IF page \in Range(b) THEN Transit ELSE Place[page]
    BY <1>1, <1>3, <1>4 DEF Place, StackSound
  <1>7. Ledger!Move(Range(b), Transit)
    BY <1>5, <1>6, PlaceMoved
  <1>8. QED  BY <1>5, <1>7 DEF Ledger!Take, Ledger!LedgerNext

\* AcquirePages section 2, whole or cut short: pages in transit are bound to the
\* sequence.
LEMMA LedgerGiven ==
    ASSUME IndInv, NEW p \in Procs, NEW s \in SequenceIds, NEW q \in Seq(Pages), Given(p, s, q)
    PROVE  Ledger!LedgerNext
  <1>1. /\ Range(q) \subseteq Pages
        /\ \A page \in Range(q) : page_owners[page] = Empty /\ page \notin Range(free_stack)
        /\ \A page \in Pages : page_owners'[page] = IF page \in Range(q) THEN s ELSE page_owners[page]
    BY GivenSound
  <1>2. free_stack' = free_stack
    BY DEF Given
  <1>3. Range(q) \in SUBSET Ledger!At(Transit)
    BY <1>1, PlaceOf DEF Ledger!At
  <1>4. \A page \in Pages : Place'[page] = IF page \in Range(q) THEN s ELSE Place[page]
    BY <1>1, <1>2, ReservedIdsAssumption DEF Place
  <1>5. Ledger!Move(Range(q), s)
    BY <1>1, <1>4, PlaceMoved
  <1>6. QED  BY <1>3, <1>5 DEF Ledger!Bind, Ledger!LedgerNext

\* Pushing pages nobody owns puts them back.
LEMMA LedgerPush ==
    ASSUME IndInv, NEW q \in Seq(Pages), free_stack' = free_stack \o q, page_owners' = page_owners,
           \A page \in Range(q) : page_owners[page] = Empty /\ page \notin Range(free_stack)
    PROVE  Ledger!LedgerNext
  <1>1. Range(q) \subseteq Pages /\ free_stack \in Seq(Pages)
    BY RangeTyped DEF IndInv, TypeOK
  <1>2. Range(free_stack') = Range(free_stack) \union Range(q)
    BY <1>1, RangeConcat, SMT
  <1>3. Range(q) \in SUBSET Ledger!At(Transit)
    BY <1>1, PlaceOf DEF Ledger!At
  <1>4. \A page \in Pages : Place'[page] = IF page \in Range(q) THEN Free ELSE Place[page]
    BY <1>2 DEF Place
  <1>5. Ledger!Move(Range(q), Free)
    BY <1>1, <1>4, PlaceMoved
  <1>6. QED  BY <1>3, <1>5 DEF Ledger!PutBack, Ledger!LedgerNext

\* Taking pages out of a sequence or of the prefix cache: they are in transit.
LEMMA LedgerTakeOut ==
    ASSUME IndInv, NEW owner \in SequenceIds \union {PrefixResident},
           NEW S \in SUBSET Pages, \A page \in S : page_owners[page] = owner,
           page_owners' = SetOwner(S, Empty), free_stack' = free_stack
    PROVE  Ledger!LedgerNext
  <1>1. \A page \in S : page \notin Range(free_stack) /\ Place[page] = owner
    BY PlaceOf, ReservedIdsAssumption, SMT DEF IndInv, NoPageTwice, StackSound
  <1>2. S \in SUBSET Ledger!At(owner)
    BY <1>1 DEF Ledger!At
  <1>3. \A page \in Pages : Place'[page] = IF page \in S THEN Transit ELSE Place[page]
    BY <1>1 DEF Place, SetOwner
  <1>4. Ledger!Move(S, Transit)
    BY <1>3, PlaceMoved
  <1>5. CASE owner \in SequenceIds
    BY <1>2, <1>4, <1>5 DEF Ledger!Detach, Ledger!LedgerNext
  <1>6. CASE owner = PrefixResident
    BY <1>2, <1>4, <1>6 DEF Ledger!Drop, Ledger!LedgerNext
  <1>7. QED  BY <1>5, <1>6

\* RetainPages, or a release or retain cut short: the prefix cache takes pages
\* from one sequence, and those that are lost are in transit.
LEMMA LedgerTaken ==
    ASSUME IndInv, NEW s \in SequenceIds, NEW S, NEW lost, Taken(s, S, lost)
    PROVE  Ledger!LedgerNext
  <1>1. /\ S \subseteq Pages /\ lost \subseteq S
        /\ \A page \in S : page_owners[page] = s /\ page \notin Range(free_stack)
        /\ \A page \in Pages : page_owners'[page] = IF page \in lost THEN Empty
                                                   ELSE IF page \in S THEN PrefixResident
                                                   ELSE page_owners[page]
    BY TakenSound
  <1>2. free_stack' = free_stack
    BY DEF Taken
  <1>3. \A page \in S : Place[page] = s
    BY <1>1, PlaceOf, ReservedIdsAssumption
  <1>4. S \in SUBSET Ledger!At(s) /\ lost \in SUBSET S
    BY <1>1, <1>3 DEF Ledger!At
  <1>5. \A page \in Pages : Place'[page] = IF page \in lost THEN Transit
                                           ELSE IF page \in S THEN PrefixResident
                                           ELSE Place[page]
    BY <1>1, <1>2, ReservedIdsAssumption DEF Place
  <1>6. Place' = [page \in Pages |-> IF page \in lost THEN Transit
                                     ELSE IF page \in S THEN PrefixResident
                                     ELSE Place[page]]
    BY <1>5 DEF Place
  <1>7. QED  BY <1>4, <1>6 DEF Ledger!Retain, Ledger!LedgerNext

\* RebuildFreeStateLocked: all but the resident pages become free.
LEMMA LedgerRebuild ==
    ASSUME IndInv, RebuildFreeState
    PROVE  Ledger!LedgerNext
  <1> DEFINE free == {page \in Pages : page_owners[page] # PrefixResident}
  <1>1. page_owners' = SetOwner(free, Empty) /\ live = {}
    BY DEF RebuildFreeState, RebuildFrom
  <1>2. Range(free_stack') = free
    BY RebuiltStack
  <1>3. \A page \in Pages : page_owners[page] \notin SequenceIds
    <2>1. \A s \in SequenceIds : chain[s] = << >> /\ Range(chain[s]) = {page \in Pages : page_owners[page] = s}
      BY <1>1 DEF IndInv, NoPageTwice, ChainsSound
    <2>2. \A s \in SequenceIds : Range(chain[s]) = {}
      BY <2>1, SMT DEF Range
    <2>3. QED  BY <2>1, <2>2
  <1>4. \A page \in Pages : Place[page] \notin SequenceIds
    BY <1>3, PlaceOf, LedgerPlacesAssumption
  <1>5. ASSUME NEW page \in Pages  PROVE (Place[page] = PrefixResident) <=> (page_owners[page] = PrefixResident)
    BY PlaceOf, LedgerPlacesAssumption, ReservedIdsAssumption DEF IndInv, NoPageTwice, StackSound
  <1>6. Pages \ Ledger!At(PrefixResident) = free
    BY <1>5 DEF Ledger!At
  <1>7. \A page \in Pages : Place'[page] = IF page \in free THEN Free ELSE Place[page]
    BY <1>1, <1>2, PlaceOf, ReservedIdsAssumption DEF Place, SetOwner
  <1>8. Ledger!Move(free, Free)
    BY <1>7, PlaceMoved
  <1>9. QED  BY <1>4, <1>6, <1>8 DEF Ledger!Rebuild, Ledger!LedgerNext

\* AcquirePagesForSequences, whole or cut short: free pages are granted to the
\* sequences of a wave, or left in transit.
LEMMA LedgerWave ==
    ASSUME IndInv, PartlyWaved
    PROVE  Ledger!LedgerNext
  <1> DEFINE S == Range(free_stack) \ Range(free_stack')
             To(page) == IF page_owners'[page] = Empty THEN Transit ELSE page_owners'[page]
             to == [page \in S |-> To(page)]
  <1>1. /\ Range(free_stack') \subseteq Range(free_stack)
        /\ \A page \in Pages : \/ page_owners'[page] = page_owners[page]
                               \/ page \in S /\ page_owners'[page] \in SequenceIds
    BY WaveMoves DEF PartlyWaved
  <1>2. S \subseteq Pages /\ S \in SUBSET Ledger!At(Free)
    BY PlaceOf DEF Ledger!At
  <1>3. \A page \in Range(free_stack) : page_owners[page] = Empty
    BY DEF IndInv, NoPageTwice, StackSound
  <1>4. ASSUME NEW page \in S  PROVE To(page) \in SequenceIds \union {Transit}
    BY <1>1, <1>2, <1>3
  <1>5. ASSUME NEW page \in Pages  PROVE Place'[page] = IF page \in S THEN To(page) ELSE Place[page]
    <2>1. Place'[page] = IF page \in Range(free_stack') THEN Free ELSE To(page)
      BY DEF Place
    <2>2. Place[page] = IF page \in Range(free_stack) THEN Free
                        ELSE IF page_owners[page] = Empty THEN Transit
                        ELSE page_owners[page]
      BY DEF Place
    <2>3. QED  BY <1>1, <2>1, <2>2
  <1>6. to \in [S -> SequenceIds \union {Transit}]
    BY <1>4
  <1>7. Place' = [page \in Pages |-> IF page \in S THEN to[page] ELSE Place[page]]
    BY <1>2, <1>5 DEF Place
  <1> HIDE DEF to, S
  <1>8. QED  BY <1>2, <1>6, <1>7 DEF Ledger!Grant, Ledger!LedgerNext

\* Every step of the allocator is a step of the ledger or leaves it alone.
LEMMA LedgerStep == IndInv /\ [Next]_vars => [Ledger!LedgerNext]_Place
  <1> SUFFICES ASSUME IndInv, [Next]_vars, Place' # Place PROVE Ledger!LedgerNext
    OBVIOUS
  <1> USE DEF counters, table
  <1>0. TypeOK /\ ChainsSound /\ CarriedSound
    BY DEF IndInv, NoPageTwice
  <1>1. ~ UNCHANGED <<free_stack, page_owners>>
    BY PlaceKept
  <1>2. ASSUME NEW p \in Procs, Push(p)  PROVE Ledger!LedgerNext
    <2>1. /\ pc[p].pages \in Seq(Pages) /\ InFlight(p) = Range(pc[p].pages)
          /\ free_stack' = free_stack \o pc[p].pages /\ page_owners' = page_owners
      BY <1>0, <1>2, ControlStates DEF Push, InFlight
    <2>2. QED  BY <1>0, <2>1, LedgerPush DEF CarriedSound
  <1>3. ASSUME NEW s \in SequenceIds, DetachSequence(s), free_stack' = free_stack
        PROVE  Ledger!LedgerNext
    <2>1. /\ Range(chain[s]) \in SUBSET Pages /\ page_owners' = SetOwner(Range(chain[s]), Empty)
          /\ \A page \in Range(chain[s]) : page_owners[page] = s
      BY <1>0, <1>3 DEF ChainsSound, DetachSequence
    <2>2. QED  BY <1>3, <2>1, LedgerTakeOut
  <1>4. ASSUME NEW p \in Procs, NEW s \in SequenceIds, NEW n \in 1 .. NumPages,
               ReleasePrefixPages(p, s, n)
        PROVE  Ledger!LedgerNext
    <2> DEFINE S == Range(SubSeq(chain[s], 1, n))
    <2>1. page_owners' = SetOwner(S, Empty) /\ free_stack' = free_stack
      BY <1>4 DEF ReleasePrefixPages
    <2>2. chain[s] \in Seq(Pages) /\ n \in 0 .. Len(chain[s]) /\ IsInjective(chain[s])
      BY <1>0, <1>4, SMT DEF ReleasePrefixPages, TypeOK, ChainsSound
    <2>3. S \subseteq Range(chain[s])
      BY <2>2, SplitList, SMT
    <2> HIDE DEF S
    <2>4. S \in SUBSET Pages /\ \A page \in S : page_owners[page] = s
      BY <2>3, <1>0 DEF ChainsSound
    <2>5. QED  BY <2>1, <2>4, LedgerTakeOut
  <1>5. ASSUME NEW p \in Procs, NEW pages \in Listings(Resident), ReleaseResidentPages(p, pages)
        PROVE  Ledger!LedgerNext
    <2>1. PICK n \in 1 .. Cardinality(Resident) : pages \in [1 .. n -> Resident]
      BY DEF Listings
    <2>2. Range(pages) \in SUBSET Pages /\ \A page \in Range(pages) : page_owners[page] = PrefixResident
      BY <2>1 DEF Range, Resident
    <2>3. page_owners' = SetOwner(Range(pages), Empty) /\ free_stack' = free_stack
      BY <1>5 DEF ReleaseResidentPages
    <2>4. QED  BY <2>2, <2>3, LedgerTakeOut
  <1>6. CASE ServerPush
    <2>1. /\ server.pages \in Seq(Pages) /\ ServerHeld = Range(server.pages)
          /\ free_stack' = free_stack \o server.pages /\ page_owners' = page_owners
      BY <1>0, <1>6, SMT DEF ServerPush, TypeOK, ServerHeld
    <2>2. QED  BY <1>0, <2>1, LedgerPush DEF CarriedSound
  <1>7. ASSUME NEW p \in Procs, Start(p)  PROVE Ledger!LedgerNext
    <2>1. ASSUME NEW s \in SequenceIds, ReleaseSequence(p, s)  PROVE Ledger!LedgerNext
      BY <2>1, <1>3 DEF ReleaseSequence
    <2>2. ASSUME NEW ids \in Waves, NEW total \in 1 .. NumPages, NEW cut \in Cuts(Len(ids), total),
                 AcquirePagesForSequences(p, ids, total, cut)
          PROVE  Ledger!LedgerNext
      <3>1. total <= Top /\ \E upto : IsWave(ids, total, cut, upto, Range(ids))
        BY <2>2, WholeWave DEF AcquirePagesForSequences
      <3>2. QED  BY <3>1, LedgerWave DEF PartlyWaved
    <2>3. ASSUME NEW s \in SequenceIds, NEW R \in SUBSET Range(chain[s]), RetainPages(p, s, R)
          PROVE  Ledger!LedgerNext
      BY <2>3, RetainTakes, LedgerTaken
    <2>4. QED  BY <1>7, <2>1, <2>2, <2>3, <1>4, <1>5, LedgerAcquirePop
               DEF Start, Resident, Intact, IntactWaves
  <1>8. ASSUME NEW p \in Procs, Finish(p)  PROVE Ledger!LedgerNext
    <2>1. ~AcquireTableFull(p)
      BY <1>1 DEF AcquireTableFull
    <2>2. QED  BY <1>8, <2>1, <1>2, AttachGives, LedgerGiven DEF Finish
  <1>9. ASSUME Reconcile  PROVE Ledger!LedgerNext
    <2>1. ~CollectLive /\ ~Respawn
      BY <1>1 DEF CollectLive, Respawn
    <2>2. ASSUME NEW s \in SequenceIds, ServerDetach(s)  PROVE Ledger!LedgerNext
      BY <2>2, <1>3 DEF ServerDetach
    <2>3. QED  BY <1>9, <2>1, <2>2, <1>6, LedgerRebuild DEF Reconcile
  <1>10. \A p \in Procs : ~Kill(p)
    BY <1>1 DEF Kill
  <1>11. ASSUME NEW p \in Procs, KillInside(p)  PROVE Ledger!LedgerNext
    BY <1>11, KillLeaves, LedgerGiven, LedgerTaken, LedgerWave
  <1>12. ~ UNCHANGED vars
    BY <1>1 DEF vars
  <1>13. QED  BY <1>7, <1>8, <1>9, <1>10, <1>11, <1>12 DEF Next

\* The allocator implements the page ledger: with any interleaving of critical
\* sections, kills and reconciles a page never goes from one sequence to
\* another, or from the prefix cache to a sequence, without being free or in
\* transit first.
THEOREM AllocatorImplementsLedger == Spec => ImplementsLedger
  <1>1. Init => Ledger!LedgerInit
    <2> SUFFICES ASSUME Init PROVE Ledger!LedgerInit
      OBVIOUS
    <2>1. \A page \in Pages : page \in Range(free_stack)
      <3> SUFFICES ASSUME NEW page \in Pages PROVE page \in Range(free_stack)
        OBVIOUS
      <3>1. NumPages - page \in 1 .. NumPages /\ NumPages - (NumPages - page) = page
        BY NumPagesAssumption, SMT DEF Pages
      <3>2. NumPages - page \in DOMAIN free_stack /\ free_stack[NumPages - page] = page
        BY <3>1 DEF Init
      <3>3. QED  BY <3>2 DEF Range
    <2>2. QED  BY <2>1 DEF Ledger!LedgerInit, Place
  <1>2. QED  BY <1>1, LedgerStep, IndInvariant, PTL DEF Spec, ImplementsLedger, Ledger!LedgerSpec

-----------------------------------------------------------------------------
(* What the prefix cache owns                                              *)

\* A step that gives new owners to S only, none of it resident, keeps every
\* resident page.
LEMMA ResidentFrame ==
    ASSUME NEW S, NEW owner, page_owners' = SetOwner(S, owner),
           \A page \in S : page_owners[page] # PrefixResident
    PROVE  \A page \in Resident : page_owners'[page] = PrefixResident
  BY DEF SetOwner, Resident

\* Only ReleaseResidentPages takes a page out of the resident set, and then the
\* process carries it to the stack.
LEMMA ResidentStep ==
    ASSUME IndInv, [Next]_vars, NEW page \in Resident, page_owners'[page] # PrefixResident
    PROVE  \E p \in Procs : pc[p] = Idle /\ pc'[p].at = "push" /\ page \in Range(pc'[p].pages)
  <1> USE DEF counters, table
  <1>0. /\ TypeOK /\ StackSound /\ ChainsSound /\ CarriedSound
        /\ page \in Pages /\ page_owners[page] = PrefixResident
    BY DEF IndInv, NoPageTwice, Resident
  <1>1. page_owners' # page_owners
    BY <1>0
  <1>2. ASSUME NEW s \in SequenceIds, DetachSequence(s)  PROVE FALSE
    <2>1. \A x \in Range(chain[s]) : page_owners[x] # PrefixResident
      BY <1>0, ReservedIdsAssumption DEF ChainsSound
    <2>2. QED  BY <1>2, <2>1, ResidentFrame DEF DetachSequence
  <1>3. ASSUME NEW p \in Procs, NEW s \in SequenceIds, NEW n \in 1 .. NumPages,
               AcquirePop(p, s, n) \/ ReleasePrefixPages(p, s, n)
        PROVE  FALSE
    <2>1. ~AcquirePop(p, s, n)
      BY <1>1 DEF AcquirePop
    <2> DEFINE S == Range(SubSeq(chain[s], 1, n))
    <2>2. page_owners' = SetOwner(S, Empty)
      BY <1>3, <2>1 DEF ReleasePrefixPages
    <2>3. chain[s] \in Seq(Pages) /\ n \in 0 .. Len(chain[s]) /\ IsInjective(chain[s])
      BY <1>0, <1>3, <2>1, SMT DEF ReleasePrefixPages, TypeOK, ChainsSound
    <2>4. S \subseteq Range(chain[s])
      BY <2>3, SplitList, SMT
    <2> HIDE DEF S
    <2>5. \A x \in S : page_owners[x] # PrefixResident
      BY <2>4, <1>0, ReservedIdsAssumption DEF ChainsSound
    <2>6. QED  BY <2>2, <2>5, ResidentFrame
  <1>4. ASSUME PartlyWaved  PROVE FALSE
    <2>1. page \notin Range(free_stack)
      BY <1>0, ReservedIdsAssumption DEF StackSound
    <2>2. page_owners'[page] = page_owners[page]
      BY <1>0, <1>4, <2>1, WaveMoves DEF PartlyWaved
    <2>3. QED  BY <1>0, <2>2
  <1>5. ASSUME NEW s \in SequenceIds, NEW S, NEW lost, Taken(s, S, lost)  PROVE FALSE
    <2>1. page \notin S
      BY <1>0, <1>5, TakenSound, ReservedIdsAssumption
    <2>2. QED  BY <1>0, <1>5, <2>1, TakenSound
  <1>6. ASSUME NEW p \in Procs, NEW pages \in Listings(Resident), ReleaseResidentPages(p, pages)
        PROVE  pc[p] = Idle /\ pc'[p].at = "push" /\ page \in Range(pc'[p].pages)
    <2>1. page_owners' = SetOwner(Range(pages), Empty)
      BY <1>6 DEF ReleaseResidentPages
    <2>2. page \in Range(pages)
      BY <1>0, <2>1 DEF SetOwner
    <2>3. pc[p] = Idle /\ pc' = [pc EXCEPT ![p] = [at |-> "push", pages |-> pages]]
      BY <1>6 DEF ReleaseResidentPages
    <2>4. pc'[p] = [at |-> "push", pages |-> pages]
      BY <2>3, <1>0 DEF TypeOK
    <2>5. QED  BY <2>2, <2>3, <2>4, SMT
  <1>7. ASSUME NEW p \in Procs, NEW s \in SequenceIds, NEW q \in Seq(Pages), Given(p, s, q)  PROVE FALSE
    <2>1. page \notin Range(q)
      BY <1>0, <1>7, GivenSound, ReservedIdsAssumption
    <2>2. QED  BY <1>0, <1>7, <2>1, GivenSound
  <1>8. ASSUME RebuildFreeState  PROVE FALSE
    BY <1>8, ResidentFrame DEF RebuildFreeState, RebuildFrom
  <1>9. ASSUME NEW p \in Procs, Start(p)
        PROVE  \E q \in Procs : pc[q] = Idle /\ pc'[q].at = "push" /\ page \in Range(pc'[q].pages)
    <2>1. ~ \E s \in SequenceIds : ReleaseSequence(p, s)
      BY <1>2 DEF ReleaseSequence
    <2>2. ASSUME NEW ids \in Waves, NEW total \in 1 .. NumPages, NEW cut \in Cuts(Len(ids), total),
                 AcquirePagesForSequences(p, ids, total, cut)
          PROVE  FALSE
      <3>1. total <= Top /\ \E upto : IsWave(ids, total, cut, upto, Range(ids))
        BY <2>2, WholeWave DEF AcquirePagesForSequences
      <3>2. QED  BY <3>1, <1>4 DEF PartlyWaved
    <2>3. ASSUME NEW s \in SequenceIds, NEW R \in SUBSET Range(chain[s]), RetainPages(p, s, R)
          PROVE  FALSE
      BY <2>3, <1>5, RetainTakes
    <2>4. PICK pages \in Listings(Resident) : ReleaseResidentPages(p, pages)
      BY <1>9, <2>1, <2>2, <2>3, <1>3 DEF Start, Resident, Intact, IntactWaves
    <2>5. QED  BY <2>4, <1>6
  <1>10. ASSUME NEW p \in Procs, Finish(p) \/ Kill(p) \/ KillInside(p)  PROVE FALSE
    <2>1. ~AcquireAttach(p)
      BY <1>7, AttachGives
    <2>2. ~KillInside(p)
      BY <1>4, <1>5, <1>7, KillLeaves
    <2>3. QED  BY <1>10, <1>1, <2>1, <2>2 DEF Finish, AcquireTableFull, Push, Kill
  <1>11. ASSUME Reconcile  PROVE FALSE
    <2>1. ~CollectLive /\ ~ServerPush /\ ~Respawn
      BY <1>1 DEF CollectLive, ServerPush, Respawn
    <2>2. ~ \E s \in SequenceIds : ServerDetach(s)
      BY <1>2 DEF ServerDetach
    <2>3. QED  BY <1>11, <2>1, <2>2, <1>8 DEF Reconcile
  <1>12. ~ UNCHANGED vars
    BY <1>1 DEF vars
  <1>13. QED  BY <1>9, <1>10, <1>11, <1>12 DEF Next

\* A page the prefix cache owns stays resident through every acquire, release,
\* kill, rebuild and restart until ReleaseResidentPages names it.
THEOREM ResidentPagesKept == Spec => ResidentKept
  <1>1. IndInv /\ [Next]_vars =>
          [\A page \in Resident : \/ page_owners'[page] = PrefixResident
                                  \/ \E p \in Procs : /\ pc[p] = Idle
                                                      /\ pc'[p].at = "push"
                                                      /\ page \in Range(pc'[p].pages)]_vars
    BY ResidentStep
  <1>2. QED  BY <1>1, IndInvariant, PTL DEF Spec, ResidentKept

-----------------------------------------------------------------------------
(* No page is lost without a kill                                          *)

\* Taking pages out of their place and carrying them strands none.
LEMMA StrandedTakeOut ==
    ASSUME TypeOK, Stranded = {}, ServerHeld = {}, ServerHeld' = {},
           NEW p \in Procs, pc[p] = Idle, NEW q \in Seq(Pages),
           page_owners' = SetOwner(Range(q), Empty), free_stack' = free_stack,
           pc' = [pc EXCEPT ![p] = AfterDetach(q)]
    PROVE  Stranded' = {}
  <1>1. \A r \in Procs \ {p} : InFlight(r)' = InFlight(r)
    BY CarryFrame
  <1>2. Range(q) \subseteq InFlight(p)' /\ InFlight(p) = {}
    <2>1. CASE q = << >>
      BY <2>1, SMT DEF Range, InFlight
    <2>2. CASE q # << >>
      <3> DEFINE v == [at |-> "push", pages |-> q]
      <3>1. v \notin {Idle, Dead} /\ v.pages = q /\ pc' = [pc EXCEPT ![p] = v]
        BY <2>2, NotIdle DEF AfterDetach
      <3> HIDE DEF v
      <3>2. InFlight(p)' = Range(q)
        BY <3>1, CarryFrame
      <3>3. QED  BY <3>2 DEF InFlight
    <2>3. QED  BY <2>1, <2>2
  <1>3. \A page \in Pages : page_owners'[page] = IF page \in Range(q) THEN Empty ELSE page_owners[page]
    BY DEF SetOwner
  <1>4. ASSUME NEW page \in Pages, page_owners'[page] = Empty
        PROVE  page \in Range(free_stack') \/ \E r \in Procs : page \in InFlight(r)'
    <2>1. CASE page \in Range(q)
      BY <2>1, <1>2
    <2>2. CASE page \notin Range(q)
      <3>1. page \in Range(free_stack) \/ \E r \in Procs : page \in InFlight(r)
        BY <2>2, <1>3, <1>4 DEF Stranded
      <3>2. QED  BY <3>1, <1>1, <1>2
    <2>3. QED  BY <2>1, <2>2
  <1>5. QED  BY <1>4 DEF Stranded

\* In a cohort none of which has died, every step keeps all pages accounted for.
LEMMA StrandedStep ==
    ASSUME IndInv, NEW p \in Procs, Start(p) \/ Finish(p), Stranded = {}
    PROVE  Stranded' = {}
  <1> USE DEF counters, table
  <1>0. TypeOK /\ StackSound /\ ChainsSound /\ CarriedSound
    BY DEF IndInv, NoPageTwice
  <1>1. pc[p] # Dead
    <2>1. Start(p) => pc[p] = Idle
      BY DEF Start, AcquirePop, AcquirePagesForSequences, ReleaseSequence, ReleasePrefixPages,
             RetainPages, ReleaseResidentPages
    <2>2. Finish(p) => pc[p].at \in {"attach", "push"}
      BY DEF Finish, AcquireAttach, AcquireTableFull, Push
    <2>3. QED  BY <2>1, <2>2, <1>0, ControlStates, NotIdle
  <1>2. server' = server
    BY DEF Start, AcquirePop, AcquirePagesForSequences, ReleaseSequence, ReleasePrefixPages,
           RetainPages, ReleaseResidentPages, Finish, AcquireAttach, AcquireTableFull, Push
  <1>3. ServerHeld = {} /\ ServerHeld' = {}
    BY <1>1, <1>2, OnlyServing, ServingStep
  <1>4. \A page \in Pages : page_owners[page] = Empty =>
              page \in Range(free_stack) \/ \E r \in Procs : page \in InFlight(r)
    BY <1>3 DEF Stranded
  <1>5. ASSUME NEW s \in SequenceIds, NEW n \in 1 .. NumPages, AcquirePop(p, s, n)
        PROVE  Stranded' = {}
    <2> DEFINE a == BelowTop(n)
               b == PopTop(n)
    <2>1. Top - n \in 0 .. Len(free_stack) /\ free_stack \in Seq(Pages) /\ IsInjective(free_stack)
      <3>1. free_stack \in Seq(Pages) /\ IsInjective(free_stack)
        BY <1>0 DEF TypeOK, StackSound
      <3>2. n <= Len(free_stack)
        BY <1>5 DEF AcquirePop, Top
      <3>3. Len(free_stack) \in Nat /\ NumPages \in Nat
        BY <3>1, NumPagesAssumption, SMT
      <3>4. QED  BY <3>1, <3>2, <3>3, SMT DEF Top
    <2>2. a = SubSeq(free_stack, 1, Top - n) /\ b = SubSeq(free_stack, (Top - n) + 1, Len(free_stack))
      BY DEF BelowTop, PopTop, Top
    <2>3. /\ free_stack' = a /\ page_owners' = page_owners /\ pc[p] = Idle
          /\ pc' = [pc EXCEPT ![p] = [at |-> "attach", seq |-> s, pages |-> b]]
      BY <1>5 DEF AcquirePop
    <2> HIDE DEF a, b
    <2>4. Range(a) \union Range(b) = Range(free_stack)
      BY <2>1, <2>2, SplitList
    <2>5. InFlight(p)' = Range(b) /\ \A q \in Procs \ {p} : InFlight(q)' = InFlight(q)
      <3> DEFINE v == [at |-> "attach", seq |-> s, pages |-> b]
      <3>1. v \notin {Idle, Dead} /\ v.pages = b /\ pc' = [pc EXCEPT ![p] = v]
        BY <2>3, NotIdle
      <3> HIDE DEF v
      <3>2. QED  BY <1>0, <3>1, CarryFrame
    <2>6. InFlight(p) = {}
      BY <2>3 DEF InFlight
    <2>7. ASSUME NEW page \in Pages, page_owners'[page] = Empty
          PROVE  page \in Range(free_stack') \/ \E r \in Procs : page \in InFlight(r)'
      <3>1. page \in Range(free_stack) \/ \E r \in Procs : page \in InFlight(r)
        BY <1>4, <2>3, <2>7
      <3>2. CASE page \in Range(free_stack)
        BY <3>2, <2>3, <2>4, <2>5
      <3>3. CASE \E r \in Procs : page \in InFlight(r)
        BY <3>3, <2>5, <2>6
      <3>4. QED  BY <3>1, <3>2, <3>3
    <2>8. QED  BY <1>3, <2>7 DEF Stranded
  <1>6. ASSUME NEW ids \in Waves, NEW total \in 1 .. NumPages,
               NEW cut \in Cuts(Len(ids), total), AcquirePagesForSequences(p, ids, total, cut)
        PROVE  Stranded' = {}
    <2>1. pc' = pc /\ total <= Top
      BY <1>6 DEF AcquirePagesForSequences
    <2>2. PICK upto : /\ IsWave(ids, total, cut, upto, Range(ids))
                      /\ \A i \in 1 .. Len(ids) : upto[i] = cut[i]
      BY <1>6, WholeWave
    <2>3. /\ \A page \in Pages : \/ page_owners'[page] = page_owners[page]
                                 \/ page_owners'[page] \in SequenceIds
          /\ \A page \in Range(free_stack) \ Range(free_stack') : page_owners'[page] \in SequenceIds
      BY <2>1, <2>2, WaveMoves
    <2>4. \A q \in Procs : InFlight(q)' = InFlight(q)
      BY <2>1 DEF InFlight
    <2>5. ASSUME NEW page \in Pages, page_owners'[page] = Empty
          PROVE  page \in Range(free_stack') \/ \E q \in Procs : page \in InFlight(q)'
      <3>1. page_owners[page] = Empty /\ page \notin Range(free_stack) \ Range(free_stack')
        BY <2>3, <2>5, ReservedIdsAssumption
      <3>2. QED  BY <3>1, <1>4, <2>4
    <2>6. QED  BY <1>3, <2>5 DEF Stranded
  <1>7. ASSUME NEW s \in SequenceIds, ReleaseSequence(p, s)  PROVE Stranded' = {}
    <2>1. /\ pc[p] = Idle /\ chain[s] \in Seq(Pages) /\ page_owners' = SetOwner(Range(chain[s]), Empty)
          /\ free_stack' = free_stack /\ pc' = [pc EXCEPT ![p] = AfterDetach(chain[s])]
      BY <1>0, <1>7 DEF ReleaseSequence, DetachSequence, TypeOK
    <2>2. QED  BY <1>0, <1>3, <2>1, StrandedTakeOut
  <1>8. ASSUME NEW q \in Seq(Pages), q # << >>, pc[p] = Idle,
               page_owners' = SetOwner(Range(q), Empty), free_stack' = free_stack,
               pc' = [pc EXCEPT ![p] = [at |-> "push", pages |-> q]]
        PROVE  Stranded' = {}
    <2>1. pc' = [pc EXCEPT ![p] = AfterDetach(q)]
      BY <1>8 DEF AfterDetach
    <2>2. QED  BY <1>0, <1>3, <1>8, <2>1, StrandedTakeOut
  <1>9. ASSUME NEW s \in SequenceIds, NEW n \in 1 .. NumPages, ReleasePrefixPages(p, s, n)
        PROVE  Stranded' = {}
    <2> DEFINE q == SubSeq(chain[s], 1, n)
    <2>1. /\ pc[p] = Idle /\ page_owners' = SetOwner(Range(q), Empty)
          /\ free_stack' = free_stack /\ pc' = [pc EXCEPT ![p] = [at |-> "push", pages |-> q]]
      BY <1>9 DEF ReleasePrefixPages
    <2>2. chain[s] \in Seq(Pages) /\ n \in 1 .. Len(chain[s])
      BY <1>0, <1>9, SMT DEF ReleasePrefixPages, TypeOK
    <2>3. q \in Seq(Pages) /\ Len(q) = n
      BY <2>2, SMT
    <2>4. q # << >>
      BY <2>2, <2>3, SMT
    <2> HIDE DEF q
    <2>5. QED  BY <1>8, <2>1, <2>3, <2>4
  <1>10. ASSUME NEW s \in SequenceIds, NEW R, RetainPages(p, s, R)  PROVE Stranded' = {}
    <2>1. page_owners' = SetOwner(R, PrefixResident) /\ free_stack' = free_stack /\ pc' = pc
      BY <1>10 DEF RetainPages
    <2>2. \A q \in Procs : InFlight(q)' = InFlight(q)
      BY <2>1 DEF InFlight
    <2>3. \A page \in Pages : page_owners'[page] = Empty => page_owners[page] = Empty
      BY <2>1, ReservedIdsAssumption DEF SetOwner
    <2>4. QED  BY <1>3, <1>4, <2>1, <2>2, <2>3 DEF Stranded
  <1>11. ASSUME NEW pages \in Listings(Resident), ReleaseResidentPages(p, pages)
         PROVE  Stranded' = {}
    <2>1. PICK n \in 1 .. Cardinality(Resident) : pages \in [1 .. n -> Resident]
      BY DEF Listings
    <2>2. Cardinality(Resident) \in Nat
      BY PageSets DEF Resident
    <2>3. pages \in Seq(Pages) /\ pages # << >>
      BY <2>1, <2>2, SMT DEF Resident
    <2>4. /\ pc[p] = Idle /\ page_owners' = SetOwner(Range(pages), Empty)
          /\ free_stack' = free_stack /\ pc' = [pc EXCEPT ![p] = [at |-> "push", pages |-> pages]]
      BY <1>11 DEF ReleaseResidentPages
    <2>5. QED  BY <1>8, <2>3, <2>4
  <1>12. CASE AcquireAttach(p)
    <2> DEFINE q == pc[p].pages
               s == pc[p].seq
    <2>1. /\ page_owners' = SetOwner(Range(q), s) /\ free_stack' = free_stack
          /\ pc' = [pc EXCEPT ![p] = Idle] /\ InFlight(p) = Range(q) /\ s \in SequenceIds
      BY <1>0, <1>12, ControlStates DEF AcquireAttach, AttachPages, InFlight
    <2> HIDE DEF q, s
    <2>2. \A r \in Procs \ {p} : InFlight(r)' = InFlight(r)
      BY <1>0, <2>1, CarryFrame
    <2>3. \A page \in Pages : page_owners'[page] = Empty =>
                page_owners[page] = Empty /\ page \notin InFlight(p)
      BY <2>1, ReservedIdsAssumption DEF SetOwner
    <2>4. QED  BY <1>3, <1>4, <2>1, <2>2, <2>3 DEF Stranded
  <1>13. CASE AcquireTableFull(p)
    <2> DEFINE v == [at |-> "push", pages |-> pc[p].pages]
    <2>1. v \notin {Idle, Dead} /\ v.pages = pc[p].pages
      BY NotIdle
    <2>2. /\ page_owners' = page_owners /\ free_stack' = free_stack /\ pc' = [pc EXCEPT ![p] = v]
          /\ InFlight(p) = Range(pc[p].pages)
      BY <1>0, <1>13, ControlStates DEF AcquireTableFull, InFlight
    <2> HIDE DEF v
    <2>3. \A r \in Procs : InFlight(r)' = InFlight(r)
      BY <1>0, <2>1, <2>2, CarryFrame
    <2>4. QED  BY <1>3, <1>4, <2>2, <2>3 DEF Stranded
  <1>14. CASE Push(p)
    <2> DEFINE q == pc[p].pages
    <2>1. /\ page_owners' = page_owners /\ free_stack' = free_stack \o q
          /\ pc' = [pc EXCEPT ![p] = Idle] /\ InFlight(p) = Range(q) /\ q \in Seq(Pages)
          /\ free_stack \in Seq(Pages)
      BY <1>0, <1>14, ControlStates DEF Push, InFlight, TypeOK
    <2> HIDE DEF q
    <2>2. Range(free_stack') = Range(free_stack) \union Range(q)
      BY <2>1, RangeConcat, SMT
    <2>3. \A r \in Procs \ {p} : InFlight(r)' = InFlight(r)
      BY <1>0, <2>1, CarryFrame
    <2>4. QED  BY <1>3, <1>4, <2>1, <2>2, <2>3, SMT DEF Stranded
  <1>15. QED
    BY <1>5, <1>6, <1>7, <1>9, <1>10, <1>11, <1>12, <1>13, <1>14
    DEF Start, Finish, Resident, Intact, IntactWaves

\* A step of a live process kills nobody and revives nobody.
LEMMA NoRevival ==
    ASSUME IndInv, NEW p \in Procs, Start(p) \/ Finish(p)
    PROVE  server'.at = "serving" /\ \A q \in Procs : pc[q] = Dead => pc'[q] = Dead
  <1>0. TypeOK
    BY DEF IndInv
  <1>1. pc[p] # Dead
    <2>1. Start(p) => pc[p] = Idle
      BY DEF Start, AcquirePop, AcquirePagesForSequences, ReleaseSequence, ReleasePrefixPages,
             RetainPages, ReleaseResidentPages
    <2>2. Finish(p) => pc[p].at \in {"attach", "push"}
      BY DEF Finish, AcquireAttach, AcquireTableFull, Push
    <2>3. QED  BY <2>1, <2>2, <1>0, ControlStates, NotIdle
  <1>2. server' = server
    BY DEF Start, AcquirePop, AcquirePagesForSequences, ReleaseSequence, ReleasePrefixPages,
           RetainPages, ReleaseResidentPages, Finish, AcquireAttach, AcquireTableFull, Push
  <1>3. pc' = pc \/ \E v : pc' = [pc EXCEPT ![p] = v]
    <2>1. ASSUME NEW s \in SequenceIds, NEW n \in 1 .. NumPages, AcquirePop(p, s, n)
          PROVE  \E v : pc' = [pc EXCEPT ![p] = v]
      BY <2>1 DEF AcquirePop
    <2>2. ASSUME NEW s \in SequenceIds, ReleaseSequence(p, s)  PROVE \E v : pc' = [pc EXCEPT ![p] = v]
      BY <2>2 DEF ReleaseSequence
    <2>3. ASSUME NEW s \in SequenceIds, NEW n \in 1 .. NumPages, ReleasePrefixPages(p, s, n)
          PROVE  \E v : pc' = [pc EXCEPT ![p] = v]
      BY <2>3 DEF ReleasePrefixPages
    <2>4. ASSUME NEW pages, ReleaseResidentPages(p, pages)  PROVE \E v : pc' = [pc EXCEPT ![p] = v]
      BY <2>4 DEF ReleaseResidentPages
    <2>5. Finish(p) => \E v : pc' = [pc EXCEPT ![p] = v]
      BY DEF Finish, AcquireAttach, AcquireTableFull, Push
    <2>6. ASSUME NEW s, NEW R, RetainPages(p, s, R)  PROVE pc' = pc
      BY <2>6 DEF RetainPages
    <2>7. ASSUME NEW ids, NEW total, NEW cut, AcquirePagesForSequences(p, ids, total, cut)  PROVE pc' = pc
      BY <2>7 DEF AcquirePagesForSequences
    <2>8. QED  BY <2>1, <2>2, <2>3, <2>4, <2>5, <2>6, <2>7 DEF Start, Intact
  <1>4. \A q \in Procs \ {p} : pc'[q] = pc[q]
    BY <1>0, <1>3 DEF TypeOK
  <1>5. QED  BY <1>1, <1>2, <1>4, OnlyServing

\* Every step keeps NothingStranded.
LEMMA NothingStrandedStep == IndInv /\ NothingStranded /\ [Next]_vars => NothingStranded'
  <1> SUFFICES ASSUME IndInv, NothingStranded, [Next]_vars PROVE NothingStranded'
    OBVIOUS
  <1> USE DEF counters, table
  <1>1. ASSUME NEW p \in Procs, Start(p) \/ Finish(p)  PROVE NothingStranded'
    <2> SUFFICES ASSUME \A q \in Procs : pc'[q] # Dead  PROVE Stranded' = {}
      BY <1>1, NoRevival DEF NothingStranded
    <2>1. \A q \in Procs : pc[q] # Dead
      BY <1>1, NoRevival
    <2>2. QED  BY <1>1, <2>1, StrandedStep DEF NothingStranded
  <1>2. ASSUME NEW p \in Procs, Kill(p) \/ KillInside(p)  PROVE NothingStranded'
    <2>1. PICK T : Dies(p, T)
      BY <1>2, KillTears DEF Kill
    <2>2. pc'[p] = Dead /\ server'.at = "serving"
      BY <2>1 DEF Dies, IndInv, TypeOK
    <2>3. QED  BY <2>2 DEF NothingStranded
  <1>3. CASE CollectLive \/ ServerPush \/ \E s \in SequenceIds : ServerDetach(s)
    <2>1. /\ server'.at # "rebuilt" /\ pc' = pc
      BY <1>3, SMT DEF CollectLive, ServerPush, ServerDetach
    <2>2. \A p \in Procs : pc[p] = Dead
      BY <1>3, DeadCohort DEF CollectLive, ServerPush, ServerDetach
    <2>3. QED  BY <2>1, <2>2, ProcsAssumption DEF NothingStranded
  <1>4. CASE RebuildFreeState
    <2> DEFINE free == {page \in Pages : page_owners[page] # PrefixResident}
    <2>1. page_owners' = SetOwner(free, Empty) /\ Range(free_stack') = free
      BY <1>4, RebuiltStack DEF RebuildFreeState, RebuildFrom
    <2>2. \A page \in Pages : page_owners'[page] = Empty => page \in Range(free_stack')
      BY <2>1, ReservedIdsAssumption DEF SetOwner
    <2>3. QED  BY <2>2 DEF NothingStranded, Stranded
  <1>5. CASE Respawn
    <2>1. /\ server.at = "rebuilt" /\ server' = [at |-> "serving"]
          /\ page_owners' = page_owners /\ free_stack' = free_stack
      BY <1>5 DEF Respawn
    <2>2. Stranded = {} /\ ServerHeld = {} /\ \A p \in Procs : InFlight(p) = {}
      BY <2>1, DeadCohort DEF NothingStranded, ServerHeld
    <2>3. \A page \in Pages : page_owners[page] = Empty => page \in Range(free_stack)
      BY <2>2 DEF Stranded
    <2>4. QED  BY <2>1, <2>3 DEF NothingStranded, Stranded
  <1>6. CASE UNCHANGED vars
    BY <1>6 DEF vars, NothingStranded, Stranded, ServerHeld, InFlight
  <1>7. QED  BY <1>1, <1>2, <1>3, <1>4, <1>5, <1>6 DEF Next, Reconcile

\* Pages are lost to kills only, and RebuildFreeStateLocked recovers them all:
\* in a cohort without a dead process, and after every rebuild, each page is
\* free, owned, resident or carried by a running operation.
THEOREM OnlyKillsStrand == Spec => []NothingStranded
  <1>1. Init => NothingStranded
    <2> SUFFICES ASSUME Init PROVE NothingStranded
      OBVIOUS
    <2>1. \A page \in Pages : page \in Range(free_stack)
      <3> SUFFICES ASSUME NEW page \in Pages PROVE page \in Range(free_stack)
        OBVIOUS
      <3>1. NumPages - page \in 1 .. NumPages /\ NumPages - (NumPages - page) = page
        BY NumPagesAssumption, SMT DEF Pages
      <3>2. NumPages - page \in DOMAIN free_stack /\ free_stack[NumPages - page] = page
        BY <3>1 DEF Init
      <3>3. QED  BY <3>2 DEF Range
    <2>2. QED  BY <2>1 DEF NothingStranded, Stranded
  <1>2. QED  BY <1>1, NothingStrandedStep, IndInvariant, PTL DEF Spec
=============================================================================
