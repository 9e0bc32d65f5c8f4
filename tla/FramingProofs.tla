--------------------------- MODULE FramingProofs ---------------------------
(***************************************************************************)
(* Proofs about Framing, for every alphabet, delimiter and message size,   *)
(* and streams and chunks of any length.                                   *)
(***************************************************************************)
EXTENDS Framing, WellFoundedInduction, SequenceTheorems, TLAPS

Symbols == Seq(Alphabet)

-----------------------------------------------------------------------------
(* Where a delimiter is *)

\* A delimiter begins at position i of s.
Matches(s, i) ==
    /\ i >= 1 /\ i + D - 1 <= Len(s)
    /\ \A j \in 1 .. D : s[i + j - 1] = Delimiter[j]

\* Sequences are equal when they are as long and have the same elements.
LEMMA SameSeq ==
    ASSUME NEW S, NEW a \in Seq(S), NEW b \in Seq(S), NEW n \in Nat, Len(a) = n, Len(b) = n,
           \A j \in 1 .. n : a[j] = b[j]
    PROVE  a = b
OBVIOUS

\* A non-empty set of numbers has a least one.
LEMMA LeastNumber ==
    ASSUME NEW T \in SUBSET Nat, T # {}
    PROVE  \E n \in T : \A m \in T : n <= m
<1>1. PICK n \in T : \A m \in T : ~(<<m, n>> \in OpToRel(<, Nat))
    BY NatLessThanWellFounded, WFMin
<1>2. ASSUME NEW m \in T
      PROVE  ~(m < n)
    <2>1. m < n => <<m, n>> \in {ss \in Nat \X Nat : ss[1] < ss[2]}
        OBVIOUS
    <2>. QED
        BY <1>1, <2>1 DEF OpToRel
<1>. QED
    BY <1>2

\* The delimiter has at least one symbol.
LEMMA DelimiterLength == D \in Nat /\ D >= 1 /\ Delimiter \in Symbols /\ DOMAIN Delimiter = 1 .. D
BY FramingAssumption DEF D, Symbols

\* Comparing a slice with the delimiter compares symbol by symbol.
LEMMA SliceMatches ==
    ASSUME NEW s \in Symbols, NEW i \in Nat, i >= 1, i + D - 1 <= Len(s)
    PROVE  SubSeq(s, i, i + D - 1) = Delimiter <=> Matches(s, i)
<1>. DEFINE t == SubSeq(s, i, i + D - 1)
<1>1. Len(t) = D /\ t \in Symbols
    BY DelimiterLength DEF Symbols
<1>2. \A j \in 1 .. D : t[j] = s[i + j - 1]
    BY DelimiterLength DEF Symbols
<1>3. Len(Delimiter) = D
    BY DEF D
<1>. HIDE DEF t
<1>4. t = Delimiter <=> \A j \in 1 .. D : t[j] = Delimiter[j]
    BY <1>1, <1>3, DelimiterLength, SameSeq DEF Symbols
<1>5. t = Delimiter <=> Matches(s, i)
    BY <1>2, <1>4 DEF Matches
<1>. QED
    BY <1>5 DEF t

\* What IndexOf finds: the first delimiter from a position on, if there is one.
LEMMA IndexOfFinds ==
    ASSUME NEW s \in Symbols, NEW x \in Nat, x >= 1
    PROVE  /\ IndexOf(s, x) \in Nat
           /\ IndexOf(s, x) = 0 => \A i \in Nat : i >= x => ~Matches(s, i)
           /\ IndexOf(s, x) # 0 =>
                /\ IndexOf(s, x) >= x /\ Matches(s, IndexOf(s, x))
                /\ \A i \in Nat : x <= i /\ i < IndexOf(s, x) => ~Matches(s, i)
<1>. DEFINE hits == {i \in x .. Len(s) - D + 1 : SubSeq(s, i, i + D - 1) = Delimiter}
<1>1. Len(s) \in Nat
    BY DEF Symbols
<1>2. ASSUME NEW i \in Nat, i >= x
      PROVE  i \in hits <=> Matches(s, i)
    <2>1. CASE i + D - 1 <= Len(s)
        <3>1. SubSeq(s, i, i + D - 1) = Delimiter <=> Matches(s, i)
            BY <1>2, <2>1, SliceMatches
        <3>2. i \in x .. Len(s) - D + 1
            BY <1>1, <1>2, <2>1, DelimiterLength
        <3>. QED
            BY <3>1, <3>2
    <2>2. CASE ~(i + D - 1 <= Len(s))
        <3>1. ~Matches(s, i)
            BY <2>2 DEF Matches
        <3>2. i \notin x .. Len(s) - D + 1
            BY <1>1, <2>2, DelimiterLength
        <3>. QED
            BY <3>1, <3>2
    <2>. QED
        BY <2>1, <2>2
<1>3. hits \in SUBSET Nat /\ \A i \in hits : i >= x
    BY <1>1, DelimiterLength
<1>4. IndexOf(s, x) = IF hits = {} THEN 0 ELSE Min(hits)
    BY DEF IndexOf
<1>. HIDE DEF hits
<1>5. hits # {} => Min(hits) \in hits /\ \A m \in hits : Min(hits) <= m
    BY <1>3, LeastNumber DEF Min
<1>6. CASE hits = {}
    BY <1>2, <1>4, <1>6
<1>7. CASE hits # {}
    <2>1. PICK m \in hits : m = IndexOf(s, x) /\ \A n \in hits : m <= n
        BY <1>4, <1>5, <1>7
    <2>2. m \in Nat /\ m >= x
        BY <1>3
    <2>3. \A i \in Nat : x <= i /\ i < m => ~Matches(s, i)
        BY <1>2, <2>1, <2>2
    <2>. QED
        BY <1>2, <2>1, <2>2, <2>3
<1>. QED
    BY <1>6, <1>7

\* It is the only position like that.
LEMMA IndexOfIs ==
    ASSUME NEW s \in Symbols, NEW x \in Nat, x >= 1, NEW e \in Nat, e >= x, Matches(s, e),
           \A i \in Nat : x <= i /\ i < e => ~Matches(s, i)
    PROVE  IndexOf(s, x) = e
<1>1. PICK f \in Nat : f = IndexOf(s, x)
    BY IndexOfFinds
<1>2. f # 0
    BY <1>1, IndexOfFinds
<1>3. f >= x /\ Matches(s, f) /\ \A i \in Nat : x <= i /\ i < f => ~Matches(s, i)
    BY <1>1, <1>2, IndexOfFinds
<1>4. ~(f < e) /\ ~(e < f)
    BY <1>3
<1>. QED
    BY <1>1, <1>4

\* Nothing is found where there is no delimiter.
LEMMA IndexOfIsNone ==
    ASSUME NEW s \in Symbols, NEW x \in Nat, x >= 1, \A i \in Nat : i >= x => ~Matches(s, i)
    PROVE  IndexOf(s, x) = 0
BY IndexOfFinds

-----------------------------------------------------------------------------
(* Streams, their ends and their continuations *)

\* The end of a stream from position x on.
From(s, x) == SubSeq(s, x, Len(s))

\* Searching the end of a stream is searching the stream from there.
LEMMA IndexOfFrom ==
    ASSUME NEW s \in Symbols, NEW x \in Nat, x >= 1, x <= Len(s) + 1
    PROVE  /\ From(s, x) \in Symbols /\ Len(From(s, x)) = Len(s) - x + 1
           /\ IndexOf(From(s, x), 1) = 0 <=> IndexOf(s, x) = 0
           /\ IndexOf(s, x) # 0 => IndexOf(From(s, x), 1) = IndexOf(s, x) - x + 1
<1>. DEFINE t == From(s, x)
<1>1. t \in Symbols /\ Len(t) = Len(s) - x + 1 /\ \A j \in 1 .. Len(t) : t[j] = s[x + j - 1]
    BY DEF From, Symbols
<1>2. Len(s) \in Nat /\ Len(t) \in Nat
    BY <1>1 DEF Symbols
<1>. HIDE DEF t
<1>3. ASSUME NEW i \in Nat, i >= 1
      PROVE  Matches(t, i) <=> Matches(s, i + x - 1)
    <2>1. i + D - 1 <= Len(t) <=> (i + x - 1) + D - 1 <= Len(s)
        BY <1>1, <1>2, DelimiterLength
    <2>2. ASSUME NEW j \in 1 .. D, i + D - 1 <= Len(t)
          PROVE  t[i + j - 1] = s[(i + x - 1) + j - 1]
        <3>1. i + j - 1 \in 1 .. Len(t) /\ x + (i + j - 1) - 1 = (i + x - 1) + j - 1
            BY <1>2, <1>3, <2>2, DelimiterLength
        <3>. QED
            BY <1>1, <3>1
    <2>. QED
        BY <1>3, <2>1, <2>2 DEF Matches
<1>4. ASSUME IndexOf(s, x) = 0
      PROVE  IndexOf(t, 1) = 0
    <2>1. \A i \in Nat : i >= 1 => ~Matches(t, i)
        BY <1>3, <1>4, IndexOfFinds
    <2>. QED
        BY <1>1, <2>1, IndexOfIsNone
<1>5. ASSUME IndexOf(s, x) # 0
      PROVE  IndexOf(t, 1) = IndexOf(s, x) - x + 1 /\ IndexOf(t, 1) # 0
    <2>1. PICK e \in Nat : e = IndexOf(s, x)
        BY IndexOfFinds
    <2>2. e >= x /\ Matches(s, e) /\ \A i \in Nat : x <= i /\ i < e => ~Matches(s, i)
        BY <1>5, <2>1, IndexOfFinds
    <2>3. PICK f \in Nat : f = e - x + 1 /\ f >= 1
        BY <2>2
    <2>4. Matches(t, f)
        <3>1. f + x - 1 = e
            BY <2>3
        <3>. QED
            BY <1>3, <2>2, <2>3, <3>1
    <2>5. ASSUME NEW i \in Nat, 1 <= i, i < f
          PROVE  ~Matches(t, i)
        <3>1. i + x - 1 \in Nat /\ x <= i + x - 1 /\ i + x - 1 < e
            BY <2>3, <2>5
        <3>. QED
            BY <1>3, <2>2, <2>5, <3>1
    <2>. QED
        BY <1>1, <2>1, <2>3, <2>4, <2>5, IndexOfIs
<1>6. t = From(s, x)
    BY DEF t
<1>. QED
    BY <1>1, <1>4, <1>5, <1>6

\* A delimiter stays where it is when more arrives, and none appears before it.
LEMMA MatchesLonger ==
    ASSUME NEW s \in Symbols, NEW c \in Symbols, NEW i \in Nat, i + D - 1 <= Len(s)
    PROVE  Matches(s \o c, i) <=> Matches(s, i)
<1>1. Len(s) \in Nat /\ Len(c) \in Nat /\ Len(s \o c) = Len(s) + Len(c)
    BY DEF Symbols
<1>2. \A j \in 1 .. Len(s) : (s \o c)[j] = s[j]
    BY DEF Symbols
<1>3. i >= 1 => \A j \in 1 .. D : i + j - 1 \in 1 .. Len(s)
    BY <1>1, DelimiterLength
<1>. QED
    BY <1>1, <1>2, <1>3, DelimiterLength DEF Matches

\* So the first delimiter is found where it was found before.
LEMMA IndexOfLonger ==
    ASSUME NEW s \in Symbols, NEW c \in Symbols, NEW x \in Nat, x >= 1, IndexOf(s, x) # 0
    PROVE  IndexOf(s \o c, x) = IndexOf(s, x)
<1>1. PICK e \in Nat : e = IndexOf(s, x)
    BY IndexOfFinds
<1>2. e >= x /\ Matches(s, e) /\ \A i \in Nat : x <= i /\ i < e => ~Matches(s, i)
    BY <1>1, IndexOfFinds
<1>3. Len(s) \in Nat /\ s \o c \in Symbols
    BY DEF Symbols
<1>4. \A i \in Nat : i <= e => (Matches(s \o c, i) <=> Matches(s, i))
    <2>1. e + D - 1 <= Len(s)
        BY <1>2 DEF Matches
    <2>2. ASSUME NEW i \in Nat, i <= e
          PROVE  i + D - 1 <= Len(s)
        BY <1>3, <2>1, <2>2, DelimiterLength
    <2>. QED
        BY <2>2, MatchesLonger
<1>. QED
    BY <1>1, <1>2, <1>3, <1>4, IndexOfIs

-----------------------------------------------------------------------------
(* Rust's search in a tail and a chunk kept apart *)

\* A non-empty set of numbers below a bound has a greatest one.
LEMMA GreatestNumber ==
    ASSUME NEW b \in Nat, NEW T \in SUBSET (1 .. b), T # {}
    PROVE  \E n \in T : \A m \in T : n >= m
<1>. DEFINE U == {b - n : n \in T}
<1>0. \A n \in T : n \in Nat /\ b - n \in Nat
    OBVIOUS
<1>1. U \in SUBSET Nat /\ U # {}
    BY <1>0
<1>2. PICK u \in U : \A m \in U : u <= m
    BY <1>1, LeastNumber
<1>3. PICK n \in T : u = b - n
    BY <1>2
<1>4. ASSUME NEW m \in T
      PROVE  n >= m
    <2>1. b - n <= b - m
        BY <1>2, <1>3
    <2>2. n \in Nat /\ m \in Nat
        BY <1>0
    <2>. QED
        BY <2>1, <2>2
<1>. QED
    BY <1>4

\* A delimiter in pending and chunk together lies in one of them, or begins in
\* the one with as many symbols as Crossings has, and ends in the other.
LEMMA MatchesJoined ==
    ASSUME NEW a \in Symbols, NEW c \in Symbols, NEW i \in Nat, i >= 1
    PROVE  /\ i > Len(a) => (Matches(a \o c, i) <=> Matches(c, i - Len(a)))
           /\ i <= Len(a) /\ i + D - 1 > Len(a) =>
                (Matches(a \o c, i) <=> Len(a) - i + 1 \in Crossings(a, c))
<1>. DEFINE s == a \o c
<1>1. /\ Len(a) \in Nat /\ Len(c) \in Nat /\ Len(s) = Len(a) + Len(c)
      /\ \A j \in 1 .. Len(a) : s[j] = a[j]
      /\ \A j \in 1 .. Len(c) : s[Len(a) + j] = c[j]
    BY DEF Symbols
<1>. HIDE DEF s
<1>2. ASSUME i > Len(a)
      PROVE  Matches(s, i) <=> Matches(c, i - Len(a))
    <2>1. PICK h \in Nat : h = i - Len(a) /\ h >= 1
        BY <1>1, <1>2
    <2>2. i + D - 1 <= Len(s) <=> h + D - 1 <= Len(c)
        BY <1>1, <2>1, DelimiterLength
    <2>3. ASSUME NEW j \in 1 .. D, h + D - 1 <= Len(c)
          PROVE  s[i + j - 1] = c[h + j - 1]
        <3>1. h + j - 1 \in 1 .. Len(c) /\ Len(a) + (h + j - 1) = i + j - 1
            BY <1>1, <2>1, <2>3, DelimiterLength
        <3>. QED
            BY <1>1, <3>1
    <2>. QED
        BY <2>1, <2>2, <2>3 DEF Matches
<1>3. ASSUME i <= Len(a), i + D - 1 > Len(a)
      PROVE  Matches(s, i) <=> Len(a) - i + 1 \in Crossings(a, c)
    <2>1. PICK k \in Nat : k = Len(a) - i + 1 /\ k >= 1 /\ k <= Len(a) /\ k <= D - 1
        <3>1. D \in Nat /\ Len(a) \in Nat
            BY <1>1, DelimiterLength
        <3>2. Len(a) - i + 1 \in Nat /\ Len(a) - i + 1 >= 1 /\ Len(a) - i + 1 <= Len(a)
            BY <1>3, <3>1
        <3>3. Len(a) - i + 1 <= D - 1
            BY <1>3, <3>1
        <3>. QED
            BY <3>2, <3>3
    <2>2. Min({Len(a), D - 1}) \in {Len(a), D - 1} /\ k <= Min({Len(a), D - 1})
        <3>1. Len(a) \in Nat /\ D - 1 \in Nat
            BY <1>1, DelimiterLength
        <3>2. {Len(a), D - 1} \in SUBSET Nat
            BY <3>1
        <3>3. Min({Len(a), D - 1}) \in {Len(a), D - 1}
            BY <3>2, LeastNumber DEF Min
        <3>. QED
            BY <2>1, <3>3
    <2>3. k \in 1 .. Min({Len(a), D - 1})
        BY <1>1, <2>1, <2>2, DelimiterLength
    <2>. DEFINE u == SubSeq(a, Len(a) - k + 1, Len(a))
                v == SubSeq(Delimiter, 1, k)
                w == SubSeq(c, 1, D - k)
                z == SubSeq(Delimiter, k + 1, D)
    <2>4. k \in Crossings(a, c) <=> Len(c) >= D - k /\ u = v /\ w = z
        BY <2>3 DEF Crossings
    <2>5. i + D - 1 <= Len(s) <=> Len(c) >= D - k
        BY <1>1, <2>1, DelimiterLength
    <2>6. u = v <=> \A j \in 1 .. k : s[i + j - 1] = Delimiter[j]
        <3>1. u \in Symbols /\ Len(u) = k /\ \A j \in 1 .. k : u[j] = a[i + j - 1]
            BY <1>1, <2>1 DEF Symbols
        <3>2. v \in Symbols /\ Len(v) = k /\ \A j \in 1 .. k : v[j] = Delimiter[j]
            BY <2>1, DelimiterLength DEF Symbols, D
        <3>. HIDE DEF u, v
        <3>3. u = v <=> \A j \in 1 .. k : u[j] = v[j]
            <4>1. u = v => \A j \in 1 .. k : u[j] = v[j]
                OBVIOUS
            <4>2. (\A j \in 1 .. k : u[j] = v[j]) => u = v
                BY <3>1, <3>2, SameSeq DEF Symbols
            <4>. QED
                BY <4>1, <4>2
        <3>4. \A j \in 1 .. k : i + j - 1 \in 1 .. Len(a)
            BY <1>1, <1>3, <2>1
        <3>. QED
            BY <1>1, <3>1, <3>2, <3>3, <3>4
    <2>7. ASSUME Len(c) >= D - k
          PROVE  w = z <=> \A j \in k + 1 .. D : s[i + j - 1] = Delimiter[j]
        <3>1. w \in Symbols /\ Len(w) = D - k /\ \A j \in 1 .. D - k : w[j] = c[j]
            BY <1>1, <2>1, <2>7, DelimiterLength DEF Symbols
        <3>2. z \in Symbols /\ Len(z) = D - k /\ \A j \in 1 .. D - k : z[j] = Delimiter[k + j]
            <4>1. Delimiter \in Symbols /\ Len(Delimiter) = D /\ D \in Nat
                BY DelimiterLength DEF D
            <4>2. z \in Symbols /\ Len(z) = D - k
                BY <2>1, <4>1 DEF Symbols
            <4>3. \A j \in 1 .. D - k : z[j] = Delimiter[(k + 1) + j - 1] /\ (k + 1) + j - 1 = k + j
                BY <2>1, <4>1 DEF Symbols
            <4>. QED
                BY <4>2, <4>3
        <3>. HIDE DEF w, z
        <3>3. w = z <=> \A j \in 1 .. D - k : w[j] = z[j]
            <4>1. w = z => \A j \in 1 .. D - k : w[j] = z[j]
                OBVIOUS
            <4>2. D - k \in Nat
                BY <2>1, DelimiterLength
            <4>3. (\A j \in 1 .. D - k : w[j] = z[j]) => w = z
                BY <3>1, <3>2, <4>2, SameSeq DEF Symbols
            <4>. QED
                BY <4>1, <4>3
        <3>4. \A j \in 1 .. D - k : j \in 1 .. Len(c) /\ Len(a) + j = i + (k + j) - 1
            BY <1>1, <2>1, <2>7, DelimiterLength
        <3>5. \A j \in 1 .. D - k : s[i + (k + j) - 1] = c[j]
            BY <1>1, <3>4
        <3>6. w = z <=> \A j \in 1 .. D - k : s[i + (k + j) - 1] = Delimiter[k + j]
            BY <3>1, <3>2, <3>3, <3>5
        <3>7. ASSUME \A j \in 1 .. D - k : s[i + (k + j) - 1] = Delimiter[k + j],
                     NEW m \in k + 1 .. D
              PROVE  s[i + m - 1] = Delimiter[m]
            <4>1. m - k \in 1 .. D - k /\ k + (m - k) = m
                BY <2>1, DelimiterLength
            <4>. QED
                BY <3>7, <4>1
        <3>8. \A j \in 1 .. D - k : k + j \in k + 1 .. D
            BY <2>1, DelimiterLength
        <3>. QED
            BY <3>6, <3>7, <3>8
    <2>. HIDE DEF u, v, w, z
    <2>8. \A j \in Nat : j \in 1 .. D <=> j \in 1 .. k \/ j \in k + 1 .. D
        BY <2>1, DelimiterLength
    <2>9. Matches(s, i) <=> k \in Crossings(a, c)
        <3>1. 1 .. D \subseteq Nat /\ 1 .. k \subseteq Nat /\ k + 1 .. D \subseteq Nat
            BY <2>1, DelimiterLength
        <3>2. (\A j \in 1 .. D : s[i + j - 1] = Delimiter[j]) <=>
                 /\ \A j \in 1 .. k : s[i + j - 1] = Delimiter[j]
                 /\ \A j \in k + 1 .. D : s[i + j - 1] = Delimiter[j]
            BY <2>8, <3>1
        <3>. QED
            BY <2>4, <2>5, <2>6, <2>7, <3>2 DEF Matches
    <2>. QED
        BY <2>1, <2>9
<1>. QED
    BY <1>2, <1>3 DEF s

\* Looking first for a delimiter across the two, longest part in pending first,
\* and then in the chunk finds the one that a search of both together finds.
LEMMA CrossingFinds ==
    ASSUME NEW a \in Symbols, NEW c \in Symbols, IndexOf(a, 1) = 0
    PROVE  LET k == CrossingPrefix(a, c)
               e == IndexOf(c, 1)
               f == IndexOf(a \o c, 1)
           IN  /\ k \in Nat /\ e \in Nat
               /\ k > 0 => k <= Len(a) /\ k < D /\ D - k <= Len(c) /\ f = Len(a) - k + 1
               /\ k = 0 /\ e # 0 => f = Len(a) + e
               /\ k = 0 /\ e = 0 => f = 0
<1>. DEFINE s == a \o c
<1>1. Len(a) \in Nat /\ Len(c) \in Nat /\ s \in Symbols /\ Len(s) = Len(a) + Len(c)
    BY DEF Symbols
<1>2. PICK e \in Nat : e = IndexOf(c, 1)
    BY IndexOfFinds
<1>3. PICK K \in SUBSET (1 .. D) : K = Crossings(a, c)
    <2>1. Crossings(a, c) \subseteq 1 .. Min({Len(a), D - 1})
        BY DEF Crossings
    <2>2. Len(a) \in Nat /\ D - 1 \in Nat
        BY <1>1, DelimiterLength
    <2>3. {Len(a), D - 1} \in SUBSET Nat
        BY <2>2
    <2>4. PICK m \in {Len(a), D - 1} : m = Min({Len(a), D - 1}) /\ m <= D - 1
        BY <2>3, LeastNumber DEF Min
    <2>5. 1 .. m \subseteq 1 .. D
        BY <2>2, <2>4, DelimiterLength
    <2>. QED
        BY <2>1, <2>4, <2>5
<1>4. ASSUME NEW n \in K
      PROVE  n \in Nat /\ n >= 1 /\ n <= Len(a) /\ n < D /\ D - n <= Len(c)
    <2>1. n \in 1 .. Min({Len(a), D - 1}) /\ Len(c) >= D - n
        BY <1>3, <1>4 DEF Crossings
    <2>2. Len(a) \in Nat /\ D - 1 \in Nat
        BY <1>1, DelimiterLength
    <2>3. {Len(a), D - 1} \in SUBSET Nat
        BY <2>2
    <2>4. /\ Min({Len(a), D - 1}) \in {Len(a), D - 1}
          /\ Min({Len(a), D - 1}) <= D - 1 /\ Min({Len(a), D - 1}) <= Len(a)
        BY <2>3, LeastNumber DEF Min
    <2>5. n \in 1 .. D
        BY <1>3, <1>4
    <2>. QED
        BY <1>1, <2>1, <2>2, <2>4, <2>5, DelimiterLength
<1>5. ASSUME NEW i \in Nat, i >= 1, i <= Len(a), Matches(s, i)
      PROVE  Len(a) - i + 1 \in K
    <2>1. CASE i + D - 1 <= Len(a)
        <3>1. Matches(a, i)
            BY <1>5, <2>1, MatchesLonger
        <3>. QED
            BY <1>5, <3>1, IndexOfFinds
    <2>2. CASE ~(i + D - 1 <= Len(a))
        <3>1. i + D - 1 > Len(a)
            BY <1>1, <2>2, DelimiterLength
        <3>. QED
            BY <1>3, <1>5, <3>1, MatchesJoined
    <2>. QED
        BY <2>1, <2>2
<1>6. CrossingPrefix(a, c) = IF K = {} THEN 0 ELSE Max(K)
    BY <1>3 DEF CrossingPrefix
<1>7. CASE K = {}
    <2>1. CrossingPrefix(a, c) = 0
        BY <1>6, <1>7
    <2>2. \A i \in Nat : i >= 1 /\ i <= Len(a) => ~Matches(s, i)
        BY <1>5, <1>7
    <2>3. CASE e = 0
        <3>1. ASSUME NEW i \in Nat, i >= 1
              PROVE  ~Matches(s, i)
            <4>1. CASE i > Len(a)
                <5>1. i - Len(a) \in Nat /\ i - Len(a) >= 1
                    BY <1>1, <4>1
                <5>2. ~Matches(c, i - Len(a))
                    BY <1>2, <2>3, <5>1, IndexOfFinds
                <5>. QED
                    BY <3>1, <4>1, <5>2, MatchesJoined
            <4>. QED
                BY <1>1, <2>2, <3>1, <4>1
        <3>2. IndexOf(s, 1) = 0
            BY <1>1, <3>1, IndexOfIsNone
        <3>. QED
            BY <1>2, <2>1, <2>3, <3>2
    <2>4. CASE e # 0
        <3>1. Matches(c, e) /\ e >= 1 /\ \A i \in Nat : 1 <= i /\ i < e => ~Matches(c, i)
            BY <1>2, <2>4, IndexOfFinds
        <3>2. PICK f \in Nat : f = Len(a) + e
            BY <1>1
        <3>3. Matches(s, f)
            <4>1. f >= 1 /\ f > Len(a) /\ f - Len(a) = e
                BY <1>1, <3>1, <3>2
            <4>. QED
                BY <3>1, <4>1, MatchesJoined
        <3>4. ASSUME NEW i \in Nat, 1 <= i, i < f
              PROVE  ~Matches(s, i)
            <4>1. CASE i > Len(a)
                <5>1. i - Len(a) \in Nat /\ 1 <= i - Len(a) /\ i - Len(a) < e
                    BY <1>1, <3>2, <3>4, <4>1
                <5>. QED
                    BY <3>1, <3>4, <4>1, <5>1, MatchesJoined
            <4>. QED
                BY <1>1, <2>2, <3>4, <4>1
        <3>5. IndexOf(s, 1) = f
            BY <1>1, <3>1, <3>2, <3>3, <3>4, IndexOfIs
        <3>. QED
            BY <1>2, <2>1, <2>4, <3>2, <3>5
    <2>. QED
        BY <2>3, <2>4
<1>8. CASE K # {}
    <2>1. PICK k \in K : k = CrossingPrefix(a, c) /\ \A n \in K : k >= n
        <3>1. Max(K) \in K /\ \A n \in K : Max(K) >= n
            BY <1>8, GreatestNumber, DelimiterLength DEF Max
        <3>. QED
            BY <1>6, <1>8, <3>1
    <2>2. k \in Nat /\ k >= 1 /\ k <= Len(a) /\ k < D /\ D - k <= Len(c)
        BY <1>4
    <2>3. PICK f \in Nat : f = Len(a) - k + 1 /\ f >= 1 /\ f <= Len(a)
        BY <1>1, <2>2
    <2>4. Matches(s, f)
        <3>1. f + D - 1 > Len(a) /\ Len(a) - f + 1 = k
            BY <1>1, <2>2, <2>3, DelimiterLength
        <3>. QED
            BY <1>3, <2>1, <2>3, <3>1, MatchesJoined
    <2>5. ASSUME NEW i \in Nat, 1 <= i, i < f
          PROVE  ~Matches(s, i)
        <3>1. Matches(s, i) => Len(a) - i + 1 \in K
            BY <1>1, <1>5, <2>3, <2>5
        <3>2. Len(a) - i + 1 > k /\ Len(a) - i + 1 \in Nat
            BY <1>1, <2>2, <2>3, <2>5
        <3>. QED
            BY <2>1, <2>2, <3>1, <3>2
    <2>6. IndexOf(s, 1) = f
        BY <1>1, <2>3, <2>4, <2>5, IndexOfIs
    <2>. QED
        BY <1>2, <2>1, <2>2, <2>3, <2>6
<1>. QED
    BY <1>7, <1>8

-----------------------------------------------------------------------------
(* The invariant of one reader of the stream s *)

ReaderType ==
    [pc : {"idle", "read", "split", "decode", "extract", "complete", "direct", "failed"},
     out : Seq(Symbols), frames : Seq(Symbols),
     rest : Symbols, chunk : Symbols, at : Seq(Nat \ {0})]

\* The frame that begins at position x.
FrameAt(s, x) == SubSeq(s, x, IndexOf(s, x) - 1)

\* Every position is the one after the first delimiter from the position before.
Positions(s, at) ==
    /\ Len(at) >= 1 /\ at[1] = 1
    /\ \A i \in 1 .. Len(at) - 1 : IndexOf(s, at[i]) # 0 /\ at[i + 1] = IndexOf(s, at[i]) + D

\* What is cut are the frames of the stream at these positions.
FramesAreCut(s, d) ==
    /\ Len(d.out) + Len(d.frames) < Len(d.at)
    /\ d.pc # "failed" => Len(d.out) + Len(d.frames) + 1 = Len(d.at)
    /\ \A i \in DOMAIN d.out : d.out[i] = FrameAt(s, d.at[i])
    /\ \A i \in DOMAIN d.frames : d.frames[i] = FrameAt(s, d.at[Len(d.out) + i])

\* What is not cut is the rest of the stream; all frames are cut before the
\* reader decodes them or returns.
RestIsKept(s, d) ==
    /\ d.pc # "failed" => d.rest \o d.chunk = From(s, Last(d.at))
    /\ d.pc = "failed" => d.rest = <<>>
    /\ d.pc # "complete" => d.chunk = <<>>
    /\ d.pc = "complete" => IndexOf(d.rest, 1) = 0
    /\ d.pc \in {"idle", "decode"} => IndexOf(s, Last(d.at)) = 0
    /\ d.frames # <<>> => d.pc \in {"split", "extract", "decode"}

\* What is delivered and retained is what the reader accepts.
OnlyAccepted(r, d) ==
    /\ \A i \in DOMAIN d.out : Decodes(r, d.out[i])
    /\ d.pc = "idle" => Fits(r[2], d.rest)

\* The reader refuses the frame at position x, or the tail that begins there.
RefusedAt(s, r, x) ==
    IF IndexOf(s, x) # 0 THEN ~Decodes(r, FrameAt(s, x)) ELSE ~Fits(r[2], From(s, x))

\* A reader that has failed has refused what comes next; push(), which looks
\* at all sizes first, something that comes later.
RefusedWhy(s, r, d) ==
    /\ d.pc = "split" => r[1] = "push"
    /\ d.pc = "failed" =>
        \E n \in DOMAIN d.at :
            /\ n > Len(d.out) /\ RefusedAt(s, r, d.at[n])
            /\ n = Len(d.out) + 1 \/ (r[1] = "push" /\ r[2] # "fast")

RInv(s, r, d) ==
    /\ d \in ReaderType
    /\ Positions(s, d.at)
    /\ FramesAreCut(s, d)
    /\ RestIsKept(s, d)
    /\ OnlyAccepted(r, d)
    /\ RefusedWhy(s, r, d)

-----------------------------------------------------------------------------
(* Cutting one frame *)

\* What a slice of a stream is.
LEMMA Slice ==
    ASSUME NEW s \in Symbols, NEW a \in Nat, NEW b \in Nat, a >= 1, a <= b + 1, b <= Len(s),
           NEW n \in Nat, n = b - a + 1
    PROVE  /\ SubSeq(s, a, b) \in Symbols /\ Len(SubSeq(s, a, b)) = n
           /\ \A j \in 1 .. n : SubSeq(s, a, b)[j] = s[a + j - 1]
BY DEF Symbols

\* Positions lie in the stream, or just behind it.
LEMMA PositionBound ==
    ASSUME NEW s \in Symbols, NEW at \in Seq(Nat \ {0}), Positions(s, at), NEW i \in DOMAIN at
    PROVE  at[i] \in Nat /\ at[i] >= 1 /\ at[i] <= Len(s) + 1
<1>1. at[i] \in Nat /\ at[i] >= 1 /\ Len(s) \in Nat /\ Len(at) \in Nat /\ i \in 1 .. Len(at)
    BY DEF Symbols
<1>2. CASE i = 1
    BY <1>1, <1>2 DEF Positions
<1>3. CASE i # 1
    <2>1. PICK h \in 1 .. Len(at) - 1 : i = h + 1
        BY <1>1, <1>3
    <2>2. at[h] \in Nat /\ at[h] >= 1
        BY <1>1, <2>1
    <2>3. PICK e \in Nat : e = IndexOf(s, at[h])
        BY <2>2, IndexOfFinds
    <2>4. e # 0 /\ at[i] = e + D
        BY <2>1, <2>3 DEF Positions
    <2>5. Matches(s, e)
        BY <2>2, <2>3, <2>4, IndexOfFinds
    <2>6. e + D - 1 <= Len(s)
        BY <2>5 DEF Matches
    <2>. QED
        BY <1>1, <2>4, <2>6, DelimiterLength
<1>. QED
    BY <1>2, <1>3

\* The last position is one, too.
LEMMA LastPosition ==
    ASSUME NEW s \in Symbols, NEW at \in Seq(Nat \ {0}), Positions(s, at)
    PROVE  /\ Len(at) \in DOMAIN at /\ Last(at) = at[Len(at)]
           /\ Last(at) \in Nat /\ Last(at) >= 1 /\ Last(at) <= Len(s) + 1
<1>1. Len(at) \in DOMAIN at /\ Last(at) = at[Len(at)]
    BY DEF Positions, Last
<1>. QED
    BY <1>1, PositionBound

\* What comes before the first delimiter of the end of the stream is the next
\* frame of the stream, and what comes after it the end from the next position.
LEMMA NextFrame ==
    ASSUME NEW s \in Symbols, NEW x \in Nat, x >= 1, x <= Len(s) + 1,
           NEW e \in Nat, e = IndexOf(From(s, x), 1), e # 0
    PROVE  LET t == From(s, x)
               frame == SubSeq(t, 1, e - 1)
           IN  /\ IndexOf(s, x) # 0
               /\ frame = FrameAt(s, x) /\ frame \in Symbols /\ Len(frame) = e - 1
               /\ x + Len(frame) = IndexOf(s, x)
               /\ SubSeq(t, e + D, Len(t)) = From(s, IndexOf(s, x) + D)
<1>. DEFINE t == From(s, x)
            frame == SubSeq(t, 1, e - 1)
<1>1. /\ t \in Symbols /\ Len(t) = Len(s) - x + 1 /\ Len(s) \in Nat /\ Len(t) \in Nat
      /\ \A j \in 1 .. Len(t) : t[j] = s[x + j - 1]
    <2>1. t \in Symbols /\ Len(t) = Len(s) - x + 1 /\ Len(s) \in Nat
        BY IndexOfFrom DEF Symbols
    <2>2. \A j \in 1 .. Len(t) : t[j] = s[x + j - 1]
        BY DEF From, Symbols
    <2>. QED
        BY <2>1, <2>2 DEF Symbols
<1>2. t = From(s, x)
    OBVIOUS
<1>. HIDE DEF t
<1>3. PICK f \in Nat : f = IndexOf(s, x)
    BY IndexOfFinds
<1>4. f # 0 /\ e = f - x + 1
    BY <1>2, <1>3, IndexOfFrom
<1>5. e + D - 1 <= Len(t) /\ e >= 1
    <2>1. Matches(t, e)
        BY <1>1, <1>2, IndexOfFinds
    <2>. QED
        BY <2>1 DEF Matches
<1>6. frame \in Symbols /\ Len(frame) = e - 1 /\ \A j \in 1 .. e - 1 : frame[j] = t[j]
    BY <1>1, <1>5, DelimiterLength DEF Symbols
<1>7. frame = FrameAt(s, x)
    <2>. DEFINE g == SubSeq(s, x, f - 1)
    <2>1. g \in Symbols /\ Len(g) = e - 1 /\ \A j \in 1 .. e - 1 : g[j] = s[x + j - 1]
        <3>1. f - 1 <= Len(s) /\ f - 1 \in Nat /\ (f - 1) - x + 1 = e - 1
            BY <1>1, <1>4, <1>5, DelimiterLength
        <3>2. g \in Symbols /\ Len(g) = (f - 1) - x + 1
            BY <1>4, <1>5, <3>1 DEF Symbols
        <3>3. \A j \in 1 .. (f - 1) - x + 1 : g[j] = s[x + j - 1]
            BY <1>4, <1>5, <3>1 DEF Symbols
        <3>. QED
            BY <3>1, <3>2, <3>3
    <2>2. \A j \in 1 .. e - 1 : j \in 1 .. Len(t)
        BY <1>1, <1>5, DelimiterLength
    <2>. HIDE DEF g, frame
    <2>3. e - 1 \in Nat /\ \A j \in 1 .. e - 1 : frame[j] = g[j]
        BY <1>1, <1>5, <1>6, <2>1, <2>2
    <2>4. frame = g
        BY <1>6, <2>1, <2>3, SameSeq DEF Symbols
    <2>. QED
        BY <1>3, <2>4 DEF g, FrameAt
<1>8. PICK y \in Nat \ {0} : y = x + Len(frame) + D /\ y = f + D /\ y <= Len(s) + 1 /\ y = x + (e + D) - 1
    <2>1. Len(frame) = e - 1
        BY <1>6
    <2>. HIDE DEF frame
    <2>2. x + Len(frame) + D = f + D /\ f + D \in Nat \ {0} /\ f + D <= Len(s) + 1
        BY <1>1, <1>4, <1>5, <2>1, DelimiterLength
    <2>3. f + D = x + (e + D) - 1
        BY <1>4, DelimiterLength
    <2>. QED
        BY <2>2, <2>3
<1>. HIDE DEF frame
<1>9. SubSeq(t, e + D, Len(t)) = From(s, y)
    <2>1. PICK m \in Nat : m = Len(s)
        BY <1>1
    <2>2. PICK l \in Nat : l = Len(t)
        BY <1>1
    <2>3. PICK z \in Nat : z = e + D
        BY DelimiterLength
    <2>4. z >= 1 /\ z <= l + 1
        BY <1>5, <2>2, <2>3, DelimiterLength
    <2>5. PICK n \in Nat : n = l - z + 1
        BY <2>4
    <2>6. y \in Nat /\ y >= 1 /\ y = x + z - 1 /\ y <= m + 1
        BY <1>8, <2>1, <2>3
    <2>7. l = m - x + 1
        BY <1>1, <2>1, <2>2
    <2>8. n = m - y + 1
        BY <2>5, <2>6, <2>7
    <2>9. PICK u \in Symbols :
             u = SubSeq(t, z, l) /\ Len(u) = n /\ \A j \in 1 .. n : u[j] = t[z + j - 1]
        <3>1. t \in Symbols /\ l <= Len(t)
            BY <1>1, <2>2
        <3>2. /\ SubSeq(t, z, l) \in Symbols /\ Len(SubSeq(t, z, l)) = n
              /\ \A j \in 1 .. n : SubSeq(t, z, l)[j] = t[z + j - 1]
            BY <2>4, <2>5, <3>1, Slice
        <3>. QED
            BY <3>2
    <2>10. PICK v \in Symbols :
             v = SubSeq(s, y, m) /\ Len(v) = n /\ \A j \in 1 .. n : v[j] = s[y + j - 1]
        <3>1. m <= Len(s)
            BY <2>1
        <3>2. /\ SubSeq(s, y, m) \in Symbols /\ Len(SubSeq(s, y, m)) = n
              /\ \A j \in 1 .. n : SubSeq(s, y, m)[j] = s[y + j - 1]
            BY <2>6, <2>8, <3>1, Slice
        <3>. QED
            BY <3>2
    <2>11. ASSUME NEW j \in 1 .. n
          PROVE  u[j] = v[j]
        <3>1. z + j - 1 \in 1 .. l /\ x + (z + j - 1) - 1 = y + j - 1
            BY <2>5, <2>4, <2>6, <2>7
        <3>. QED
            BY <1>1, <2>2, <2>9, <2>10, <3>1
    <2>12. u = v
        BY <2>9, <2>10, <2>11, SameSeq DEF Symbols
    <2>. QED
        BY <2>1, <2>2, <2>3, <2>9, <2>10, <2>12 DEF From
<1>10. IndexOf(s, x) # 0 /\ x + Len(frame) = IndexOf(s, x)
    BY <1>3, <1>4, <1>6
<1>11. SubSeq(t, e + D, Len(t)) = From(s, IndexOf(s, x) + D)
    BY <1>3, <1>8, <1>9
<1>. QED
    BY <1>2, <1>6, <1>7, <1>10, <1>11 DEF frame

\* One more position.
LEMMA MorePositions ==
    ASSUME NEW s \in Symbols, NEW at \in Seq(Nat \ {0}), Positions(s, at),
           IndexOf(s, Last(at)) # 0, NEW y \in Nat \ {0}, y = IndexOf(s, Last(at)) + D
    PROVE  /\ Append(at, y) \in Seq(Nat \ {0}) /\ Len(Append(at, y)) = Len(at) + 1
           /\ Positions(s, Append(at, y)) /\ Last(Append(at, y)) = y
           /\ \A i \in DOMAIN at : Append(at, y)[i] = at[i]
<1>. DEFINE b == Append(at, y)
<1>1. /\ b \in Seq(Nat \ {0}) /\ Len(b) = Len(at) + 1 /\ b[Len(at) + 1] = y
      /\ \A i \in 1 .. Len(at) : b[i] = at[i]
    OBVIOUS
<1>2. PICK n \in Nat : n = Len(at) /\ n >= 1 /\ DOMAIN at = 1 .. n
    BY DEF Positions
<1>. HIDE DEF b
<1>3. Last(b) = y
    BY <1>1 DEF Last
<1>4. ASSUME NEW i \in 1 .. n
      PROVE  IndexOf(s, b[i]) # 0 /\ b[i + 1] = IndexOf(s, b[i]) + D
    <2>1. CASE i = n
        BY <1>1, <1>2, <2>1 DEF Last
    <2>2. CASE i # n
        <3>1. i \in 1 .. n - 1 /\ i + 1 \in 1 .. n
            BY <2>2
        <3>. QED
            BY <1>1, <1>2, <3>1 DEF Positions
    <2>. QED
        BY <2>1, <2>2
<1>5. Len(b) = n + 1 /\ (n + 1) - 1 = n /\ n + 1 >= 1 /\ b[1] = 1
    BY <1>1, <1>2 DEF Positions
<1>6. Positions(s, b)
    BY <1>4, <1>5 DEF Positions
<1>. QED
    BY <1>1, <1>2, <1>3, <1>6 DEF b

-----------------------------------------------------------------------------
(* What an iteration does to the invariant *)

\* A list with one more element.
LEMMA Appended ==
    ASSUME NEW S, NEW q \in Seq(S), NEW x \in S
    PROVE  /\ Append(q, x) \in Seq(S) /\ Len(q) \in Nat /\ Len(Append(q, x)) = Len(q) + 1
           /\ DOMAIN Append(q, x) = 1 .. Len(q) + 1 /\ DOMAIN q = 1 .. Len(q)
           /\ \A i \in 1 .. Len(q) : Append(q, x)[i] = q[i]
           /\ Append(q, x)[Len(q) + 1] = x
OBVIOUS

\* A list without its first element.
LEMMA Tailed ==
    ASSUME NEW S, NEW q \in Seq(S), q # <<>>
    PROVE  /\ Tail(q) \in Seq(S) /\ Len(q) \in Nat /\ Len(q) >= 1 /\ Len(Tail(q)) = Len(q) - 1
           /\ DOMAIN Tail(q) = 1 .. Len(q) - 1 /\ DOMAIN q = 1 .. Len(q)
           /\ \A i \in 1 .. Len(q) - 1 : Tail(q)[i] = q[i + 1]
           /\ Head(q) = q[1] /\ Head(q) \in S
OBVIOUS

\* The next frame is cut off and delivered.
LEMMA Delivers ==
    ASSUME NEW s \in Symbols, NEW r \in Readers, NEW d, RInv(s, r, d),
           d.pc # "failed", d.frames = <<>>, IndexOf(s, Last(d.at)) # 0,
           NEW frame \in Symbols, frame = FrameAt(s, Last(d.at)), Decodes(r, frame),
           NEW y \in Nat \ {0}, y = IndexOf(s, Last(d.at)) + D,
           NEW g \in ReaderType, g.pc \in {"read", "direct"}, g.frames = <<>>, g.chunk = <<>>,
           g.rest = From(s, y), g.at = Append(d.at, y), g.out = Append(d.out, frame)
    PROVE  RInv(s, r, g)
<1>1. d \in ReaderType /\ Positions(s, d.at)
    BY DEF RInv
<1>2. d.at \in Seq(Nat \ {0}) /\ d.out \in Seq(Symbols)
    BY <1>1 DEF ReaderType
<1>3. /\ Len(g.at) = Len(d.at) + 1 /\ Positions(s, g.at) /\ Last(g.at) = y
      /\ \A i \in DOMAIN d.at : g.at[i] = d.at[i]
    BY <1>1, <1>2, MorePositions
<1>4. PICK n \in Nat : n = Len(d.out) /\ Len(d.at) = n + 1 /\ DOMAIN d.at = 1 .. n + 1
    <2>1. Len(d.out) \in Nat /\ Len(d.at) \in Nat /\ DOMAIN d.at = 1 .. Len(d.at)
        BY <1>2
    <2>2. Len(d.out) + Len(d.frames) + 1 = Len(d.at) /\ Len(d.frames) = 0
        BY DEF RInv, FramesAreCut
    <2>. QED
        BY <2>1, <2>2
<1>5. /\ Len(g.out) = n + 1 /\ DOMAIN g.out = 1 .. n + 1 /\ DOMAIN d.out = 1 .. n
      /\ \A i \in 1 .. n : g.out[i] = d.out[i]
      /\ g.out[n + 1] = frame
    BY <1>2, <1>4, Appended
<1>6. Last(d.at) = d.at[n + 1]
    BY <1>4 DEF Last
<1>7. FramesAreCut(s, g)
    <2>1. Len(g.frames) = 0 /\ DOMAIN g.frames = {}
        OBVIOUS
    <2>2. ASSUME NEW i \in 1 .. n + 1
          PROVE  g.out[i] = FrameAt(s, g.at[i])
        <3>1. CASE i = n + 1
            BY <1>3, <1>4, <1>5, <1>6, <3>1
        <3>2. CASE i # n + 1
            <4>1. i \in 1 .. n
                BY <3>2
            <4>2. d.out[i] = FrameAt(s, d.at[i])
                BY <1>5, <4>1 DEF RInv, FramesAreCut
            <4>. QED
                BY <1>3, <1>4, <1>5, <4>1, <4>2
        <3>. QED
            BY <3>1, <3>2
    <2>3. Len(g.out) + Len(g.frames) < Len(g.at) /\ Len(g.out) + Len(g.frames) + 1 = Len(g.at)
        BY <1>3, <1>4, <1>5, <2>1
    <2>. QED
        BY <1>5, <2>1, <2>2, <2>3 DEF FramesAreCut
<1>8. RestIsKept(s, g)
    <2>1. g.rest \in Symbols
        BY DEF ReaderType
    <2>2. g.rest \o g.chunk = g.rest
        BY <2>1 DEF Symbols
    <2>. QED
        BY <1>3, <2>2 DEF RestIsKept
<1>9. OnlyAccepted(r, g)
    <2>1. ASSUME NEW i \in 1 .. n + 1
          PROVE  Decodes(r, g.out[i])
        <3>1. CASE i = n + 1
            BY <1>5, <3>1
        <3>2. CASE i # n + 1
            <4>1. i \in 1 .. n
                BY <3>2
            <4>. QED
                BY <1>5, <4>1 DEF RInv, OnlyAccepted
        <3>. QED
            BY <3>1, <3>2
    <2>. QED
        BY <1>5, <2>1 DEF OnlyAccepted
<1>10. RefusedWhy(s, r, g)
    BY DEF RefusedWhy
<1>. QED
    BY <1>3, <1>7, <1>8, <1>9, <1>10 DEF RInv

\* The next frame is cut off and put aside.
LEMMA Collects ==
    ASSUME NEW s \in Symbols, NEW r \in Readers, NEW d, RInv(s, r, d),
           d.pc \in {"split", "extract"}, IndexOf(s, Last(d.at)) # 0,
           NEW frame \in Symbols, frame = FrameAt(s, Last(d.at)),
           NEW y \in Nat \ {0}, y = IndexOf(s, Last(d.at)) + D,
           NEW g \in ReaderType, g.pc = d.pc, g.out = d.out, g.chunk = d.chunk,
           g.rest = From(s, y), g.at = Append(d.at, y), g.frames = Append(d.frames, frame)
    PROVE  RInv(s, r, g)
<1>1. d \in ReaderType /\ Positions(s, d.at)
    BY DEF RInv
<1>2. d.at \in Seq(Nat \ {0}) /\ d.out \in Seq(Symbols) /\ d.frames \in Seq(Symbols)
    BY <1>1 DEF ReaderType
<1>3. /\ Len(g.at) = Len(d.at) + 1 /\ Positions(s, g.at) /\ Last(g.at) = y
      /\ \A i \in DOMAIN d.at : g.at[i] = d.at[i]
    BY <1>1, <1>2, MorePositions
<1>4. PICK n \in Nat : n = Len(d.out) /\ DOMAIN d.out = 1 .. n
    BY <1>2
<1>5. PICK m \in Nat : m = Len(d.frames)
    BY <1>2
<1>6. Len(d.at) = n + m + 1 /\ DOMAIN d.at = 1 .. n + m + 1
    <2>1. Len(d.out) + Len(d.frames) + 1 = Len(d.at)
        BY DEF RInv, FramesAreCut
    <2>2. DOMAIN d.at = 1 .. Len(d.at)
        BY <1>2
    <2>. QED
        BY <1>4, <1>5, <2>1, <2>2
<1>7. /\ Len(g.frames) = m + 1 /\ DOMAIN g.frames = 1 .. m + 1 /\ DOMAIN d.frames = 1 .. m
      /\ \A i \in 1 .. m : g.frames[i] = d.frames[i]
      /\ g.frames[m + 1] = frame
    BY <1>2, <1>5, Appended
<1>8. Last(d.at) = d.at[n + (m + 1)]
    BY <1>6 DEF Last
<1>9. FramesAreCut(s, g)
    <2>1. ASSUME NEW i \in 1 .. n
          PROVE  g.out[i] = FrameAt(s, g.at[i])
        <3>0. i \in 1 .. n + m + 1
            OBVIOUS
        <3>1. i \in DOMAIN d.at
            BY <1>6, <3>0
        <3>2. d.out[i] = FrameAt(s, d.at[i])
            BY <1>4 DEF RInv, FramesAreCut
        <3>. QED
            BY <1>3, <3>1, <3>2
    <2>2. ASSUME NEW i \in 1 .. m + 1
          PROVE  g.frames[i] = FrameAt(s, g.at[n + i])
        <3>1. n + i \in DOMAIN d.at
            BY <1>6
        <3>2. CASE i = m + 1
            BY <1>3, <1>7, <1>8, <3>1, <3>2
        <3>3. CASE i # m + 1
            <4>1. i \in 1 .. m
                BY <3>3
            <4>2. d.frames[i] = FrameAt(s, d.at[n + i])
                BY <1>4, <1>7, <4>1 DEF RInv, FramesAreCut
            <4>. QED
                BY <1>3, <1>7, <3>1, <4>1, <4>2
        <3>. QED
            BY <3>2, <3>3
    <2>3. Len(g.out) + Len(g.frames) < Len(g.at) /\ Len(g.out) + Len(g.frames) + 1 = Len(g.at)
        <3>1. Len(g.out) = n /\ Len(g.frames) = m + 1 /\ Len(g.at) = (n + m + 1) + 1
            BY <1>3, <1>4, <1>6, <1>7
        <3>2. n + (m + 1) < (n + m + 1) + 1 /\ n + (m + 1) + 1 = (n + m + 1) + 1
            OBVIOUS
        <3>. QED
            BY <3>1, <3>2
    <2>. QED
        BY <1>4, <1>7, <2>1, <2>2, <2>3 DEF FramesAreCut
<1>10. RestIsKept(s, g)
    <2>1. g.rest \in Symbols /\ g.chunk = <<>>
        BY DEF ReaderType, RInv, RestIsKept
    <2>2. g.rest \o g.chunk = g.rest
        BY <2>1 DEF Symbols
    <2>. QED
        BY <1>3, <2>1, <2>2 DEF RestIsKept
<1>11. OnlyAccepted(r, g)
    BY DEF RInv, OnlyAccepted
<1>12. RefusedWhy(s, r, g)
    BY DEF RInv, RefusedWhy
<1>. QED
    BY <1>3, <1>9, <1>10, <1>11, <1>12 DEF RInv

\* The reader throws for what it has refused.
LEMMA Fails ==
    ASSUME NEW s \in Symbols, NEW r \in Readers, NEW d, RInv(s, r, d),
           NEW n \in DOMAIN d.at, n > Len(d.out), RefusedAt(s, r, d.at[n]),
           n = Len(d.out) + 1 \/ (r[1] = "push" /\ r[2] # "fast")
    PROVE  RInv(s, r, Fail(d))
<1>. DEFINE g == Fail(d)
<1>1. d \in ReaderType
    BY DEF RInv
<1>2. <<>> \in Symbols /\ <<>> \in Seq(Symbols)
    BY DEF Symbols
<1>3. /\ g \in ReaderType /\ g.pc = "failed" /\ g.frames = <<>> /\ g.rest = <<>> /\ g.chunk = <<>>
      /\ g.out = d.out /\ g.at = d.at
    BY <1>1, <1>2 DEF Fail, ReaderType
<1>. HIDE DEF g
<1>4. FramesAreCut(s, g)
    <2>1. Len(g.frames) = 0 /\ DOMAIN g.frames = {}
        BY <1>3
    <2>2. d.out \in Seq(Symbols) /\ d.frames \in Seq(Symbols) /\ d.at \in Seq(Nat \ {0})
        BY <1>1 DEF ReaderType
    <2>3. Len(d.out) \in Nat /\ Len(d.frames) \in Nat /\ Len(d.at) \in Nat
        BY <2>2
    <2>4. Len(g.out) + Len(g.frames) < Len(g.at)
        BY <1>3, <2>1, <2>3 DEF RInv, FramesAreCut
    <2>. QED
        BY <1>3, <2>1, <2>4 DEF RInv, FramesAreCut
<1>5. RestIsKept(s, g)
    BY <1>3 DEF RestIsKept
<1>6. OnlyAccepted(r, g)
    BY <1>3 DEF RInv, OnlyAccepted
<1>7. RefusedWhy(s, r, g)
    BY <1>3 DEF RefusedWhy
<1>. QED
    BY <1>3, <1>4, <1>5, <1>6, <1>7 DEF RInv, g

\* Everything is cut, and the rest is kept or refused.
LEMMA Keeps ==
    ASSUME NEW s \in Symbols, NEW r \in Readers, NEW d, RInv(s, r, d),
           d.pc # "failed", d.frames = <<>>, IndexOf(s, Last(d.at)) = 0,
           NEW g \in ReaderType, g.out = d.out, g.at = d.at, g.frames = <<>>, g.chunk = <<>>,
           g.rest = From(s, Last(d.at))
    PROVE  RInv(s, r, Keep(r[2], g))
<1>1. d \in ReaderType /\ Positions(s, d.at)
    BY DEF RInv
<1>2. d.at \in Seq(Nat \ {0}) /\ d.out \in Seq(Symbols)
    BY <1>1 DEF ReaderType
<1>3. PICK n \in Nat : n = Len(d.out) /\ Len(d.at) = n + 1 /\ DOMAIN d.at = 1 .. n + 1
    <2>1. Len(d.out) \in Nat /\ Len(d.at) \in Nat /\ DOMAIN d.at = 1 .. Len(d.at)
        BY <1>2
    <2>2. Len(d.out) + Len(d.frames) + 1 = Len(d.at) /\ Len(d.frames) = 0
        BY DEF RInv, FramesAreCut
    <2>. QED
        BY <2>1, <2>2
<1>4. Last(d.at) = d.at[n + 1]
    BY <1>3 DEF Last
<1>5. CASE Fits(r[2], g.rest)
    <2>. DEFINE h == [g EXCEPT !.pc = "idle"]
    <2>1. /\ h \in ReaderType /\ h.pc = "idle" /\ h.out = d.out /\ h.at = d.at
          /\ h.frames = <<>> /\ h.chunk = <<>> /\ h.rest = g.rest
        BY DEF ReaderType
    <2>. HIDE DEF h
    <2>2. FramesAreCut(s, h)
        BY <1>3, <2>1 DEF RInv, FramesAreCut
    <2>3. h.rest \o h.chunk = h.rest
        BY <2>1 DEF ReaderType, Symbols
    <2>4. RestIsKept(s, h)
        BY <2>1, <2>3 DEF RestIsKept
    <2>5. OnlyAccepted(r, h)
        BY <1>5, <2>1 DEF RInv, OnlyAccepted
    <2>6. RefusedWhy(s, r, h)
        BY <2>1 DEF RefusedWhy
    <2>7. RInv(s, r, h)
        BY <1>1, <2>1, <2>2, <2>4, <2>5, <2>6 DEF RInv
    <2>. QED
        BY <1>5, <2>7 DEF Keep, h
<1>6. CASE ~Fits(r[2], g.rest)
    <2>1. RefusedAt(s, r, d.at[n + 1])
        BY <1>4, <1>6 DEF RefusedAt
    <2>2. RInv(s, r, Fail(d))
        BY <1>3, <2>1, Fails
    <2>3. Fail(g) = Fail(d)
        BY <1>1 DEF Fail, ReaderType
    <2>. QED
        BY <1>6, <2>2, <2>3 DEF Keep
<1>. QED
    BY <1>5, <1>6

\* A reader that has not failed, and keeps no chunk apart: its rest is the end
\* of the stream, and a search of it is one of the stream.
LEMMA AtWork ==
    ASSUME NEW s \in Symbols, NEW r \in Readers, NEW d, RInv(s, r, d), d.pc \notin {"failed", "complete"}
    PROVE  /\ d \in ReaderType /\ d.rest \in Symbols /\ d.chunk = <<>>
           /\ d.rest = From(s, Last(d.at)) /\ IndexOf(d.rest, 1) \in Nat
           /\ IndexOf(d.rest, 1) = 0 <=> IndexOf(s, Last(d.at)) = 0
<1>1. d \in ReaderType /\ Positions(s, d.at)
    BY DEF RInv
<1>2. d.rest \in Symbols /\ d.at \in Seq(Nat \ {0})
    BY <1>1 DEF ReaderType
<1>3. d.chunk = <<>> /\ d.rest \o d.chunk = From(s, Last(d.at))
    BY DEF RInv, RestIsKept
<1>4. d.rest = From(s, Last(d.at))
    BY <1>2, <1>3 DEF Symbols
<1>5. Last(d.at) \in Nat /\ Last(d.at) >= 1 /\ Last(d.at) <= Len(s) + 1
    BY <1>1, <1>2, LastPosition
<1>6. IndexOf(From(s, Last(d.at)), 1) = 0 <=> IndexOf(s, Last(d.at)) = 0
    BY <1>5, IndexOfFrom
<1>. QED
    BY <1>1, <1>2, <1>3, <1>4, <1>6, IndexOfFinds

\* The next frame of such a reader.
LEMMA AtFrame ==
    ASSUME NEW s \in Symbols, NEW at \in Seq(Nat \ {0}), Positions(s, at),
           NEW t, t = From(s, Last(at)), NEW e \in Nat, e = IndexOf(t, 1), e # 0
    PROVE  LET frame == SubSeq(t, 1, e - 1)
               y == Last(at) + Len(frame) + D
           IN  /\ IndexOf(s, Last(at)) # 0
               /\ frame \in Symbols /\ frame = FrameAt(s, Last(at))
               /\ y \in Nat \ {0} /\ y = IndexOf(s, Last(at)) + D
               /\ Append(at, y) \in Seq(Nat \ {0})
               /\ SubSeq(t, e + D, Len(t)) = From(s, y) /\ From(s, y) \in Symbols
<1>1. PICK x \in Nat : x = Last(at) /\ x >= 1 /\ x <= Len(s) + 1
    BY LastPosition
<1>2. PICK frame : frame = SubSeq(t, 1, e - 1)
    OBVIOUS
<1>3. /\ IndexOf(s, x) # 0
      /\ frame \in Symbols /\ frame = FrameAt(s, x)
      /\ x + Len(frame) + D = IndexOf(s, x) + D
      /\ x + Len(frame) + D \in Nat \ {0}
      /\ SubSeq(t, e + D, Len(t)) = From(s, x + Len(frame) + D)
    <2>1. PICK u : u = From(s, x)
        OBVIOUS
    <2>2. u = t /\ e = IndexOf(u, 1) /\ frame = SubSeq(u, 1, e - 1)
        BY <1>1, <1>2, <2>1
    <2>3. IndexOf(s, x) # 0 /\ frame \in Symbols /\ frame = FrameAt(s, x)
        BY <1>1, <2>1, <2>2, NextFrame
    <2>4. x + Len(frame) = IndexOf(s, x) /\ Len(frame) \in Nat
        BY <1>1, <2>1, <2>2, <2>3, NextFrame DEF Symbols
    <2>5. SubSeq(u, e + D, Len(u)) = From(s, IndexOf(s, x) + D)
        BY <1>1, <2>1, <2>2, NextFrame
    <2>6. x + Len(frame) + D = IndexOf(s, x) + D
        BY <2>4
    <2>7. x + Len(frame) + D \in Nat \ {0}
        BY <1>1, <2>4, DelimiterLength
    <2>8. SubSeq(t, e + D, Len(t)) = From(s, x + Len(frame) + D)
        BY <2>2, <2>5, <2>6
    <2>. QED
        BY <2>3, <2>6, <2>7, <2>8
<1>4. PICK y \in Nat \ {0} : y = x + Len(frame) + D
    BY <1>3
<1>5. Append(at, y) \in Seq(Nat \ {0}) /\ Positions(s, Append(at, y)) /\ Last(Append(at, y)) = y
    BY <1>1, <1>3, <1>4, MorePositions
<1>6. y \in Nat /\ y >= 1 /\ y <= Len(s) + 1
    BY <1>5, LastPosition
<1>7. From(s, y) \in Symbols
    BY <1>6, IndexOfFrom
<1>. QED
    BY <1>1, <1>2, <1>3, <1>4, <1>5, <1>7

\* The position where the reader is.
LEMMA AtLast ==
    ASSUME NEW s \in Symbols, NEW r \in Readers, NEW d, RInv(s, r, d), d.pc # "failed", d.frames = <<>>
    PROVE  /\ Len(d.out) + 1 \in DOMAIN d.at /\ Last(d.at) = d.at[Len(d.out) + 1]
           /\ Len(d.out) \in Nat /\ Len(d.out) + 1 = Len(d.at)
<1>1. d.at \in Seq(Nat \ {0}) /\ d.out \in Seq(Symbols)
    BY DEF RInv, ReaderType
<1>2. Len(d.out) + Len(d.frames) + 1 = Len(d.at) /\ Len(d.frames) = 0
    BY DEF RInv, FramesAreCut
<1>3. Len(d.out) \in Nat /\ Len(d.at) \in Nat /\ DOMAIN d.at = 1 .. Len(d.at)
    BY <1>1
<1>4. Len(d.out) + 1 = Len(d.at)
    BY <1>2, <1>3
<1>. QED
    BY <1>3, <1>4 DEF Last

\* A step of read() and of decode_direct.
LEMMA ReadFrameInv ==
    ASSUME NEW s \in Symbols, NEW r \in Readers, NEW d, RInv(s, r, d), d.pc \in {"read", "direct"}
    PROVE  RInv(s, r, ReadFrame(r, d))
<1>1. d.frames = <<>>
    BY DEF RInv, RestIsKept
<1>2. /\ d \in ReaderType /\ d.rest \in Symbols /\ d.chunk = <<>>
      /\ d.rest = From(s, Last(d.at)) /\ IndexOf(d.rest, 1) \in Nat
      /\ IndexOf(d.rest, 1) = 0 <=> IndexOf(s, Last(d.at)) = 0
    BY AtWork
<1>3. PICK e \in Nat : e = IndexOf(d.rest, 1)
    BY <1>2
<1>4. CASE e = 0
    <2>1. RInv(s, r, Keep(r[2], d))
        BY <1>1, <1>2, <1>3, <1>4, Keeps
    <2>. QED
        BY <1>3, <1>4, <2>1 DEF ReadFrame
<1>5. CASE e # 0
    <2>. DEFINE f == SubSeq(d.rest, 1, e - 1)
                z == SubSeq(d.rest, e + D, Len(d.rest))
    <2>1. d.at \in Seq(Nat \ {0}) /\ Positions(s, d.at) /\ d.out \in Seq(Symbols)
        BY <1>2 DEF RInv, ReaderType
    <2>2. /\ IndexOf(s, Last(d.at)) # 0
          /\ f \in Symbols /\ f = FrameAt(s, Last(d.at))
          /\ Last(d.at) + Len(f) + D \in Nat \ {0}
          /\ Last(d.at) + Len(f) + D = IndexOf(s, Last(d.at)) + D
          /\ Append(d.at, Last(d.at) + Len(f) + D) \in Seq(Nat \ {0})
          /\ z = From(s, Last(d.at) + Len(f) + D) /\ From(s, Last(d.at) + Len(f) + D) \in Symbols
        BY <1>2, <1>3, <1>5, <2>1, AtFrame
    <2>3. ReadFrame(r, d) =
             IF Decodes(r, f) THEN Deliver(Cut(d, f, z), f) ELSE Fail(d)
        BY <1>3, <1>5 DEF ReadFrame
    <2>. HIDE DEF f, z
    <2>4. PICK y \in Nat \ {0} : y = Last(d.at) + Len(f) + D
        BY <2>2
    <2>5. CASE Decodes(r, f)
        <3>. DEFINE g == Deliver(Cut(d, f, z), f)
        <3>1. Append(d.out, f) \in Seq(Symbols) /\ Append(d.at, y) \in Seq(Nat \ {0}) /\ z \in Symbols
            BY <2>1, <2>2, <2>4
        <3>2. g = [d EXCEPT !.rest = z, !.at = Append(d.at, y), !.out = Append(d.out, f)]
            BY <1>2, <2>4 DEF Deliver, Cut, ReaderType
        <3>3. /\ g \in ReaderType /\ g.pc = d.pc /\ g.frames = d.frames /\ g.chunk = d.chunk
              /\ g.rest = z /\ g.at = Append(d.at, y) /\ g.out = Append(d.out, f)
            BY <1>2, <3>1, <3>2 DEF ReaderType
        <3>. HIDE DEF g
        <3>4. RInv(s, r, g)
            BY <1>1, <1>2, <2>2, <2>4, <2>5, <3>3, Delivers
        <3>. QED
            BY <2>3, <2>5, <3>4 DEF g
    <2>6. CASE ~Decodes(r, f)
        <3>1. RefusedAt(s, r, Last(d.at))
            BY <2>2, <2>6 DEF RefusedAt
        <3>2. Len(d.out) + 1 \in DOMAIN d.at /\ Last(d.at) = d.at[Len(d.out) + 1] /\ Len(d.out) \in Nat
            BY <1>1, AtLast
        <3>3. Len(d.out) + 1 > Len(d.out)
            BY <3>2
        <3>4. RInv(s, r, Fail(d))
            BY <3>1, <3>2, <3>3, Fails
        <3>. QED
            BY <2>3, <2>6, <3>4
    <2>. QED
        BY <2>5, <2>6
<1>. QED
    BY <1>4, <1>5

\* A frame is put aside by push() or extract.
LEMMA CollectInv ==
    ASSUME NEW s \in Symbols, NEW r \in Readers, NEW d, RInv(s, r, d), d.pc \in {"split", "extract"},
           NEW e \in Nat, e = IndexOf(d.rest, 1), e # 0, NEW f, f = SubSeq(d.rest, 1, e - 1)
    PROVE  RInv(s, r, [Cut(d, f, SubSeq(d.rest, e + D, Len(d.rest))) EXCEPT !.frames = Append(@, f)])
<1>. DEFINE z == SubSeq(d.rest, e + D, Len(d.rest))
<1>1. d \in ReaderType /\ d.rest = From(s, Last(d.at))
    BY AtWork
<1>2. d.at \in Seq(Nat \ {0}) /\ Positions(s, d.at) /\ d.frames \in Seq(Symbols)
    BY <1>1 DEF RInv, ReaderType
<1>3. /\ IndexOf(s, Last(d.at)) # 0
      /\ f \in Symbols /\ f = FrameAt(s, Last(d.at))
      /\ Last(d.at) + Len(f) + D \in Nat \ {0}
      /\ Last(d.at) + Len(f) + D = IndexOf(s, Last(d.at)) + D
      /\ Append(d.at, Last(d.at) + Len(f) + D) \in Seq(Nat \ {0})
      /\ z = From(s, Last(d.at) + Len(f) + D) /\ From(s, Last(d.at) + Len(f) + D) \in Symbols
    BY <1>1, <1>2, AtFrame
<1>. HIDE DEF z
<1>4. PICK y \in Nat \ {0} : y = Last(d.at) + Len(f) + D
    BY <1>3
<1>. DEFINE g == [Cut(d, f, z) EXCEPT !.frames = Append(@, f)]
<1>5. Append(d.frames, f) \in Seq(Symbols) /\ Append(d.at, y) \in Seq(Nat \ {0}) /\ z \in Symbols
    BY <1>2, <1>3, <1>4
<1>6. g = [d EXCEPT !.rest = z, !.at = Append(d.at, y), !.frames = Append(d.frames, f)]
    BY <1>1, <1>4 DEF Cut, ReaderType
<1>7. /\ g \in ReaderType /\ g.pc = d.pc /\ g.out = d.out /\ g.chunk = d.chunk
      /\ g.rest = z /\ g.at = Append(d.at, y) /\ g.frames = Append(d.frames, f)
    BY <1>1, <1>5, <1>6 DEF ReaderType
<1>. HIDE DEF g
<1>8. RInv(s, r, g)
    BY <1>3, <1>4, <1>7, Collects
<1>. QED
    BY <1>8 DEF g, z

\* All frames are cut: the reader goes on to decode them.
LEMMA CutAll ==
    ASSUME NEW s \in Symbols, NEW r \in Readers, NEW d, RInv(s, r, d), d.pc \in {"split", "extract"},
           IndexOf(d.rest, 1) = 0
    PROVE  RInv(s, r, [d EXCEPT !.pc = "decode"])
<1>. DEFINE g == [d EXCEPT !.pc = "decode"]
<1>1. d \in ReaderType /\ IndexOf(s, Last(d.at)) = 0
    BY AtWork
<1>2. /\ g \in ReaderType /\ g.pc = "decode" /\ g.out = d.out /\ g.frames = d.frames
      /\ g.rest = d.rest /\ g.chunk = d.chunk /\ g.at = d.at
    BY <1>1 DEF ReaderType
<1>. HIDE DEF g
<1>3. FramesAreCut(s, g)
    BY <1>2 DEF RInv, FramesAreCut
<1>4. RestIsKept(s, g)
    BY <1>1, <1>2 DEF RInv, RestIsKept
<1>5. OnlyAccepted(r, g) /\ RefusedWhy(s, r, g)
    BY <1>2 DEF RInv, OnlyAccepted, RefusedWhy
<1>. QED
    BY <1>2, <1>3, <1>4, <1>5 DEF RInv, g

\* The next frame is taken from the list and delivered.
LEMMA DeliversHead ==
    ASSUME NEW s \in Symbols, NEW r \in Readers, NEW d, RInv(s, r, d),
           d.pc = "decode", d.frames # <<>>, Decodes(r, Head(d.frames)),
           NEW g \in ReaderType, g.pc = d.pc, g.chunk = d.chunk, g.rest = d.rest, g.at = d.at,
           g.frames = Tail(d.frames), g.out = Append(d.out, Head(d.frames))
    PROVE  RInv(s, r, g)
<1>1. d \in ReaderType /\ Positions(s, d.at)
    BY DEF RInv
<1>2. d.at \in Seq(Nat \ {0}) /\ d.out \in Seq(Symbols) /\ d.frames \in Seq(Symbols)
    BY <1>1 DEF ReaderType
<1>3. PICK n \in Nat : n = Len(d.out) /\ DOMAIN d.out = 1 .. n
    BY <1>2
<1>4. PICK m \in Nat : m = Len(d.frames) - 1
    <2>1. PICK l \in Nat : l = Len(d.frames) /\ l >= 1
        BY <1>2, Tailed
    <2>2. l - 1 \in Nat
        BY <2>1
    <2>. QED
        BY <2>1, <2>2
<1>5. /\ Head(d.frames) = d.frames[1] /\ Head(d.frames) \in Symbols
      /\ Len(g.frames) = m /\ DOMAIN g.frames = 1 .. m /\ DOMAIN d.frames = 1 .. m + 1
      /\ \A i \in 1 .. m : g.frames[i] = d.frames[i + 1]
    <2>1. Len(d.frames) = m + 1
        BY <1>2, <1>4
    <2>. QED
        BY <1>2, <1>4, <2>1, Tailed
<1>6. /\ Len(g.out) = n + 1 /\ DOMAIN g.out = 1 .. n + 1
      /\ \A i \in 1 .. n : g.out[i] = d.out[i]
      /\ g.out[n + 1] = d.frames[1]
    BY <1>2, <1>3, <1>5, Appended
<1>7. Len(d.at) = n + m + 2
    <2>1. Len(d.out) + Len(d.frames) + 1 = Len(d.at)
        BY DEF RInv, FramesAreCut
    <2>2. Len(d.frames) = m + 1
        BY <1>2, <1>4
    <2>3. n + (m + 1) + 1 = n + m + 2
        OBVIOUS
    <2>. QED
        BY <1>3, <2>1, <2>2, <2>3
<1>8. \A i \in 1 .. m + 1 : d.frames[i] = FrameAt(s, d.at[n + i])
    BY <1>3, <1>5 DEF RInv, FramesAreCut
<1>9. FramesAreCut(s, g)
    <2>1. ASSUME NEW i \in 1 .. n + 1
          PROVE  g.out[i] = FrameAt(s, g.at[i])
        <3>1. CASE i = n + 1
            BY <1>6, <1>8, <3>1
        <3>2. CASE i # n + 1
            <4>1. i \in 1 .. n
                BY <3>2
            <4>2. d.out[i] = FrameAt(s, d.at[i])
                BY <1>3, <4>1 DEF RInv, FramesAreCut
            <4>. QED
                BY <1>6, <4>1, <4>2
        <3>. QED
            BY <3>1, <3>2
    <2>2. ASSUME NEW i \in 1 .. m
          PROVE  g.frames[i] = FrameAt(s, g.at[(n + 1) + i])
        <3>1. i + 1 \in 1 .. m + 1 /\ n + (i + 1) = (n + 1) + i
            OBVIOUS
        <3>2. d.frames[i + 1] = FrameAt(s, d.at[n + (i + 1)])
            BY <1>8, <3>1
        <3>. QED
            BY <1>5, <3>1, <3>2
    <2>3. Len(g.out) + Len(g.frames) < Len(g.at) /\ Len(g.out) + Len(g.frames) + 1 = Len(g.at)
        <3>1. (n + 1) + m < n + m + 2 /\ (n + 1) + m + 1 = n + m + 2
            OBVIOUS
        <3>. QED
            BY <1>5, <1>6, <1>7, <3>1
    <2>. QED
        BY <1>5, <1>6, <2>1, <2>2, <2>3 DEF FramesAreCut
<1>10. RestIsKept(s, g)
    BY DEF RInv, RestIsKept
<1>11. OnlyAccepted(r, g)
    <2>1. ASSUME NEW i \in 1 .. n + 1
          PROVE  Decodes(r, g.out[i])
        <3>1. CASE i = n + 1
            BY <1>5, <1>6, <3>1
        <3>2. CASE i # n + 1
            <4>1. i \in 1 .. n
                BY <3>2
            <4>. QED
                BY <1>3, <1>6, <4>1 DEF RInv, OnlyAccepted
        <3>. QED
            BY <3>1, <3>2
    <2>. QED
        BY <1>6, <2>1 DEF OnlyAccepted
<1>12. RefusedWhy(s, r, g)
    BY DEF RefusedWhy
<1>. QED
    BY <1>1, <1>9, <1>10, <1>11, <1>12 DEF RInv

\* A frame on the list has its position, and there is a delimiter after it.
LEMMA ListedFrame ==
    ASSUME NEW s \in Symbols, NEW r \in Readers, NEW d, RInv(s, r, d), d.pc # "failed",
           NEW i \in DOMAIN d.frames
    PROVE  /\ Len(d.out) + i \in DOMAIN d.at /\ Len(d.out) + i > Len(d.out)
           /\ IndexOf(s, d.at[Len(d.out) + i]) # 0
           /\ d.frames[i] = FrameAt(s, d.at[Len(d.out) + i])
<1>1. d.at \in Seq(Nat \ {0}) /\ d.out \in Seq(Symbols) /\ d.frames \in Seq(Symbols)
    BY DEF RInv, ReaderType
<1>2. PICK n \in Nat : n = Len(d.out)
    BY <1>1
<1>3. PICK m \in Nat : m = Len(d.frames) /\ i \in 1 .. m
    BY <1>1
<1>4. Len(d.at) = n + m + 1 /\ DOMAIN d.at = 1 .. n + m + 1
    <2>1. Len(d.out) + Len(d.frames) + 1 = Len(d.at)
        BY DEF RInv, FramesAreCut
    <2>2. DOMAIN d.at = 1 .. Len(d.at)
        BY <1>1
    <2>. QED
        BY <1>2, <1>3, <2>1, <2>2
<1>5. n + i \in 1 .. n + m + 1 /\ n + i > n /\ n + i \in 1 .. (n + m + 1) - 1
    BY <1>3
<1>6. IndexOf(s, d.at[n + i]) # 0
    BY <1>4, <1>5 DEF RInv, Positions
<1>7. d.frames[i] = FrameAt(s, d.at[n + i])
    BY <1>2 DEF RInv, FramesAreCut
<1>. QED
    BY <1>2, <1>4, <1>5, <1>6, <1>7

\* A step of DecodeNext, after push() and after extract.
LEMMA DecodeNextInv ==
    ASSUME NEW s \in Symbols, NEW r \in Readers, NEW d, RInv(s, r, d), d.pc = "decode"
    PROVE  RInv(s, r, DecodeNext(r, d))
<1>1. d \in ReaderType /\ d.chunk = <<>> /\ d.rest = From(s, Last(d.at))
    BY AtWork
<1>2. IndexOf(s, Last(d.at)) = 0
    BY DEF RInv, RestIsKept
<1>3. d.out \in Seq(Symbols) /\ d.frames \in Seq(Symbols)
    BY <1>1 DEF ReaderType
<1>4. CASE d.frames = <<>>
    <2>1. RInv(s, r, Keep(r[2], d))
        BY <1>1, <1>2, <1>4, Keeps
    <2>. QED
        BY <1>4, <2>1 DEF DecodeNext
<1>5. CASE d.frames # <<>> /\ Decodes(r, Head(d.frames))
    <2>. DEFINE g == Deliver([d EXCEPT !.frames = Tail(@)], Head(d.frames))
    <2>1. Head(d.frames) \in Symbols /\ Tail(d.frames) \in Seq(Symbols)
        BY <1>3, <1>5, Tailed
    <2>2. Append(d.out, Head(d.frames)) \in Seq(Symbols)
        BY <1>3, <2>1
    <2>3. /\ g \in ReaderType /\ g.pc = d.pc /\ g.chunk = d.chunk /\ g.rest = d.rest /\ g.at = d.at
          /\ g.frames = Tail(d.frames) /\ g.out = Append(d.out, Head(d.frames))
        BY <1>1, <2>1, <2>2 DEF Deliver, ReaderType
    <2>. HIDE DEF g
    <2>4. RInv(s, r, g)
        BY <1>5, <2>3, DeliversHead
    <2>. QED
        BY <1>5, <2>4 DEF DecodeNext, g
<1>6. CASE d.frames # <<>> /\ ~Decodes(r, Head(d.frames))
    <2>1. 1 \in DOMAIN d.frames /\ Head(d.frames) = d.frames[1]
        BY <1>3, <1>6
    <2>2. /\ Len(d.out) + 1 \in DOMAIN d.at /\ Len(d.out) + 1 > Len(d.out)
          /\ IndexOf(s, d.at[Len(d.out) + 1]) # 0
          /\ d.frames[1] = FrameAt(s, d.at[Len(d.out) + 1])
        BY <2>1, ListedFrame
    <2>3. RefusedAt(s, r, d.at[Len(d.out) + 1])
        BY <1>6, <2>1, <2>2 DEF RefusedAt
    <2>4. RInv(s, r, Fail(d))
        BY <2>2, <2>3, Fails
    <2>. QED
        BY <1>6, <2>4 DEF DecodeNext
<1>. QED
    BY <1>4, <1>5, <1>6

\* A step of push().
LEMMA SplitInv ==
    ASSUME NEW s \in Symbols, NEW r \in Readers, NEW d, RInv(s, r, d), d.pc = "split"
    PROVE  RInv(s, r, Split(r[2], d))
<1>1. /\ d \in ReaderType /\ d.rest = From(s, Last(d.at))
      /\ IndexOf(d.rest, 1) = 0 <=> IndexOf(s, Last(d.at)) = 0
    BY AtWork
<1>2. PICK e \in Nat : e = IndexOf(d.rest, 1)
    BY AtWork
<1>3. r[1] = "push"
    BY DEF RInv, RefusedWhy
<1>4. CASE e # 0
    <2>1. PICK f : f = SubSeq(d.rest, 1, e - 1)
        OBVIOUS
    <2>2. RInv(s, r, [Cut(d, f, SubSeq(d.rest, e + D, Len(d.rest))) EXCEPT !.frames = Append(@, f)])
        BY <1>2, <1>4, <2>1, CollectInv
    <2>. QED
        BY <1>2, <1>4, <2>1, <2>2 DEF Split
<1>5. CASE e = 0 /\ Fits(r[2], d.rest) /\ \A i \in DOMAIN d.frames : Fits(r[2], d.frames[i])
    <2>1. RInv(s, r, [d EXCEPT !.pc = "decode"])
        BY <1>2, <1>5, CutAll
    <2>. QED
        BY <1>2, <1>5, <2>1 DEF Split
<1>6. CASE e = 0 /\ ~Fits(r[2], d.rest)
    <2>1. r[2] # "fast"
        BY <1>6 DEF Fits
    <2>2. PICK n \in DOMAIN d.at : n > Len(d.out) /\ Last(d.at) = d.at[n]
        <3>1. d.at \in Seq(Nat \ {0}) /\ d.out \in Seq(Symbols) /\ d.frames \in Seq(Symbols)
            BY <1>1 DEF ReaderType
        <3>2. PICK k \in Nat : k = Len(d.out)
            BY <3>1
        <3>3. PICK m \in Nat : m = Len(d.frames)
            BY <3>1
        <3>4. k + m + 1 = Len(d.at) /\ k + m + 1 > k /\ k + m + 1 \in 1 .. k + m + 1
            <4>1. Len(d.out) + Len(d.frames) + 1 = Len(d.at)
                BY DEF RInv, FramesAreCut
            <4>2. k + m + 1 > k /\ k + m + 1 \in 1 .. k + m + 1
                OBVIOUS
            <4>. QED
                BY <3>2, <3>3, <4>1, <4>2
        <3>5. Len(d.at) \in DOMAIN d.at /\ Len(d.at) > Len(d.out)
            BY <3>1, <3>2, <3>4
        <3>. QED
            BY <3>5 DEF Last
    <2>3. RefusedAt(s, r, d.at[n])
        BY <1>1, <1>2, <1>6, <2>2 DEF RefusedAt
    <2>4. RInv(s, r, Fail(d))
        BY <1>3, <2>1, <2>2, <2>3, Fails
    <2>. QED
        BY <1>2, <1>6, <2>4 DEF Split
<1>7. ASSUME e = 0, NEW i \in DOMAIN d.frames, ~Fits(r[2], d.frames[i])
      PROVE  RInv(s, r, Split(r[2], d))
    <2>1. r[2] # "fast"
        BY <1>7 DEF Fits
    <2>2. /\ Len(d.out) + i \in DOMAIN d.at /\ Len(d.out) + i > Len(d.out)
          /\ IndexOf(s, d.at[Len(d.out) + i]) # 0
          /\ d.frames[i] = FrameAt(s, d.at[Len(d.out) + i])
        BY ListedFrame
    <2>3. RefusedAt(s, r, d.at[Len(d.out) + i])
        BY <1>7, <2>2 DEF RefusedAt, Decodes
    <2>4. RInv(s, r, Fail(d))
        BY <1>3, <2>1, <2>2, <2>3, Fails
    <2>. QED
        BY <1>2, <1>7, <2>4 DEF Split
<1>. QED
    BY <1>4, <1>5, <1>6, <1>7

\* A step of extract.
LEMMA ExtractInv ==
    ASSUME NEW s \in Symbols, NEW r \in Readers, NEW d, RInv(s, r, d), d.pc = "extract"
    PROVE  RInv(s, r, Extract(d))
<1>1. d.rest \in Symbols
    BY AtWork
<1>2. PICK e \in Nat : e = IndexOf(d.rest, 1)
    BY AtWork
<1>3. CASE Len(d.rest) < D \/ e = 0
    <2>1. e = 0
        <3>1. ASSUME e # 0
              PROVE  e + D - 1 <= Len(d.rest) /\ e >= 1
            <4>1. Matches(d.rest, e)
                BY <1>1, <1>2, <3>1, IndexOfFinds
            <4>. QED
                BY <4>1 DEF Matches
        <3>2. Len(d.rest) \in Nat
            BY <1>1 DEF Symbols
        <3>. QED
            BY <1>3, <3>1, <3>2, DelimiterLength
    <2>2. RInv(s, r, [d EXCEPT !.pc = "decode"])
        BY <1>2, <2>1, CutAll
    <2>. QED
        BY <1>2, <1>3, <2>2 DEF Extract
<1>4. CASE ~(Len(d.rest) < D \/ e = 0)
    <2>1. PICK f : f = SubSeq(d.rest, 1, e - 1)
        OBVIOUS
    <2>2. RInv(s, r, [Cut(d, f, SubSeq(d.rest, e + D, Len(d.rest))) EXCEPT !.frames = Append(@, f)])
        BY <1>2, <1>4, <2>1, CollectInv
    <2>. QED
        BY <1>2, <1>4, <2>1, <2>2 DEF Extract
<1>. QED
    BY <1>3, <1>4

\* Two sequences joined.
LEMMA Joining ==
    ASSUME NEW a \in Symbols, NEW c \in Symbols
    PROVE  /\ a \o c \in Symbols /\ Len(a) \in Nat /\ Len(c) \in Nat /\ Len(a \o c) = Len(a) + Len(c)
           /\ \A j \in 1 .. Len(a) : (a \o c)[j] = a[j]
           /\ \A j \in 1 .. Len(c) : (a \o c)[Len(a) + j] = c[j]
BY DEF Symbols

\* The first symbols of a sequence.
LEMMA SlicePrefix ==
    ASSUME NEW t \in Symbols, NEW n \in Nat, n <= Len(t)
    PROVE  /\ SubSeq(t, 1, n) \in Symbols /\ Len(SubSeq(t, 1, n)) = n
           /\ \A j \in 1 .. n : SubSeq(t, 1, n)[j] = t[j]
<1>1. n = n - 1 + 1 /\ 1 <= n + 1 /\ 1 \in Nat /\ 1 >= 1
    OBVIOUS
<1>2. /\ SubSeq(t, 1, n) \in Symbols /\ Len(SubSeq(t, 1, n)) = n
      /\ \A j \in 1 .. n : SubSeq(t, 1, n)[j] = t[1 + j - 1]
    BY <1>1, Slice
<1>3. \A j \in 1 .. n : 1 + j - 1 = j
    OBVIOUS
<1>. QED
    BY <1>2, <1>3

\* Slices of two sequences joined: of the first,
LEMMA SliceLeft ==
    ASSUME NEW a \in Symbols, NEW c \in Symbols, NEW n \in Nat, n <= Len(a)
    PROVE  SubSeq(a \o c, 1, n) = SubSeq(a, 1, n)
<1>1. PICK t \in Symbols :
         t = a \o c /\ Len(t) = Len(a) + Len(c) /\ \A j \in 1 .. Len(a) : t[j] = a[j]
    BY Joining
<1>2. Len(a) \in Nat /\ Len(c) \in Nat
    BY Joining
<1>3. n <= Len(t)
    BY <1>1, <1>2
<1>4. PICK u \in Symbols : u = SubSeq(t, 1, n) /\ Len(u) = n /\ \A j \in 1 .. n : u[j] = t[j]
    BY <1>3, SlicePrefix
<1>5. PICK v \in Symbols : v = SubSeq(a, 1, n) /\ Len(v) = n /\ \A j \in 1 .. n : v[j] = a[j]
    BY SlicePrefix
<1>6. \A j \in 1 .. n : j \in 1 .. Len(a)
    BY <1>2
<1>7. \A j \in 1 .. n : u[j] = v[j]
    BY <1>1, <1>4, <1>5, <1>6
<1>8. u = v
    BY <1>4, <1>5, <1>7, SameSeq DEF Symbols
<1>. QED
    BY <1>1, <1>4, <1>5, <1>8

\* of the second,
LEMMA SliceRight ==
    ASSUME NEW a \in Symbols, NEW c \in Symbols, NEW n \in Nat, n >= 1, n <= Len(c) + 1
    PROVE  SubSeq(a \o c, Len(a) + n, Len(a \o c)) = SubSeq(c, n, Len(c))
<1>1. PICK t \in Symbols :
         t = a \o c /\ Len(t) = Len(a) + Len(c) /\ \A j \in 1 .. Len(c) : t[Len(a) + j] = c[j]
    BY Joining
<1>2. PICK p \in Nat : p = Len(a)
    BY Joining
<1>3. PICK q \in Nat : q = Len(c) /\ n <= q + 1
    BY Joining
<1>4. PICK l \in Nat : l = Len(t) /\ l = p + q
    BY <1>1, <1>2, <1>3
<1>5. PICK k \in Nat : k = q - n + 1
    BY <1>3
<1>6. PICK x \in Nat : x = p + n /\ x >= 1 /\ x <= l + 1 /\ k = l - x + 1
    <2>1. p + n \in Nat /\ p + n >= 1 /\ p + n <= l + 1 /\ k = l - (p + n) + 1
        BY <1>3, <1>4, <1>5
    <2>. QED
        BY <2>1
<1>7. PICK u \in Symbols :
         u = SubSeq(t, x, l) /\ Len(u) = k /\ \A j \in 1 .. k : u[j] = t[x + j - 1]
    <2>1. l <= Len(t)
        BY <1>4
    <2>2. /\ SubSeq(t, x, l) \in Symbols /\ Len(SubSeq(t, x, l)) = k
          /\ \A j \in 1 .. k : SubSeq(t, x, l)[j] = t[x + j - 1]
        BY <1>6, <2>1, Slice
    <2>. QED
        BY <2>2
<1>8. PICK v \in Symbols :
         v = SubSeq(c, n, q) /\ Len(v) = k /\ \A j \in 1 .. k : v[j] = c[n + j - 1]
    <2>1. q <= Len(c)
        BY <1>3
    <2>2. /\ SubSeq(c, n, q) \in Symbols /\ Len(SubSeq(c, n, q)) = k
          /\ \A j \in 1 .. k : SubSeq(c, n, q)[j] = c[n + j - 1]
        BY <1>3, <1>5, <2>1, Slice
    <2>. QED
        BY <2>2
<1>9. ASSUME NEW j \in 1 .. k
      PROVE  u[j] = v[j]
    <2>1. n + j - 1 \in 1 .. q /\ x + j - 1 = p + (n + j - 1)
        BY <1>3, <1>5, <1>6
    <2>. QED
        BY <1>1, <1>2, <1>3, <1>7, <1>8, <2>1
<1>10. u = v
    BY <1>7, <1>8, <1>9, SameSeq DEF Symbols
<1>. QED
    BY <1>1, <1>2, <1>3, <1>4, <1>6, <1>7, <1>8, <1>10

\* and of both.
LEMMA SliceBoth ==
    ASSUME NEW a \in Symbols, NEW c \in Symbols, NEW n \in Nat, n <= Len(c)
    PROVE  SubSeq(a \o c, 1, Len(a) + n) = a \o SubSeq(c, 1, n)
<1>1. PICK t \in Symbols :
         /\ t = a \o c /\ Len(t) = Len(a) + Len(c)
         /\ \A j \in 1 .. Len(a) : t[j] = a[j]
         /\ \A j \in 1 .. Len(c) : t[Len(a) + j] = c[j]
    BY Joining
<1>2. PICK p \in Nat : p = Len(a)
    BY Joining
<1>3. PICK q \in Nat : q = Len(c) /\ n <= q
    BY Joining
<1>4. PICK u \in Symbols : u = SubSeq(c, 1, n) /\ Len(u) = n /\ \A j \in 1 .. n : u[j] = c[j]
    BY SlicePrefix
<1>5. PICK v \in Symbols :
         /\ v = a \o u /\ Len(v) = p + n
         /\ \A j \in 1 .. p : v[j] = a[j]
         /\ \A j \in 1 .. n : v[p + j] = u[j]
    <2>1. /\ a \o u \in Symbols /\ Len(a \o u) = Len(a) + Len(u)
          /\ \A j \in 1 .. Len(a) : (a \o u)[j] = a[j]
          /\ \A j \in 1 .. Len(u) : (a \o u)[Len(a) + j] = u[j]
        BY Joining
    <2>2. Len(u) = n
        BY <1>4
    <2>. QED
        BY <1>2, <2>1, <2>2
<1>6. PICK l \in Nat : l = p + n /\ l <= p + q
    BY <1>3
<1>7. l <= Len(t)
    BY <1>1, <1>2, <1>3, <1>6
<1>8. PICK w \in Symbols : w = SubSeq(t, 1, l) /\ Len(w) = l /\ \A j \in 1 .. l : w[j] = t[j]
    BY <1>7, SlicePrefix
<1>9. ASSUME NEW j \in 1 .. l
      PROVE  w[j] = v[j]
    <2>1. CASE j <= p
        BY <1>1, <1>2, <1>5, <1>8, <2>1
    <2>2. CASE ~(j <= p)
        <3>1. PICK i \in 1 .. n : j = p + i
            <4>1. j - p \in 1 .. n /\ j = p + (j - p)
                BY <1>6, <2>2
            <4>. QED
                BY <4>1
        <3>2. i \in 1 .. q
            BY <1>3
        <3>. QED
            BY <1>1, <1>2, <1>3, <1>4, <1>5, <1>8, <3>1, <3>2
    <2>. QED
        BY <2>1, <2>2
<1>10. w = v
    BY <1>5, <1>6, <1>8, <1>9, SameSeq DEF Symbols
<1>. QED
    BY <1>1, <1>2, <1>4, <1>5, <1>6, <1>8, <1>10

\* A step of complete_partial_then_direct: the frame it takes together and what
\* it leaves are those of pending and chunk joined.
LEMMA CompletePartialInv ==
    ASSUME NEW s \in Symbols, NEW r \in Readers, NEW d, RInv(s, r, d), d.pc = "complete"
    PROVE  RInv(s, r, CompletePartial(r, d))
<1>1. d \in ReaderType /\ Positions(s, d.at)
    BY DEF RInv
<1>2. d.at \in Seq(Nat \ {0}) /\ d.out \in Seq(Symbols) /\ d.rest \in Symbols /\ d.chunk \in Symbols
    BY <1>1 DEF ReaderType
<1>3. d.frames = <<>> /\ d.rest \o d.chunk = From(s, Last(d.at)) /\ IndexOf(d.rest, 1) = 0
    BY DEF RInv, RestIsKept
<1>4. PICK a \in Symbols : a = d.rest
    BY <1>2
<1>5. PICK c \in Symbols : c = d.chunk
    BY <1>2
<1>6. PICK t \in Symbols : t = a \o c /\ t = From(s, Last(d.at))
    <2>1. a \o c \in Symbols
        BY DEF Symbols
    <2>. QED
        BY <1>3, <1>4, <1>5, <2>1
<1>7. Len(a) \in Nat /\ Len(c) \in Nat /\ Len(t) = Len(a) + Len(c)
    BY <1>6, Joining
<1>8. PICK k \in Nat : k = CrossingPrefix(a, c)
    BY <1>3, <1>4, CrossingFinds
<1>9. PICK m \in Nat : m = IndexOf(c, 1)
    BY IndexOfFinds
<1>10. PICK e \in Nat : e = IndexOf(t, 1)
    BY <1>6, IndexOfFinds
<1>11. /\ k > 0 => k <= Len(a) /\ k < D /\ D - k <= Len(c) /\ e = Len(a) - k + 1
       /\ k = 0 /\ m # 0 => e = Len(a) + m
       /\ k = 0 /\ m = 0 => e = 0
    <2>1. IndexOf(a, 1) = 0 /\ IndexOf(a \o c, 1) = e
        BY <1>3, <1>4, <1>6, <1>10
    <2>2. k > 0 => k <= Len(a) /\ k < D /\ D - k <= Len(c) /\ e = Len(a) - k + 1
        BY <1>8, <2>1, CrossingFinds
    <2>3. k = 0 /\ m # 0 => e = Len(a) + m
        BY <1>8, <1>9, <2>1, CrossingFinds
    <2>4. k = 0 /\ m = 0 => e = 0
        BY <1>8, <1>9, <2>1, CrossingFinds
    <2>. QED
        BY <2>2, <2>3, <2>4
<1>12. IndexOf(t, 1) = 0 <=> IndexOf(s, Last(d.at)) = 0
    <2>1. Last(d.at) \in Nat /\ Last(d.at) >= 1 /\ Last(d.at) <= Len(s) + 1
        BY <1>1, <1>2, LastPosition
    <2>2. IndexOf(From(s, Last(d.at)), 1) = 0 <=> IndexOf(s, Last(d.at)) = 0
        BY <2>1, IndexOfFrom
    <2>. QED
        BY <1>6, <2>2
<1>. DEFINE after == [d EXCEPT !.pc = "direct", !.chunk = <<>>]
<1>13. PICK f : f = IF k > 0 THEN SubSeq(a, 1, Len(a) - k) ELSE a \o SubSeq(c, 1, m - 1)
    OBVIOUS
<1>14. PICK z : z = SubSeq(c, (IF k > 0 THEN D - k ELSE m - 1 + D) + 1, Len(c))
    OBVIOUS
<1>15. CompletePartial(r, d) =
          IF k = 0 /\ m = 0
          THEN Keep(r[2], [after EXCEPT !.rest = a \o c])
          ELSE IF Decodes(r, f) THEN Deliver(Cut(after, f, z), f) ELSE Fail(d)
    BY <1>4, <1>5, <1>8, <1>9, <1>13, <1>14 DEF CompletePartial
<1>16. <<>> \in Symbols
    BY DEF Symbols
<1>17. CASE k = 0 /\ m = 0
    <2>. DEFINE g == [after EXCEPT !.rest = a \o c]
    <2>1. /\ g \in ReaderType /\ g.out = d.out /\ g.at = d.at /\ g.frames = <<>> /\ g.chunk = <<>>
          /\ g.rest = From(s, Last(d.at))
        <3>1. g = [d EXCEPT !.pc = "direct", !.chunk = <<>>, !.rest = t]
            BY <1>1, <1>6 DEF ReaderType
        <3>. QED
            BY <1>1, <1>3, <1>6, <1>16, <3>1 DEF ReaderType
    <2>2. IndexOf(s, Last(d.at)) = 0
        BY <1>10, <1>11, <1>12, <1>17
    <2>. HIDE DEF g
    <2>3. RInv(s, r, Keep(r[2], g))
        BY <1>3, <2>1, <2>2, Keeps
    <2>. QED
        BY <1>15, <1>17, <2>3 DEF g
<1>18. CASE ~(k = 0 /\ m = 0)
    <2>1. e # 0 /\ f = SubSeq(t, 1, e - 1) /\ z = SubSeq(t, e + D, Len(t))
        <3>1. CASE k > 0
            <4>1. k <= Len(a) /\ k < D /\ D - k <= Len(c) /\ e = Len(a) - k + 1
                BY <1>11, <3>1
            <4>2. PICK h \in Nat : h = Len(a) - k /\ h <= Len(a) /\ h = e - 1
                <5>1. PICK l \in Nat : l = Len(a) /\ k <= l
                    BY <1>7, <4>1
                <5>2. l - k \in Nat /\ l - k <= l /\ l - k = (l - k + 1) - 1
                    BY <5>1
                <5>3. Len(a) - k \in Nat /\ Len(a) - k <= Len(a) /\ Len(a) - k = e - 1
                    BY <4>1, <5>1, <5>2
                <5>. QED
                    BY <5>3
            <4>3. PICK i \in Nat : i = D - k + 1 /\ i >= 1 /\ i <= Len(c) + 1 /\ Len(a) + i = e + D
                <5>1. D - k + 1 \in Nat /\ D - k + 1 >= 1 /\ D - k + 1 <= Len(c) + 1
                    BY <1>7, <4>1, DelimiterLength
                <5>2. Len(a) + (D - k + 1) = e + D
                    BY <1>7, <4>1, DelimiterLength
                <5>. QED
                    BY <5>1, <5>2
            <4>4. f = SubSeq(a, 1, h) /\ z = SubSeq(c, i, Len(c))
                BY <1>13, <1>14, <3>1, <4>2, <4>3
            <4>5. f = SubSeq(t, 1, h)
                <5>1. SubSeq(a \o c, 1, h) = SubSeq(a, 1, h)
                    BY <4>2, SliceLeft
                <5>. QED
                    BY <1>6, <4>4, <5>1
            <4>6. z = SubSeq(t, Len(a) + i, Len(t))
                <5>1. SubSeq(a \o c, Len(a) + i, Len(a \o c)) = SubSeq(c, i, Len(c))
                    BY <4>3, SliceRight
                <5>. QED
                    BY <1>6, <4>4, <5>1
            <4>. QED
                <5>1. e # 0
                    BY <4>1, <1>7
                <5>. QED
                    BY <4>2, <4>3, <4>5, <4>6, <5>1
        <3>2. CASE k = 0
            <4>1. m # 0 /\ e = Len(a) + m
                BY <1>11, <1>18, <3>2
            <4>2. m + D - 1 <= Len(c) /\ m >= 1
                <5>1. Matches(c, m)
                    BY <1>9, <4>1, IndexOfFinds
                <5>. QED
                    BY <5>1 DEF Matches
            <4>3. PICK h \in Nat : h = m - 1 /\ h <= Len(c) /\ Len(a) + h = e - 1
                <5>1. m - 1 \in Nat /\ m - 1 <= Len(c) /\ Len(a) + (m - 1) = e - 1
                    BY <1>7, <4>1, <4>2, DelimiterLength
                <5>. QED
                    BY <5>1
            <4>4. PICK i \in Nat : i = m - 1 + D + 1 /\ i >= 1 /\ i <= Len(c) + 1 /\ Len(a) + i = e + D
                <5>1. m - 1 + D + 1 \in Nat /\ m - 1 + D + 1 >= 1 /\ m - 1 + D + 1 <= Len(c) + 1
                    BY <1>7, <4>2, DelimiterLength
                <5>2. Len(a) + (m - 1 + D + 1) = e + D
                    BY <1>7, <4>1, DelimiterLength
                <5>. QED
                    BY <5>1, <5>2
            <4>5. f = a \o SubSeq(c, 1, h) /\ z = SubSeq(c, i, Len(c))
                BY <1>13, <1>14, <3>2, <4>3, <4>4
            <4>6. f = SubSeq(t, 1, Len(a) + h)
                <5>1. SubSeq(a \o c, 1, Len(a) + h) = a \o SubSeq(c, 1, h)
                    BY <4>3, SliceBoth
                <5>. QED
                    BY <1>6, <4>5, <5>1
            <4>7. z = SubSeq(t, Len(a) + i, Len(t))
                <5>1. SubSeq(a \o c, Len(a) + i, Len(a \o c)) = SubSeq(c, i, Len(c))
                    BY <4>4, SliceRight
                <5>. QED
                    BY <1>6, <4>5, <5>1
            <4>. QED
                <5>1. e # 0
                    BY <1>7, <4>1, <4>2
                <5>. QED
                    BY <4>3, <4>4, <4>6, <4>7, <5>1
        <3>. QED
            BY <3>1, <3>2
    <2>. HIDE DEF after
    <2>2. /\ IndexOf(s, Last(d.at)) # 0
          /\ f \in Symbols /\ f = FrameAt(s, Last(d.at))
          /\ Last(d.at) + Len(f) + D \in Nat \ {0}
          /\ Last(d.at) + Len(f) + D = IndexOf(s, Last(d.at)) + D
          /\ Append(d.at, Last(d.at) + Len(f) + D) \in Seq(Nat \ {0})
          /\ z = From(s, Last(d.at) + Len(f) + D) /\ From(s, Last(d.at) + Len(f) + D) \in Symbols
        BY <1>1, <1>2, <1>6, <1>10, <2>1, AtFrame
    <2>3. PICK y \in Nat \ {0} : y = Last(d.at) + Len(f) + D
        BY <2>2
    <2>4. CASE Decodes(r, f)
        <3>. DEFINE g == Deliver(Cut(after, f, z), f)
        <3>1. Append(d.out, f) \in Seq(Symbols) /\ Append(d.at, y) \in Seq(Nat \ {0}) /\ z \in Symbols
            BY <1>2, <2>2, <2>3
        <3>2. g = [d EXCEPT !.pc = "direct", !.chunk = <<>>, !.rest = z,
                            !.at = Append(d.at, y), !.out = Append(d.out, f)]
            BY <1>1, <2>3 DEF Deliver, Cut, ReaderType, after
        <3>3. /\ g \in ReaderType /\ g.pc = "direct" /\ g.frames = d.frames /\ g.chunk = <<>>
              /\ g.rest = z /\ g.at = Append(d.at, y) /\ g.out = Append(d.out, f)
            BY <1>1, <1>16, <3>1, <3>2 DEF ReaderType
        <3>. HIDE DEF g
        <3>4. RInv(s, r, g)
            BY <1>3, <2>2, <2>3, <2>4, <3>3, Delivers
        <3>. QED
            BY <1>15, <1>18, <2>4, <3>4 DEF g
    <2>5. CASE ~Decodes(r, f)
        <3>1. RefusedAt(s, r, Last(d.at))
            BY <2>2, <2>5 DEF RefusedAt
        <3>2. Len(d.out) + 1 \in DOMAIN d.at /\ Last(d.at) = d.at[Len(d.out) + 1] /\ Len(d.out) \in Nat
            BY <1>3, AtLast
        <3>3. Len(d.out) + 1 > Len(d.out)
            BY <3>2
        <3>4. RInv(s, r, Fail(d))
            BY <3>1, <3>2, <3>3, Fails
        <3>. QED
            BY <1>15, <1>18, <2>5, <3>4
    <2>. QED
        BY <2>4, <2>5
<1>. QED
    BY <1>17, <1>18

\* Every iteration of every reader keeps its invariant.
LEMMA StepInv ==
    ASSUME NEW s \in Symbols, NEW r \in Readers, NEW d, RInv(s, r, d)
    PROVE  RInv(s, r, Step(r, d))
<1>1. CASE d.pc = "read"
    BY <1>1, ReadFrameInv DEF Step
<1>2. CASE d.pc = "split"
    BY <1>2, SplitInv DEF Step
<1>3. CASE d.pc = "decode"
    BY <1>3, DecodeNextInv DEF Step
<1>4. CASE d.pc = "extract"
    BY <1>4, ExtractInv DEF Step
<1>5. CASE d.pc = "complete"
    BY <1>5, CompletePartialInv DEF Step
<1>6. CASE d.pc = "direct"
    BY <1>6, ReadFrameInv DEF Step, DecodeDirect
<1>7. CASE d.pc \notin {"read", "split", "decode", "extract", "complete", "direct"}
    BY <1>7 DEF Step
<1>. QED
    BY <1>1, <1>2, <1>3, <1>4, <1>5, <1>6, <1>7

-----------------------------------------------------------------------------
(* More of the stream arrives *)

\* Slices from the middle of the first of two sequences joined.
LEMMA SliceMiddle ==
    ASSUME NEW a \in Symbols, NEW c \in Symbols, NEW x \in Nat, NEW y \in Nat,
           x >= 1, x <= y + 1, y <= Len(a)
    PROVE  SubSeq(a \o c, x, y) = SubSeq(a, x, y)
<1>1. PICK t \in Symbols :
         t = a \o c /\ Len(t) = Len(a) + Len(c) /\ \A j \in 1 .. Len(a) : t[j] = a[j]
    BY Joining
<1>2. Len(a) \in Nat /\ Len(c) \in Nat
    BY Joining
<1>3. y <= Len(t)
    BY <1>1, <1>2
<1>4. PICK n \in Nat : n = y - x + 1
    OBVIOUS
<1>5. PICK u \in Symbols : u = SubSeq(t, x, y) /\ Len(u) = n /\ \A j \in 1 .. n : u[j] = t[x + j - 1]
    <2>1. /\ SubSeq(t, x, y) \in Symbols /\ Len(SubSeq(t, x, y)) = n
          /\ \A j \in 1 .. n : SubSeq(t, x, y)[j] = t[x + j - 1]
        BY <1>3, <1>4, Slice
    <2>. QED
        BY <2>1
<1>6. PICK v \in Symbols : v = SubSeq(a, x, y) /\ Len(v) = n /\ \A j \in 1 .. n : v[j] = a[x + j - 1]
    <2>1. /\ SubSeq(a, x, y) \in Symbols /\ Len(SubSeq(a, x, y)) = n
          /\ \A j \in 1 .. n : SubSeq(a, x, y)[j] = a[x + j - 1]
        BY <1>4, Slice
    <2>. QED
        BY <2>1
<1>7. \A j \in 1 .. n : x + j - 1 \in 1 .. Len(a)
    BY <1>2, <1>4
<1>8. \A j \in 1 .. n : u[j] = v[j]
    BY <1>1, <1>5, <1>6, <1>7
<1>9. u = v
    BY <1>5, <1>6, <1>8, SameSeq DEF Symbols
<1>. QED
    BY <1>1, <1>5, <1>6, <1>9

\* The end of the longer stream is the end of the shorter one and the chunk.
LEMMA FromLonger ==
    ASSUME NEW s \in Symbols, NEW c \in Symbols, NEW x \in Nat, x >= 1, x <= Len(s) + 1
    PROVE  From(s \o c, x) = From(s, x) \o c
<1>1. PICK t \in Symbols :
         /\ t = s \o c /\ Len(t) = Len(s) + Len(c)
         /\ \A j \in 1 .. Len(s) : t[j] = s[j]
         /\ \A j \in 1 .. Len(c) : t[Len(s) + j] = c[j]
    BY Joining
<1>2. PICK p \in Nat : p = Len(s) /\ x <= p + 1
    BY Joining
<1>3. PICK q \in Nat : q = Len(c)
    BY Joining
<1>4. PICK l \in Nat : l = Len(t) /\ l = p + q /\ x <= l + 1
    BY <1>1, <1>2, <1>3
<1>5. PICK k \in Nat : k = p - x + 1
    BY <1>2
<1>6. PICK m \in Nat : m = l - x + 1 /\ m = k + q
    BY <1>2, <1>4, <1>5
<1>7. PICK u \in Symbols : u = SubSeq(t, x, l) /\ Len(u) = m /\ \A j \in 1 .. m : u[j] = t[x + j - 1]
    <2>1. l <= Len(t) /\ x <= l + 1
        BY <1>4
    <2>2. m = l - x + 1
        BY <1>6
    <2>3. /\ SubSeq(t, x, l) \in Symbols /\ Len(SubSeq(t, x, l)) = m
          /\ \A j \in 1 .. m : SubSeq(t, x, l)[j] = t[x + j - 1]
        BY <2>1, <2>2, Slice
    <2>. QED
        BY <2>3
<1>8. PICK v \in Symbols : v = SubSeq(s, x, p) /\ Len(v) = k /\ \A j \in 1 .. k : v[j] = s[x + j - 1]
    <2>1. p <= Len(s)
        BY <1>2
    <2>2. /\ SubSeq(s, x, p) \in Symbols /\ Len(SubSeq(s, x, p)) = k
          /\ \A j \in 1 .. k : SubSeq(s, x, p)[j] = s[x + j - 1]
        BY <1>2, <1>5, <2>1, Slice
    <2>. QED
        BY <2>2
<1>9. PICK w \in Symbols :
         /\ w = v \o c /\ Len(w) = k + q
         /\ \A j \in 1 .. k : w[j] = v[j]
         /\ \A j \in 1 .. q : w[k + j] = c[j]
    <2>1. Len(v) = k
        BY <1>8
    <2>2. /\ v \o c \in Symbols /\ Len(v \o c) = Len(v) + Len(c)
          /\ \A j \in 1 .. Len(v) : (v \o c)[j] = v[j]
          /\ \A j \in 1 .. Len(c) : (v \o c)[Len(v) + j] = c[j]
        BY Joining
    <2>. QED
        BY <1>3, <2>1, <2>2
<1>10. ASSUME NEW j \in 1 .. m
       PROVE  u[j] = w[j]
    <2>1. CASE j <= k
        <3>1. j \in 1 .. k /\ x + j - 1 \in 1 .. p
            BY <1>5, <2>1
        <3>2. u[j] = t[x + j - 1] /\ w[j] = v[j] /\ v[j] = s[x + j - 1]
            BY <1>7, <1>8, <1>9, <3>1
        <3>3. t[x + j - 1] = s[x + j - 1]
            BY <1>1, <1>2, <3>1
        <3>. QED
            BY <3>2, <3>3
    <2>2. CASE ~(j <= k)
        <3>1. PICK i \in 1 .. q : j = k + i
            <4>1. j - k \in 1 .. q /\ j = k + (j - k)
                BY <1>6, <2>2
            <4>. QED
                BY <4>1
        <3>2. x + j - 1 = p + i
            BY <1>5, <3>1
        <3>3. u[j] = t[p + i]
            BY <1>7, <3>2
        <3>4. t[p + i] = c[i]
            BY <1>1, <1>2, <1>3
        <3>5. w[j] = c[i]
            BY <1>9, <3>1
        <3>. QED
            BY <3>3, <3>4, <3>5
    <2>. QED
        BY <2>1, <2>2
<1>11. u = w
    BY <1>6, <1>7, <1>9, <1>10, SameSeq DEF Symbols
<1>. QED
    BY <1>1, <1>2, <1>4, <1>7, <1>8, <1>9, <1>11 DEF From

\* A frame that is complete stays as it is.
LEMMA FrameLonger ==
    ASSUME NEW s \in Symbols, NEW c \in Symbols, NEW x \in Nat, x >= 1, IndexOf(s, x) # 0
    PROVE  FrameAt(s \o c, x) = FrameAt(s, x)
<1>1. PICK e \in Nat : e = IndexOf(s, x) /\ e = IndexOf(s \o c, x)
    BY IndexOfFinds, IndexOfLonger
<1>2. e # 0 /\ e >= x /\ Matches(s, e)
    BY <1>1, IndexOfFinds
<1>3. PICK h \in Nat : h = e - 1 /\ x <= h + 1 /\ h <= Len(s)
    <2>1. e + D - 1 <= Len(s) /\ Len(s) \in Nat
        BY <1>2 DEF Matches, Symbols
    <2>2. e - 1 \in Nat /\ x <= (e - 1) + 1 /\ e - 1 <= Len(s)
        BY <1>2, <2>1, DelimiterLength
    <2>. QED
        BY <2>2
<1>4. SubSeq(s \o c, x, h) = SubSeq(s, x, h)
    BY <1>3, SliceMiddle
<1>. QED
    BY <1>1, <1>3, <1>4 DEF FrameAt

\* The positions stay as they are.
LEMMA PositionsLonger ==
    ASSUME NEW s \in Symbols, NEW c \in Symbols, NEW at \in Seq(Nat \ {0}), Positions(s, at)
    PROVE  Positions(s \o c, at)
<1>1. ASSUME NEW i \in 1 .. Len(at) - 1
      PROVE  IndexOf(s \o c, at[i]) # 0 /\ at[i + 1] = IndexOf(s \o c, at[i]) + D
    <2>1. IndexOf(s, at[i]) # 0 /\ at[i + 1] = IndexOf(s, at[i]) + D
        BY DEF Positions
    <2>2. at[i] \in Nat /\ at[i] >= 1
        BY <1>1
    <2>3. IndexOf(s \o c, at[i]) = IndexOf(s, at[i])
        BY <2>1, <2>2, IndexOfLonger
    <2>. QED
        BY <2>1, <2>3
<1>. QED
    BY <1>1 DEF Positions

\* So do the frames cut at them.
LEMMA FramesLonger ==
    ASSUME NEW s \in Symbols, NEW c \in Symbols, NEW d \in ReaderType, Positions(s, d.at),
           NEW n \in Nat, n < Len(d.at), n >= 1
    PROVE  FrameAt(s \o c, d.at[n]) = FrameAt(s, d.at[n])
<1>1. d.at \in Seq(Nat \ {0})
    BY DEF ReaderType
<1>2. n \in 1 .. Len(d.at) - 1 /\ n \in DOMAIN d.at
    BY <1>1
<1>3. IndexOf(s, d.at[n]) # 0
    BY <1>2 DEF Positions
<1>4. d.at[n] \in Nat /\ d.at[n] >= 1
    BY <1>1, <1>2
<1>. QED
    BY <1>3, <1>4, FrameLonger

\* A reader that has returned has cut all frames and keeps the rest.
LEMMA AtIdle ==
    ASSUME NEW s \in Symbols, NEW r \in Readers, NEW d, RInv(s, r, d), d.pc = "idle"
    PROVE  /\ d \in ReaderType /\ Positions(s, d.at) /\ d.at \in Seq(Nat \ {0})
           /\ d.frames = <<>> /\ d.chunk = <<>>
           /\ d.rest \in Symbols /\ d.rest = From(s, Last(d.at))
           /\ IndexOf(s, Last(d.at)) = 0 /\ IndexOf(d.rest, 1) = 0
<1>1. d \in ReaderType /\ Positions(s, d.at)
    BY DEF RInv
<1>2. d.at \in Seq(Nat \ {0})
    BY <1>1 DEF ReaderType
<1>3. IndexOf(s, Last(d.at)) = 0 /\ d.frames = <<>>
    BY DEF RInv, RestIsKept
<1>. QED
    BY <1>1, <1>2, <1>3, AtWork

\* The chunk is joined to the rest, or kept beside it.
LEMMA Taken ==
    ASSUME NEW s \in Symbols, NEW c \in Symbols, NEW r \in Readers, NEW d, RInv(s, r, d), d.pc = "idle",
           NEW g \in ReaderType, g.out = d.out, g.frames = <<>>, g.at = d.at,
           g.pc \in {"read", "split", "extract", "complete", "direct"},
           g.pc = "split" => r[1] = "push",
           g.pc # "complete" => g.chunk = <<>>,
           g.pc = "complete" => g.rest = d.rest,
           g.rest \o g.chunk = d.rest \o c
    PROVE  RInv(s \o c, r, g)
<1>. DEFINE z == s \o c
<1>1. /\ d \in ReaderType /\ Positions(s, d.at) /\ d.at \in Seq(Nat \ {0})
      /\ d.frames = <<>> /\ d.rest = From(s, Last(d.at)) /\ IndexOf(d.rest, 1) = 0
    BY AtIdle
<1>2. Positions(z, d.at) /\ z \in Symbols
    BY <1>1, PositionsLonger, Joining
<1>3. From(z, Last(d.at)) = d.rest \o c
    <2>1. Last(d.at) \in Nat /\ Last(d.at) >= 1 /\ Last(d.at) <= Len(s) + 1
        BY <1>1, LastPosition
    <2>. QED
        BY <1>1, <2>1, FromLonger
<1>4. Len(d.out) \in Nat /\ DOMAIN d.out = 1 .. Len(d.out) /\ Len(d.out) + 1 = Len(d.at)
    <2>1. Len(d.out) \in Nat /\ Len(d.out) + 1 = Len(d.at)
        BY <1>1, AtLast
    <2>. QED
        BY <1>1, <2>1 DEF ReaderType
<1>5. ASSUME NEW i \in DOMAIN d.out
      PROVE  d.out[i] = FrameAt(z, d.at[i])
    <2>1. d.out[i] = FrameAt(s, d.at[i])
        BY DEF RInv, FramesAreCut
    <2>2. i \in Nat /\ i >= 1 /\ i < Len(d.at)
        BY <1>4
    <2>3. FrameAt(z, d.at[i]) = FrameAt(s, d.at[i])
        BY <1>1, <2>2, FramesLonger
    <2>. QED
        BY <2>1, <2>3
<1>. HIDE DEF z
<1>6. FramesAreCut(z, g)
    <2>1. Len(g.frames) = 0 /\ DOMAIN g.frames = {}
        OBVIOUS
    <2>2. Len(g.out) + Len(g.frames) + 1 = Len(g.at) /\ Len(g.out) + Len(g.frames) < Len(g.at)
        BY <1>4, <2>1
    <2>. QED
        BY <1>5, <2>1, <2>2 DEF FramesAreCut
<1>7. RestIsKept(z, g)
    BY <1>1, <1>3 DEF RestIsKept
<1>8. OnlyAccepted(r, g)
    BY DEF RInv, OnlyAccepted
<1>9. RefusedWhy(z, r, g)
    BY DEF RefusedWhy
<1>10. RInv(z, r, g)
    BY <1>2, <1>6, <1>7, <1>8, <1>9 DEF RInv
<1>. QED
    BY <1>10 DEF z

\* Every reader takes the next chunk as it should.
LEMMA TakeInv ==
    ASSUME NEW s \in Symbols, NEW c \in Symbols, NEW r \in Readers, NEW d, RInv(s, r, d), d.pc = "idle"
    PROVE  RInv(s \o c, r, Take(r[1], d, c))
<1>1. d \in ReaderType /\ d.frames = <<>> /\ d.chunk = <<>> /\ d.rest \in Symbols
    BY AtIdle
<1>2. d.rest \o c \in Symbols /\ (d.rest \o c) \o <<>> = d.rest \o c
    BY <1>1 DEF Symbols
<1>3. ASSUME NEW pc \in {"read", "split", "extract"}, pc = "split" => r[1] = "push"
      PROVE  RInv(s \o c, r, [d EXCEPT !.pc = pc, !.rest = @ \o c])
    <2>. DEFINE g == [d EXCEPT !.pc = pc, !.rest = @ \o c]
    <2>1. /\ g \in ReaderType /\ g.pc = pc /\ g.rest = d.rest \o c /\ g.chunk = <<>>
          /\ g.out = d.out /\ g.frames = <<>> /\ g.at = d.at
        BY <1>1, <1>2 DEF ReaderType
    <2>2. g.rest \o g.chunk = d.rest \o c
        BY <1>2, <2>1
    <2>. HIDE DEF g
    <2>3. RInv(s \o c, r, g)
        BY <1>3, <2>1, <2>2, Taken
    <2>. QED
        BY <2>3 DEF g
<1>4. CASE r[1] = "read"
    BY <1>3, <1>4 DEF Take, JsRead
<1>5. CASE r[1] = "push"
    BY <1>3, <1>5 DEF Take, PushRead
<1>6. CASE r[1] = "csharp"
    BY <1>3, <1>6 DEF Take, CsRead
<1>7. CASE r[1] \notin {"read", "push", "csharp"}
    <2>1. Take(r[1], d, c) = RsPush(d, c)
        BY <1>7 DEF Take
    <2>2. CASE d.rest = <<>>
        <3>. DEFINE g == [d EXCEPT !.pc = "direct", !.rest = c]
        <3>1. /\ g \in ReaderType /\ g.pc = "direct" /\ g.rest = c /\ g.chunk = <<>>
              /\ g.out = d.out /\ g.frames = <<>> /\ g.at = d.at
            BY <1>1 DEF ReaderType
        <3>2. c \o <<>> = <<>> \o c
            BY DEF Symbols
        <3>3. g.rest \o g.chunk = d.rest \o c
            BY <2>2, <3>1, <3>2
        <3>. HIDE DEF g
        <3>4. RInv(s \o c, r, g)
            BY <3>1, <3>3, Taken
        <3>. QED
            BY <2>1, <2>2, <3>4 DEF g, RsPush
    <2>3. CASE d.rest # <<>>
        <3>. DEFINE g == [d EXCEPT !.pc = "complete", !.chunk = c]
        <3>1. /\ g \in ReaderType /\ g.pc = "complete" /\ g.rest = d.rest /\ g.chunk = c
              /\ g.out = d.out /\ g.frames = <<>> /\ g.at = d.at
            BY <1>1 DEF ReaderType
        <3>. HIDE DEF g
        <3>2. RInv(s \o c, r, g)
            BY <3>1, Taken
        <3>. QED
            BY <2>1, <2>3, <3>2 DEF g, RsPush
    <2>. QED
        BY <2>2, <2>3
<1>. QED
    BY <1>4, <1>5, <1>6, <1>7

-----------------------------------------------------------------------------
(* A reader that has failed, while the stream goes on *)

\* The stream z begins with s.
Continues(z, s) == \E c \in Symbols : z = s \o c

\* Every stream begins with itself.
LEMMA ContinuesSelf ==
    ASSUME NEW s \in Symbols
    PROVE  Continues(s, s)
<1>1. <<>> \in Symbols /\ s = s \o <<>>
    BY DEF Symbols
<1>. QED
    BY <1>1 DEF Continues

\* The beginning of a beginning is a beginning.
LEMMA ContinuesOn ==
    ASSUME NEW s \in Symbols, NEW z \in Symbols, NEW c \in Symbols, Continues(z, s)
    PROVE  Continues(z \o c, s)
<1>1. PICK b \in Symbols : z = s \o b
    BY DEF Continues
<1>2. b \o c \in Symbols
    BY Joining
<1>3. z \o c = s \o (b \o c)
    BY <1>1 DEF Symbols
<1>. QED
    BY <1>2, <1>3 DEF Continues

\* Two streams that begin with each other are the same.
LEMMA ContinuesBoth ==
    ASSUME NEW s \in Symbols, NEW z \in Symbols, Continues(z, s), Continues(s, z)
    PROVE  z = s
<1>1. PICK b \in Symbols : z = s \o b
    BY DEF Continues
<1>2. PICK c \in Symbols : s = z \o c
    BY DEF Continues
<1>3. Len(z) = Len(s) + Len(b) /\ Len(s) = Len(z) + Len(c)
    BY <1>1, <1>2, Joining
<1>4. Len(s) \in Nat /\ Len(z) \in Nat /\ Len(b) \in Nat /\ Len(c) \in Nat
    BY DEF Symbols
<1>5. Len(b) = 0
    BY <1>3, <1>4
<1>6. b = <<>>
    BY <1>5 DEF Symbols
<1>7. s \o <<>> = s
    BY DEF Symbols
<1>. QED
    BY <1>1, <1>6, <1>7

\* The frames delivered are fewer than the positions.
LEMMA OutLength ==
    ASSUME NEW s \in Symbols, NEW r \in Readers, NEW d, RInv(s, r, d)
    PROVE  /\ Len(d.out) \in Nat /\ DOMAIN d.out = 1 .. Len(d.out)
           /\ Len(d.at) \in Nat /\ DOMAIN d.at = 1 .. Len(d.at) /\ Len(d.out) < Len(d.at)
<1>1. d.at \in Seq(Nat \ {0}) /\ d.out \in Seq(Symbols) /\ d.frames \in Seq(Symbols)
    BY DEF RInv, ReaderType
<1>2. PICK o \in Nat : o = Len(d.out) /\ DOMAIN d.out = 1 .. o
    BY <1>1
<1>3. PICK f \in Nat : f = Len(d.frames)
    BY <1>1
<1>4. PICK l \in Nat : l = Len(d.at) /\ DOMAIN d.at = 1 .. l
    BY <1>1
<1>5. o + f < l
    BY <1>2, <1>3, <1>4 DEF RInv, FramesAreCut
<1>6. o < l
    BY <1>5
<1>. QED
    BY <1>2, <1>4, <1>6

\* What a reader has delivered are the first frames of the stream z.
CutIn(z, d) ==
    /\ d \in ReaderType /\ Positions(z, d.at)
    /\ Len(d.out) < Len(d.at)
    /\ \A i \in DOMAIN d.out : d.out[i] = FrameAt(z, d.at[i])

\* They stay its first frames, whatever arrives.
LEMMA CutsStay ==
    ASSUME NEW s \in Symbols, NEW z \in Symbols, Continues(z, s),
           NEW r \in Readers, NEW d, RInv(s, r, d)
    PROVE  CutIn(z, d)
<1>1. d \in ReaderType /\ d.at \in Seq(Nat \ {0}) /\ Positions(s, d.at)
    BY DEF RInv, ReaderType
<1>2. PICK c \in Symbols : z = s \o c
    BY DEF Continues
<1>3. Positions(z, d.at)
    BY <1>1, <1>2, PositionsLonger
<1>4. ASSUME NEW i \in DOMAIN d.out
      PROVE  d.out[i] = FrameAt(z, d.at[i])
    <2>1. d.out[i] = FrameAt(s, d.at[i])
        BY DEF RInv, FramesAreCut
    <2>2. PICK o \in Nat : o = Len(d.out) /\ i \in 1 .. o /\ o < Len(d.at)
        BY OutLength
    <2>3. i \in Nat /\ i >= 1 /\ i < Len(d.at)
        <3>1. PICK l \in Nat : l = Len(d.at) /\ o < l
            BY <2>2, OutLength
        <3>2. i \in Nat /\ i >= 1 /\ i < l
            BY <2>2, <3>1
        <3>. QED
            BY <3>1, <3>2
    <2>4. FrameAt(z, d.at[i]) = FrameAt(s, d.at[i])
        BY <1>1, <1>2, <2>3, FramesLonger
    <2>. QED
        BY <2>1, <2>4
<1>5. Len(d.out) < Len(d.at)
    BY OutLength
<1>. QED
    BY <1>1, <1>3, <1>4, <1>5 DEF CutIn

\* There is a position for every frame, and one more.
LEMMA CutLength ==
    ASSUME NEW z \in Symbols, NEW d, CutIn(z, d)
    PROVE  /\ d.at \in Seq(Nat \ {0}) /\ d.out \in Seq(Symbols)
           /\ DOMAIN d.out = 1 .. Len(d.out) /\ DOMAIN d.at = 1 .. Len(d.at)
           /\ \A i \in DOMAIN d.out :
                 i \in Nat /\ i >= 1 /\ i \in DOMAIN d.at /\ IndexOf(z, d.at[i]) # 0
<1>1. d.at \in Seq(Nat \ {0}) /\ d.out \in Seq(Symbols) /\ Positions(z, d.at)
    BY DEF CutIn, ReaderType
<1>2. PICK o \in Nat : o = Len(d.out) /\ DOMAIN d.out = 1 .. o
    BY <1>1
<1>3. PICK l \in Nat : l = Len(d.at) /\ DOMAIN d.at = 1 .. l
    BY <1>1
<1>4. o < l
    BY <1>2, <1>3 DEF CutIn
<1>5. ASSUME NEW i \in 1 .. o
      PROVE  i \in Nat /\ i >= 1 /\ i \in 1 .. l /\ IndexOf(z, d.at[i]) # 0
    <2>1. i \in Nat /\ i >= 1 /\ i \in 1 .. l /\ i \in 1 .. l - 1
        BY <1>4
    <2>2. i \in 1 .. Len(d.at) - 1
        BY <1>3, <2>1
    <2>3. IndexOf(z, d.at[i]) # 0
        BY <1>1, <2>2 DEF Positions
    <2>. QED
        BY <2>1, <2>3
<1>. QED
    BY <1>1, <1>2, <1>3, <1>5

-----------------------------------------------------------------------------
(* Two readers of one stream *)

\* They cut it at the same positions.
LEMMA SameCuts ==
    ASSUME NEW s \in Symbols, NEW at \in Seq(Nat \ {0}), Positions(s, at),
           NEW to \in Seq(Nat \ {0}), Positions(s, to),
           NEW n \in Nat, n \in DOMAIN at, n \in DOMAIN to
    PROVE  at[n] = to[n]
<1>. DEFINE T == {i \in Nat : i \in DOMAIN at /\ i \in DOMAIN to /\ at[i] # to[i]}
<1>1. SUFFICES ASSUME T # {}
               PROVE  FALSE
    OBVIOUS
<1>2. PICK i \in T : \A m \in T : i <= m
    <2>1. T \in SUBSET Nat
        OBVIOUS
    <2>. HIDE DEF T
    <2>. QED
        BY <1>1, <2>1, LeastNumber
<1>3. i \in Nat /\ i \in 1 .. Len(at) /\ i \in 1 .. Len(to) /\ at[i] # to[i]
    OBVIOUS
<1>4. i # 1
    BY <1>3 DEF Positions
<1>5. PICK h \in Nat : i = h + 1 /\ h \in 1 .. Len(at) - 1 /\ h \in 1 .. Len(to) - 1
    <2>1. i - 1 \in Nat /\ i = (i - 1) + 1 /\ i - 1 \in 1 .. Len(at) - 1 /\ i - 1 \in 1 .. Len(to) - 1
        BY <1>3, <1>4
    <2>. QED
        BY <2>1
<1>6. h \in DOMAIN at /\ h \in DOMAIN to /\ ~(i <= h)
    BY <1>5
<1>7. at[h] = to[h]
    BY <1>2, <1>6
<1>8. at[h + 1] = IndexOf(s, at[h]) + D /\ to[h + 1] = IndexOf(s, to[h]) + D
    BY <1>5 DEF Positions
<1>. QED
    BY <1>3, <1>5, <1>7, <1>8

\* One that has found all delimiters has the most of them.
LEMMA MostCuts ==
    ASSUME NEW s \in Symbols, NEW at \in Seq(Nat \ {0}), Positions(s, at),
           NEW to \in Seq(Nat \ {0}), Positions(s, to), IndexOf(s, Last(to)) = 0
    PROVE  Len(at) <= Len(to)
<1>1. SUFFICES ASSUME ~(Len(at) <= Len(to))
               PROVE  FALSE
    OBVIOUS
<1>2. PICK n \in Nat : n = Len(to) /\ n >= 1 /\ Last(to) = to[n]
    BY DEF Positions, Last
<1>3. n \in DOMAIN to /\ n \in DOMAIN at /\ n \in 1 .. Len(at) - 1
    BY <1>1, <1>2
<1>4. at[n] = to[n]
    BY <1>3, SameCuts
<1>5. IndexOf(s, at[n]) # 0
    BY <1>3 DEF Positions
<1>. QED
    BY <1>2, <1>4, <1>5

\* q accepts what r accepts: its profile does, and JavaScript takes every
\* message the others take.
Laxer(q, r) ==
    /\ q[2] = r[2] \/ q[2] = "fast" \/ r[2] = "assured"
    /\ q[1] \in {"read", "push"} \/ q[1] = r[1]

\* Readers are ordered.
LEMMA LaxerAccepts ==
    ASSUME NEW q \in Readers, NEW r \in Readers, Laxer(q, r), NEW f
    PROVE  (Decodes(r, f) => Decodes(q, f)) /\ (Fits(r[2], f) => Fits(q[2], f))
<1>0. q[2] \in Profiles /\ r[2] \in Profiles
    BY DEF Readers, Profiles, Limited
<1>1. Fits(r[2], f) => Fits(q[2], f)
    BY <1>0 DEF Laxer, Profiles, Fits
<1>2. Refused(q[2]) \subseteq Refused(r[2])
    BY <1>0 DEF Laxer, Profiles, Refused
<1>3. Unreadable(q[1]) \subseteq Unreadable(r[1])
    <2>1. CASE q[1] = r[1]
        BY <2>1
    <2>2. CASE q[1] \in {"read", "push"}
        <3>1. Unreadable(q[1]) = Invalid
            BY <2>2 DEF Unreadable
        <3>2. Invalid \subseteq Unreadable(r[1])
            BY DEF Unreadable
        <3>. QED
            BY <3>1, <3>2
    <2>. QED
        BY <2>1, <2>2 DEF Laxer
<1>4. Parses(r[1], f) => Parses(q[1], f)
    BY <1>3 DEF Parses
<1>. QED
    BY <1>1, <1>2, <1>4 DEF Decodes

\* What two readers have delivered at the same place is the same.
LEMMA SameFrames ==
    ASSUME NEW z \in Symbols, NEW d, NEW e, CutIn(z, d), CutIn(z, e),
           NEW i \in DOMAIN d.out, i \in DOMAIN e.out
    PROVE  d.out[i] = e.out[i]
<1>1. /\ d.at \in Seq(Nat \ {0}) /\ e.at \in Seq(Nat \ {0})
      /\ i \in Nat /\ i \in DOMAIN d.at /\ i \in DOMAIN e.at
    BY CutLength
<1>2. d.at[i] = e.at[i]
    BY <1>1, SameCuts DEF CutIn
<1>. QED
    BY <1>2 DEF CutIn

\* What a reader has delivered is not refused by itself or a laxer reader.
LEMMA DeliveredIsAccepted ==
    ASSUME NEW z \in Symbols, NEW r \in Readers, NEW d, CutIn(z, d), OnlyAccepted(r, d),
           NEW q \in Readers, Laxer(q, r), NEW n \in DOMAIN d.out
    PROVE  ~RefusedAt(z, q, d.at[n])
<1>1. r[2] \in Profiles
    BY DEF Readers, Profiles, Limited
<1>2. IndexOf(z, d.at[n]) # 0
    BY CutLength
<1>3. Decodes(r, FrameAt(z, d.at[n]))
    BY DEF CutIn, OnlyAccepted
<1>4. Decodes(q, FrameAt(z, d.at[n]))
    BY <1>1, <1>3, LaxerAccepts
<1>. QED
    BY <1>2, <1>4 DEF RefusedAt

\* A reader that has returned has read a stream that its profile and a laxer
\* one accept.
LEMMA Accepted ==
    ASSUME NEW s \in Symbols, NEW r \in Readers, NEW d, RInv(s, r, d), d.pc = "idle",
           NEW q \in Readers, Laxer(q, r), NEW n \in DOMAIN d.at
    PROVE  ~RefusedAt(s, q, d.at[n])
<1>1. r[2] \in Profiles
    BY DEF Readers, Profiles, Limited
<1>2. CutIn(s, d)
    BY ContinuesSelf, CutsStay
<1>3. PICK o \in Nat : o = Len(d.out) /\ DOMAIN d.out = 1 .. o
    BY OutLength
<1>4. d.frames = <<>> /\ d.rest = From(s, Last(d.at)) /\ IndexOf(s, Last(d.at)) = 0
    BY AtIdle
<1>5. o + 1 = Len(d.at) /\ Last(d.at) = d.at[o + 1] /\ DOMAIN d.at = 1 .. o + 1
    <2>1. Len(d.out) + 1 = Len(d.at) /\ Last(d.at) = d.at[Len(d.out) + 1]
        BY <1>4, AtLast
    <2>. QED
        BY <1>3, <2>1, OutLength
<1>6. CASE n <= o
    <2>1. n \in DOMAIN d.out
        BY <1>3, <1>5, <1>6
    <2>2. OnlyAccepted(r, d)
        BY DEF RInv
    <2>. QED
        BY <1>2, <2>1, <2>2, DeliveredIsAccepted
<1>7. CASE ~(n <= o)
    <2>1. n = o + 1
        BY <1>5, <1>7
    <2>2. Fits(r[2], d.rest)
        BY DEF RInv, OnlyAccepted
    <2>3. Fits(q[2], From(s, d.at[n])) /\ IndexOf(s, d.at[n]) = 0
        BY <1>1, <1>4, <1>5, <2>1, <2>2, LaxerAccepts
    <2>. QED
        BY <2>3 DEF RefusedAt
<1>. QED
    BY <1>6, <1>7

\* What a reader refuses is not read to its end by one of the same or a
\* stricter profile.
LEMMA NotAccepted ==
    ASSUME NEW s \in Symbols, NEW r \in Readers, NEW q \in Readers, NEW d, NEW e,
           RInv(s, r, d), RInv(s, q, e), Laxer(q, r),
           NEW n \in DOMAIN e.at, RefusedAt(s, q, e.at[n])
    PROVE  d.pc # "idle"
<1>. SUFFICES ASSUME d.pc = "idle"
              PROVE  FALSE
    OBVIOUS
<1>1. /\ d.at \in Seq(Nat \ {0}) /\ Positions(s, d.at)
      /\ e.at \in Seq(Nat \ {0}) /\ Positions(s, e.at)
    BY DEF RInv, ReaderType
<1>2. IndexOf(s, Last(d.at)) = 0
    BY AtIdle
<1>3. Len(e.at) <= Len(d.at)
    BY <1>1, <1>2, MostCuts
<1>4. n \in Nat /\ n \in DOMAIN d.at
    BY <1>1, <1>3
<1>5. d.at[n] = e.at[n]
    BY <1>1, <1>4, SameCuts
<1>6. q[2] \in Profiles
    BY DEF Readers, Profiles, Limited
<1>. QED
    BY <1>4, <1>5, <1>6, Accepted

\* Two readers that have returned have delivered the same and keep the same.
LEMMA BothIdle ==
    ASSUME NEW s \in Symbols, NEW r \in Readers, NEW q \in Readers, NEW d, NEW e,
           RInv(s, r, d), RInv(s, q, e), d.pc = "idle", e.pc = "idle"
    PROVE  Same(d, e)
<1>1. /\ d \in ReaderType /\ d.at \in Seq(Nat \ {0}) /\ Positions(s, d.at) /\ d.frames = <<>>
      /\ IndexOf(s, Last(d.at)) = 0 /\ d.rest = From(s, Last(d.at))
    BY AtIdle
<1>2. /\ e \in ReaderType /\ e.at \in Seq(Nat \ {0}) /\ Positions(s, e.at) /\ e.frames = <<>>
      /\ IndexOf(s, Last(e.at)) = 0 /\ e.rest = From(s, Last(e.at))
    BY AtIdle
<1>3. PICK n \in Nat : n = Len(d.out) /\ n + 1 = Len(d.at) /\ Last(d.at) = d.at[n + 1] /\ n + 1 \in DOMAIN d.at
    BY <1>1, AtLast
<1>4. PICK m \in Nat : m = Len(e.out) /\ m + 1 = Len(e.at) /\ Last(e.at) = e.at[m + 1] /\ m + 1 \in DOMAIN e.at
    BY <1>2, AtLast
<1>5. n = m
    <2>1. Len(d.at) <= Len(e.at) /\ Len(e.at) <= Len(d.at)
        BY <1>1, <1>2, MostCuts
    <2>. QED
        BY <1>3, <1>4, <2>1
<1>6. Last(d.at) = Last(e.at)
    <2>1. d.at[n + 1] = e.at[n + 1]
        BY <1>1, <1>2, <1>3, <1>4, <1>5, SameCuts
    <2>. QED
        BY <1>3, <1>4, <1>5, <2>1
<1>7. d.out \in Seq(Symbols) /\ e.out \in Seq(Symbols)
    BY <1>1, <1>2 DEF ReaderType
<1>8. \A i \in 1 .. n : d.out[i] = e.out[i]
    <2>1. DOMAIN d.out = 1 .. n /\ DOMAIN e.out = 1 .. n
        <3>1. DOMAIN d.out = 1 .. Len(d.out) /\ DOMAIN e.out = 1 .. Len(e.out)
            BY OutLength
        <3>. QED
            BY <1>3, <1>4, <1>5, <3>1
    <2>2. CutIn(s, d) /\ CutIn(s, e)
        BY ContinuesSelf, CutsStay
    <2>3. ASSUME NEW i \in DOMAIN d.out, i \in DOMAIN e.out
          PROVE  d.out[i] = e.out[i]
        BY <2>2, <2>3, SameFrames
    <2>. QED
        BY <2>1, <2>3
<1>9. d.out = e.out
    BY <1>3, <1>4, <1>5, <1>7, <1>8, SameSeq
<1>. QED
    BY <1>1, <1>2, <1>6, <1>9 DEF Same

\* What a profile accepts, a laxer one accepts.
LEMMA IdleNests ==
    ASSUME NEW s \in Symbols, NEW r \in Readers, NEW q \in Readers, NEW d, NEW e,
           RInv(s, r, d), RInv(s, q, e), Laxer(q, r), d.pc = "idle", ~Busy(e)
    PROVE  Same(d, e)
<1>1. CASE e.pc = "failed"
    <2>1. PICK n \in DOMAIN e.at : RefusedAt(s, q, e.at[n])
        BY <1>1 DEF RInv, RefusedWhy
    <2>2. d.pc # "idle"
        BY <2>1, NotAccepted
    <2>. QED
        BY <2>2
<1>2. CASE e.pc = "idle"
    BY <1>2, BothIdle
<1>. QED
    BY <1>1, <1>2 DEF Busy

\* A reader of a stricter profile, or push(), has delivered no more than one
\* that refuses only what comes next, and that may have read on.
LEMMA OutNests ==
    ASSUME NEW s \in Symbols, NEW z \in Symbols, Continues(z, s),
           NEW r \in Readers, NEW q \in Readers, NEW d, NEW e,
           RInv(s, r, d), RInv(z, q, e), Laxer(q, r), ~Busy(e), q[1] # "push" \/ q[2] = "fast"
    PROVE  Len(d.out) <= Len(e.out) /\ \A i \in DOMAIN d.out : d.out[i] = e.out[i]
<1>1. CutIn(z, d) /\ CutIn(z, e)
    BY ContinuesSelf, CutsStay
<1>2. /\ d.at \in Seq(Nat \ {0}) /\ Positions(z, d.at)
      /\ e.at \in Seq(Nat \ {0}) /\ Positions(z, e.at)
    BY <1>1, CutLength DEF CutIn
<1>3. PICK n \in Nat : n = Len(d.out) /\ DOMAIN d.out = 1 .. n
    BY OutLength
<1>4. PICK m \in Nat : m = Len(e.out) /\ DOMAIN e.out = 1 .. m
    BY OutLength
<1>5. SUFFICES n <= m
    <2>1. ASSUME n <= m, NEW i \in DOMAIN d.out
          PROVE  d.out[i] = e.out[i]
        <3>1. i \in DOMAIN e.out
            BY <1>3, <1>4, <2>1
        <3>. QED
            BY <1>1, <3>1, SameFrames
    <2>. QED
        BY <1>3, <1>4, <2>1
<1>6. CASE e.pc = "idle"
    <2>1. e.frames = <<>> /\ IndexOf(z, Last(e.at)) = 0
        BY <1>6, AtIdle
    <2>2. Len(e.out) + 1 = Len(e.at)
        BY <1>6, <2>1, AtLast
    <2>3. Len(d.at) <= Len(e.at)
        BY <1>2, <2>1, MostCuts
    <2>4. PICK l \in Nat : l = Len(d.at) /\ n < l
        BY <1>3, OutLength
    <2>5. l <= m + 1
        BY <1>4, <2>2, <2>3, <2>4
    <2>. QED
        BY <2>4, <2>5
<1>7. CASE e.pc = "failed"
    <2>1. PICK k \in DOMAIN e.at : k = Len(e.out) + 1 /\ RefusedAt(z, q, e.at[k])
        BY <1>7 DEF RInv, RefusedWhy
    <2>2. k = m + 1 /\ k \in Nat
        BY <1>4, <2>1
    <2>3. SUFFICES ASSUME ~(n <= m)
                   PROVE  FALSE
        OBVIOUS
    <2>4. k \in DOMAIN d.out
        BY <1>3, <2>2, <2>3
    <2>5. d.at[k] = e.at[k]
        <3>1. k \in DOMAIN d.at
            BY <1>1, <2>4, CutLength
        <3>. QED
            BY <1>2, <2>1, <2>2, <3>1, SameCuts
    <2>6. OnlyAccepted(r, d) /\ q[2] \in Profiles
        BY DEF RInv, Readers, Profiles, Limited
    <2>. QED
        BY <1>1, <2>1, <2>4, <2>5, <2>6, DeliveredIsAccepted
<1>. QED
    BY <1>6, <1>7 DEF Busy

\* JavaScript readers of one profile that refuse only what comes next are alike.
LEMMA ExactlySame ==
    ASSUME NEW s \in Symbols, NEW r \in Readers, NEW q \in Readers, NEW d, NEW e,
           RInv(s, r, d), RInv(s, q, e), r[2] = q[2], ~Busy(d), ~Busy(e),
           r[1] = "read" \/ (r[1] = "push" /\ r[2] = "fast"),
           q[1] = "read" \/ (q[1] = "push" /\ q[2] = "fast")
    PROVE  Same(d, e)
<1>1. Laxer(q, r) /\ Laxer(r, q)
    BY DEF Laxer
<1>2. CASE d.pc = "idle"
    BY <1>1, <1>2, IdleNests
<1>3. CASE e.pc = "idle"
    <2>1. Same(e, d)
        BY <1>1, <1>3, IdleNests
    <2>. QED
        BY <2>1 DEF Same
<1>4. CASE d.pc = "failed" /\ e.pc = "failed"
    <2>1. Len(d.out) <= Len(e.out) /\ \A i \in DOMAIN d.out : d.out[i] = e.out[i]
        BY <1>1, ContinuesSelf, OutNests
    <2>2. Len(e.out) <= Len(d.out)
        BY <1>1, ContinuesSelf, OutNests
    <2>3. d.out \in Seq(Symbols) /\ e.out \in Seq(Symbols)
        BY DEF RInv, ReaderType
    <2>4. PICK n \in Nat : n = Len(d.out) /\ n = Len(e.out) /\ DOMAIN d.out = 1 .. n
        BY <2>1, <2>2, <2>3
    <2>5. d.out = e.out
        BY <2>1, <2>3, <2>4, SameSeq
    <2>6. d.rest = <<>> /\ e.rest = <<>>
        BY <1>4 DEF RInv, RestIsKept
    <2>. QED
        BY <1>4, <2>5, <2>6 DEF Same
<1>. QED
    BY <1>2, <1>3, <1>4 DEF Busy

\* A reader has failed at a complete frame that is no message to its language.
StoppedAlone(s, r, e) ==
    /\ e.pc = "failed"
    /\ Len(e.out) + 1 \in DOMAIN e.at
    /\ IndexOf(s, e.at[Len(e.out) + 1]) # 0
    /\ ~Parses(r[1], FrameAt(s, e.at[Len(e.out) + 1]))

\* A reader of another language that has failed, and the JavaScript one of its
\* profile, which may have read on if the other has stopped alone: they have
\* delivered the same, or the JavaScript one also the frame at which the other
\* has stopped alone.
LEMMA FailedAgrees ==
    ASSUME NEW s \in Symbols, NEW z \in Symbols, Continues(z, s),
           NEW q \in Readers, NEW r \in Readers, q[1] = "read", r[1] # "push", q[2] = r[2],
           NEW d, NEW e, RInv(z, q, d), RInv(s, r, e), ~Busy(d), e.pc = "failed",
           z = s \/ StoppedAlone(s, r, e)
    PROVE  \/ Same(d, e)
           \/ /\ Len(e.out) < Len(d.out) /\ \A i \in DOMAIN e.out : e.out[i] = d.out[i]
              /\ ~Parses(r[1], d.out[Len(e.out) + 1])
              /\ Len(e.out) + 1 \in DOMAIN e.at
              /\ IndexOf(z, e.at[Len(e.out) + 1]) # 0
              /\ d.out[Len(e.out) + 1] = FrameAt(z, e.at[Len(e.out) + 1])
<1>1. Len(e.out) <= Len(d.out) /\ \A i \in DOMAIN e.out : e.out[i] = d.out[i]
    <2>1. Laxer(q, r)
        BY DEF Laxer
    <2>. QED
        BY <2>1, OutNests
<1>2. /\ CutIn(z, d) /\ d.at \in Seq(Nat \ {0}) /\ Positions(z, d.at)
      /\ CutIn(z, e) /\ e.at \in Seq(Nat \ {0}) /\ Positions(z, e.at)
    <2>1. CutIn(z, d) /\ CutIn(z, e)
        BY ContinuesSelf, CutsStay
    <2>. QED
        BY <2>1, CutLength DEF CutIn
<1>3. PICK n \in Nat : n = Len(e.out) + 1 /\ n >= 1
    BY OutLength
<1>4. n \in DOMAIN e.at /\ RefusedAt(s, r, e.at[n])
    BY <1>3 DEF RInv, RefusedWhy
<1>5. PICK x \in Nat : x = e.at[n] /\ x >= 1
    BY <1>2, <1>4, PositionBound
<1>6. PICK c \in Symbols : z = s \o c
    BY DEF Continues
<1>7. PICK m \in Nat : m = Len(d.out) /\ DOMAIN d.out = 1 .. m /\ Len(d.at) \in Nat /\ DOMAIN d.at = 1 .. Len(d.at)
    BY OutLength
<1>8. CASE n <= m
    <2>1. n \in DOMAIN d.out
        BY <1>3, <1>7, <1>8
    <2>2. n \in DOMAIN d.at /\ IndexOf(z, d.at[n]) # 0
        BY <1>2, <2>1, CutLength
    <2>3. d.at[n] = x
        BY <1>2, <1>4, <1>5, <2>2, SameCuts
    <2>4. d.out[n] = FrameAt(z, x) /\ Decodes(q, d.out[n])
        BY <1>2, <2>1, <2>3 DEF CutIn, RInv, OnlyAccepted
    <2>5. CASE StoppedAlone(s, r, e)
        <3>1. IndexOf(s, x) # 0 /\ ~Parses(r[1], FrameAt(s, x))
            BY <1>3, <1>5, <2>5 DEF StoppedAlone
        <3>2. FrameAt(z, x) = FrameAt(s, x)
            BY <1>5, <1>6, <3>1, FrameLonger
        <3>. QED
            BY <1>1, <1>3, <1>4, <1>5, <1>7, <1>8, <2>2, <2>3, <2>4, <3>1, <3>2, OutLength
    <2>6. CASE z = s
        <3>1. ~Decodes(r, FrameAt(z, x))
            BY <1>4, <1>5, <2>2, <2>3, <2>6 DEF RefusedAt
        <3>2. ~Parses(r[1], FrameAt(z, x))
            BY <2>4, <3>1 DEF Decodes
        <3>. QED
            BY <1>1, <1>3, <1>4, <1>5, <1>7, <1>8, <2>2, <2>3, <2>4, <3>2, OutLength
    <2>. QED
        BY <2>5, <2>6
<1>9. CASE ~(n <= m)
    <2>1. Len(e.out) = m /\ n = m + 1
        BY <1>1, <1>3, <1>7, <1>9, OutLength
    <2>2. CASE d.pc = "failed"
        <3>1. d.rest = <<>> /\ e.rest = <<>> /\ d.out \in Seq(Symbols) /\ e.out \in Seq(Symbols)
            BY <2>2 DEF RInv, RestIsKept, ReaderType
        <3>2. \A j \in 1 .. m : e.out[j] = d.out[j]
            BY <1>1, <2>1, OutLength
        <3>3. d.out = e.out
            BY <1>7, <2>1, <3>1, <3>2, SameSeq
        <3>. QED
            BY <2>2, <3>1, <3>3 DEF Same
    <2>3. CASE d.pc = "idle"
        <3>1. d.frames = <<>> /\ IndexOf(z, Last(d.at)) = 0
            BY <2>3, AtIdle
        <3>2. n \in DOMAIN d.at /\ Last(d.at) = d.at[n]
            BY <1>7, <2>1, <2>3, <3>1, AtLast
        <3>3. d.at[n] = x /\ IndexOf(z, x) = 0
            BY <1>2, <1>4, <1>5, <3>1, <3>2, SameCuts
        <3>4. CASE StoppedAlone(s, r, e)
            <4>1. IndexOf(s, x) # 0
                BY <1>3, <1>5, <3>4 DEF StoppedAlone
            <4>. QED
                BY <1>5, <1>6, <3>3, <4>1, IndexOfLonger
        <3>5. CASE z = s
            <4>1. ~Fits(r[2], From(z, x))
                BY <1>4, <1>5, <3>3, <3>5 DEF RefusedAt
            <4>2. RefusedAt(z, q, d.at[n])
                BY <3>3, <4>1 DEF RefusedAt
            <4>3. Laxer(q, q)
                BY DEF Laxer
            <4>. QED
                BY <2>3, <3>2, <4>2, <4>3, Accepted
        <3>. QED
            BY <3>4, <3>5
    <2>. QED
        BY <2>2, <2>3 DEF Busy
<1>. QED
    BY <1>8, <1>9

\* Where JavaScript has returned, another language has failed alone.
LEMMA FailedAlone ==
    ASSUME NEW s \in Symbols, NEW q \in Readers, NEW r \in Readers,
           q[1] = "read", r[1] # "push", q[2] = r[2],
           NEW d, NEW e, RInv(s, q, d), RInv(s, r, e), d.pc = "idle", e.pc = "failed"
    PROVE  StoppedAlone(s, r, e)
<1>1. ~Same(d, e) /\ ~Busy(d)
    BY DEF Same, Busy
<1>. QED
    BY <1>1, ContinuesSelf, FailedAgrees DEF StoppedAlone

-----------------------------------------------------------------------------
(* The invariant of the specification *)

\* A reader was given the beginning of the stream, up to the chunk in which it
\* has failed; a stricter one no more than a laxer one, and one of another
\* language as much as the JavaScript one, or it has stopped alone.  Every
\* reader has cut what it was given as far as it says, delivered what it
\* accepts, and failed only for what it refuses.
WereGiven(given) ==
    /\ \A r \in Readers : RInv(given[r], r, reader[r])
    /\ \A r \in Readers : reader[r].pc # "failed" => given[r] = stream
    /\ \A r \in Readers : Continues(stream, given[r])
    /\ \A q \in Readers, r \in Readers : Laxer(q, r) => Continues(given[q], given[r])
    /\ \A q \in Readers, r \in Readers :
          q[1] = "read" /\ r[1] # "push" /\ q[2] = r[2] =>
             given[q] = given[r] \/ StoppedAlone(given[r], r, reader[r])

IInv ==
    /\ stream \in Symbols
    /\ reader \in [Readers -> ReaderType]
    /\ \E given \in [Readers -> Symbols] : WereGiven(given)

\* At the beginning nothing has arrived.
LEMMA InitIInv == Init => IInv
<1>. SUFFICES ASSUME Init
              PROVE  IInv
    OBVIOUS
<1>1. stream = <<>> /\ stream \in Symbols /\ Len(stream) = 0
    BY DEF Init, Symbols
<1>2. /\ Fresh \in ReaderType /\ Fresh.pc = "idle" /\ Fresh.out = <<>> /\ Fresh.frames = <<>>
      /\ Fresh.rest = <<>> /\ Fresh.chunk = <<>> /\ Fresh.at = <<1>>
    <2>1. <<>> \in Symbols /\ <<>> \in Seq(Symbols) /\ <<1>> \in Seq(Nat \ {0})
        BY DEF Symbols
    <2>. QED
        BY <2>1 DEF Fresh, ReaderType
<1>3. Len(Fresh.at) = 1 /\ Fresh.at[1] = 1 /\ Last(Fresh.at) = 1
    BY <1>2 DEF Last
<1>4. IndexOf(stream, 1) = 0
    <2>1. \A i \in Nat : i >= 1 => ~Matches(stream, i)
        BY <1>1, DelimiterLength DEF Matches
    <2>. QED
        BY <1>1, <2>1, IndexOfIsNone
<1>5. From(stream, 1) = <<>>
    BY <1>1 DEF From
<1>6. Positions(stream, Fresh.at)
    <2>1. 1 .. Len(Fresh.at) - 1 = {}
        BY <1>3
    <2>. QED
        BY <1>3, <2>1 DEF Positions
<1>7. Len(Fresh.out) = 0 /\ Len(Fresh.frames) = 0 /\ DOMAIN Fresh.out = {} /\ DOMAIN Fresh.frames = {}
    BY <1>2
<1>8. FramesAreCut(stream, Fresh)
    BY <1>3, <1>7 DEF FramesAreCut
<1>9. RestIsKept(stream, Fresh)
    BY <1>2, <1>3, <1>4, <1>5 DEF RestIsKept
<1>10. ASSUME NEW r \in Readers
       PROVE  RInv(stream, r, Fresh)
    <2>1. Len(Fresh.rest) <= MaxMessageSize
        BY <1>2, FramingAssumption
    <2>2. OnlyAccepted(r, Fresh)
        BY <1>7, <2>1 DEF OnlyAccepted, Fits
    <2>3. RefusedWhy(stream, r, Fresh)
        BY <1>2 DEF RefusedWhy
    <2>. QED
        BY <1>2, <1>6, <1>8, <1>9, <2>2, <2>3 DEF RInv
<1>. DEFINE given == [r \in Readers |-> stream]
<1>11. given \in [Readers -> Symbols] /\ \A r \in Readers : given[r] = stream
    BY <1>1
<1>12. \A r \in Readers : reader[r] = Fresh
    BY DEF Init
<1>. HIDE DEF Fresh, given
<1>13. WereGiven(given)
    BY <1>1, <1>10, <1>11, <1>12, ContinuesSelf DEF WereGiven
<1>14. reader \in [Readers -> ReaderType]
    BY <1>2 DEF Init
<1>. QED
    BY <1>1, <1>11, <1>13, <1>14 DEF IInv

\* A chunk is a sequence of symbols.
LEMMA ChunkType ==
    ASSUME NEW c \in Chunks
    PROVE  c \in Symbols
<1>1. PICK w \in [1 .. MaxChunk -> Alphabet], n \in 1 .. MaxChunk : c = SubSeq(w, 1, n)
    BY DEF Chunks, Words
<1>2. PICK m \in Nat : m = n /\ m >= 1
    BY <1>1
<1>3. w \in Symbols /\ Len(w) = MaxChunk
    BY FramingAssumption DEF Symbols
<1>4. m <= Len(w) /\ m = m - 1 + 1
    BY <1>2, <1>3, FramingAssumption
<1>5. SubSeq(w, 1, m) \in Symbols
    BY <1>2, <1>3, <1>4, Slice
<1>. QED
    BY <1>1, <1>2, <1>5

\* Between chunks, if a reader has returned, a laxer one has, too.
LEMMA IdleTogether ==
    ASSUME stream \in Symbols, NEW given \in [Readers -> Symbols], WereGiven(given), Settled,
           NEW r \in Readers, NEW q \in Readers, Laxer(q, r), reader[r].pc = "idle"
    PROVE  reader[q].pc = "idle"
<1>2. given[r] = stream
    BY DEF WereGiven
<1>3. Continues(given[q], stream) /\ Continues(stream, given[q]) /\ given[q] \in Symbols
    BY <1>2 DEF WereGiven
<1>4. given[q] = stream
    BY <1>3, ContinuesBoth
<1>5. RInv(stream, r, reader[r]) /\ RInv(stream, q, reader[q])
    BY <1>2, <1>4 DEF WereGiven
<1>6. ~Busy(reader[q])
    BY DEF Settled
<1>7. Same(reader[r], reader[q])
    BY <1>5, <1>6, IdleNests
<1>. QED
    BY <1>7 DEF Same

\* A chunk reaches the readers that have not failed.
LEMMA ArriveIInv ==
    ASSUME IInv, Arrive
    PROVE  IInv'
<1>1. PICK c \in Chunks :
         /\ stream' = stream \o c
         /\ reader' = [r \in Readers |-> IF reader[r].pc = "idle" THEN Take(r[1], reader[r], c) ELSE reader[r]]
    BY DEF Arrive
<1>2. c \in Symbols /\ stream \in Symbols
    BY ChunkType DEF IInv
<1>3. stream' \in Symbols
    BY <1>1, <1>2, Joining
<1>4. PICK given \in [Readers -> Symbols] : WereGiven(given)
    BY DEF IInv
<1>5. Settled
    BY DEF Arrive
<1>7. PICK now \in [Readers -> Symbols] :
         \A r \in Readers : now[r] = IF reader[r].pc = "idle" THEN stream' ELSE given[r]
    <2>. DEFINE f == [r \in Readers |-> IF reader[r].pc = "idle" THEN stream' ELSE given[r]]
    <2>1. f \in [Readers -> Symbols]
        BY <1>3
    <2>2. \A r \in Readers : f[r] = IF reader[r].pc = "idle" THEN stream' ELSE given[r]
        OBVIOUS
    <2>. HIDE DEF f
    <2>. QED
        BY <2>1, <2>2
<1>8. ASSUME NEW r \in Readers
      PROVE  /\ RInv(now[r], r, reader'[r])
             /\ reader'[r].pc # "failed" => now[r] = stream'
    <2>1. CASE reader[r].pc = "idle"
        <3>1. RInv(stream, r, reader[r])
            BY <1>4, <2>1 DEF WereGiven
        <3>2. RInv(stream \o c, r, Take(r[1], reader[r], c))
            BY <1>2, <2>1, <3>1, TakeInv
        <3>3. now[r] = stream \o c
            BY <1>1, <1>7, <2>1
        <3>4. reader'[r] = Take(r[1], reader[r], c)
            BY <1>1, <2>1
        <3>. QED
            BY <1>1, <3>2, <3>3, <3>4
    <2>2. CASE reader[r].pc # "idle"
        <3>1. reader[r].pc = "failed" /\ reader'[r] = reader[r]
            BY <1>1, <1>5, <2>2 DEF Settled, Busy
        <3>2. now[r] = given[r]
            BY <1>7, <2>2
        <3>. QED
            BY <1>4, <3>1, <3>2 DEF WereGiven
    <2>. QED
        BY <2>1, <2>2
<1>9. ASSUME NEW r \in Readers
       PROVE  Continues(stream', given[r]) /\ Continues(stream', now[r])
    <2>1. Continues(stream \o c, given[r])
        BY <1>2, <1>4, ContinuesOn DEF WereGiven
    <2>2. Continues(stream', stream')
        BY <1>3, ContinuesSelf
    <2>. QED
        BY <1>1, <1>7, <2>1, <2>2
<1>10. ASSUME NEW q \in Readers, NEW r \in Readers, Laxer(q, r)
       PROVE  Continues(now[q], now[r])
    <2>1. CASE reader[q].pc = "idle"
        BY <1>7, <1>9, <2>1
    <2>2. CASE reader[q].pc # "idle"
        <3>1. reader[r].pc # "idle"
            BY <1>2, <1>4, <1>5, <1>10, <2>2, IdleTogether
        <3>2. now[q] = given[q] /\ now[r] = given[r]
            BY <1>7, <2>2, <3>1
        <3>. QED
            BY <1>4, <1>10, <3>2 DEF WereGiven
    <2>. QED
        BY <2>1, <2>2
<1>13. ASSUME NEW q \in Readers, NEW r \in Readers, q[1] = "read", r[1] # "push", q[2] = r[2]
       PROVE  now[q] = now[r] \/ StoppedAlone(now[r], r, reader'[r])
    <2>1. given[q] = given[r] \/ StoppedAlone(given[r], r, reader[r])
        BY <1>4, <1>13 DEF WereGiven
    <2>2. CASE StoppedAlone(given[r], r, reader[r])
        <3>1. reader[r].pc = "failed"
            BY <2>2 DEF StoppedAlone
        <3>2. now[r] = given[r] /\ reader'[r] = reader[r]
            BY <1>1, <1>7, <3>1
        <3>. QED
            BY <2>2, <3>2
    <2>3. CASE given[q] = given[r] /\ reader[q].pc = "idle" /\ reader[r].pc # "idle"
        <3>1. reader[r].pc = "failed" /\ reader'[r] = reader[r] /\ now[r] = given[r]
            BY <1>1, <1>5, <1>7, <2>3 DEF Settled, Busy
        <3>2. RInv(given[r], q, reader[q]) /\ RInv(given[r], r, reader[r]) /\ given[r] \in Symbols
            BY <1>4, <2>3 DEF WereGiven
        <3>3. StoppedAlone(given[r], r, reader[r])
            BY <1>13, <2>3, <3>1, <3>2, FailedAlone
        <3>. QED
            BY <3>1, <3>3
    <2>4. CASE given[q] = given[r] /\ ~(reader[q].pc = "idle" /\ reader[r].pc # "idle")
        <3>1. reader[r].pc = "idle" => reader[q].pc = "idle"
            <4>1. Laxer(q, r)
                BY <1>13 DEF Laxer
            <4>. QED
                BY <1>2, <1>4, <1>5, <4>1, IdleTogether
        <3>. QED
            BY <1>7, <2>4, <3>1
    <2>. QED
        BY <2>1, <2>2, <2>3, <2>4
<1>11. WereGiven(now)'
    BY <1>8, <1>9, <1>10, <1>13 DEF WereGiven
<1>12. reader' \in [Readers -> ReaderType]
    <2>1. \A r \in Readers : reader'[r] \in ReaderType
        BY <1>8 DEF RInv
    <2>2. DOMAIN reader' = Readers /\ reader' = [r \in Readers |-> reader'[r]]
        BY <1>1
    <2>. QED
        BY <2>1, <2>2
<1>. QED
    BY <1>3, <1>11, <1>12 DEF IInv

\* An iteration leaves a reader that has failed as it is.
LEMMA StepOfFailed ==
    ASSUME NEW r, NEW d, d.pc = "failed"
    PROVE  Step(r, d) = d
BY DEF Step

\* All readers iterate.
LEMMA IterateIInv ==
    ASSUME IInv, Iterate
    PROVE  IInv'
<1>1. stream' = stream /\ reader' = [r \in Readers |-> Step(r, reader[r])] /\ stream \in Symbols
    BY DEF Iterate, IInv
<1>2. PICK given \in [Readers -> Symbols] : WereGiven(given)
    BY DEF IInv
<1>3. ASSUME NEW r \in Readers
      PROVE  /\ RInv(given[r], r, reader'[r])
             /\ reader'[r].pc # "failed" => given[r] = stream'
    <2>2. RInv(given[r], r, Step(r, reader[r]))
        BY <1>2, StepInv DEF WereGiven
    <2>3. reader'[r].pc # "failed" => reader[r].pc # "failed"
        BY <1>1, StepOfFailed
    <2>. QED
        BY <1>1, <1>2, <2>2, <2>3 DEF WereGiven
<1>6. ASSUME NEW q \in Readers, NEW r \in Readers, q[1] = "read", r[1] # "push", q[2] = r[2]
      PROVE  given[q] = given[r] \/ StoppedAlone(given[r], r, reader'[r])
    <2>1. given[q] = given[r] \/ StoppedAlone(given[r], r, reader[r])
        BY <1>2, <1>6 DEF WereGiven
    <2>2. ASSUME StoppedAlone(given[r], r, reader[r])
          PROVE  reader'[r] = reader[r]
        BY <1>1, <2>2, StepOfFailed DEF StoppedAlone
    <2>. QED
        BY <2>1, <2>2
<1>4. WereGiven(given)'
    BY <1>1, <1>2, <1>3, <1>6 DEF WereGiven
<1>5. reader' \in [Readers -> ReaderType]
    <2>1. \A r \in Readers : reader'[r] \in ReaderType
        BY <1>3 DEF RInv
    <2>2. DOMAIN reader' = Readers /\ reader' = [r \in Readers |-> reader'[r]]
        BY <1>1
    <2>. QED
        BY <2>1, <2>2
<1>. QED
    BY <1>1, <1>4, <1>5 DEF IInv

\* Framing keeps it: the invariant the properties follow from.
THEOREM Invariance == Spec => []IInv
<1>1. IInv /\ [Next]_vars => IInv'
    <2>. SUFFICES ASSUME IInv, [Next]_vars
                  PROVE  IInv'
        OBVIOUS
    <2>1. CASE Arrive
        BY <2>1, ArriveIInv
    <2>2. CASE Iterate
        BY <2>2, IterateIInv
    <2>3. CASE UNCHANGED vars
        BY <2>3 DEF vars, IInv, WereGiven
    <2>. QED
        BY <2>1, <2>2, <2>3 DEF Next
<1>. QED
    BY <1>1, InitIInv, PTL DEF Spec

-----------------------------------------------------------------------------
(* The properties *)

\* What the invariant says of one reader's cuts.
LEMMA CutsAreRight ==
    ASSUME IInv, NEW r \in Readers
    PROVE  CutOf(reader[r])
<1>1. stream \in Symbols
    BY DEF IInv
<1>2. PICK given \in [Readers -> Symbols] : WereGiven(given)
    BY DEF IInv
<1>3. r[2] \in Profiles
    BY DEF Readers, Profiles, Limited
<1>4. PICK d : d = reader[r] /\ RInv(given[r], r, d) /\ CutIn(stream, d)
    <2>1. RInv(given[r], r, reader[r])
        BY <1>2 DEF WereGiven
    <2>2. given[r] \in Symbols /\ Continues(stream, given[r])
        BY <1>2, <1>3 DEF WereGiven
    <2>3. CutIn(stream, reader[r])
        BY <1>1, <2>1, <2>2, CutsStay
    <2>. QED
        BY <2>1, <2>3
<1>5. d.at \in Seq(Nat \ {0}) /\ Positions(stream, d.at) /\ Len(d.out) < Len(d.at)
    BY <1>1, <1>4, CutLength DEF CutIn
<1>6. ASSUME NEW i \in DOMAIN d.out
      PROVE  d.out[i] = SubSeq(stream, d.at[i], d.at[i + 1] - D - 1)
    <2>1. d.out[i] = SubSeq(stream, d.at[i], IndexOf(stream, d.at[i]) - 1)
        BY <1>4 DEF CutIn, FrameAt
    <2>2. i \in Nat /\ i >= 1 /\ i \in DOMAIN d.at /\ DOMAIN d.out = 1 .. Len(d.out)
        BY <1>1, <1>4, CutLength
    <2>3. i \in 1 .. Len(d.at) - 1
        <3>1. PICK n \in Nat : n = Len(d.out)
            BY <1>1, <1>4, CutLength
        <3>2. PICK l \in Nat : l = Len(d.at)
            BY <1>5
        <3>3. i \in 1 .. n /\ n < l
            BY <1>5, <2>2, <3>1, <3>2
        <3>4. i \in 1 .. l - 1
            BY <3>3
        <3>. QED
            BY <3>2, <3>4
    <2>4. d.at[i + 1] = IndexOf(stream, d.at[i]) + D
        BY <1>5, <2>3 DEF Positions
    <2>5. IndexOf(stream, d.at[i]) \in Nat
        <3>1. d.at[i] \in Nat /\ d.at[i] >= 1
            BY <1>5, <2>2
        <3>. QED
            BY <1>1, <3>1, IndexOfFinds
    <2>6. d.at[i + 1] - D - 1 = IndexOf(stream, d.at[i]) - 1
        BY <2>4, <2>5, DelimiterLength
    <2>. QED
        BY <2>1, <2>6
<1>7. ASSUME d.pc = "idle"
      PROVE  /\ Len(d.out) = Len(d.at) - 1
             /\ d.rest = SubSeq(stream, Last(d.at), Len(stream))
             /\ IndexOf(stream, Last(d.at)) = 0
    <2>1. RInv(stream, r, d)
        BY <1>2, <1>4, <1>7 DEF WereGiven
    <2>2. d.frames = <<>> /\ d.rest = From(stream, Last(d.at)) /\ IndexOf(stream, Last(d.at)) = 0
        BY <1>1, <1>7, <2>1, AtIdle
    <2>3. Len(d.out) + 1 = Len(d.at) /\ Len(d.out) \in Nat
        BY <1>1, <1>7, <2>1, <2>2, AtLast
    <2>4. Len(d.out) = Len(d.at) - 1
        BY <2>3
    <2>. QED
        BY <2>2, <2>4 DEF From
<1>8. CutOf(d)
    BY <1>5, <1>6, <1>7 DEF CutOf, Positions
<1>. QED
    BY <1>4, <1>8

\* A chunk boundary is never visible: whatever the chunks are, every reader of
\* the three implementations cuts the frames of the whole stream.
THEOREM ChunksDoNotMatterHolds == Spec => []ChunksDoNotMatter
<1>1. IInv => ChunksDoNotMatter
    BY CutsAreRight DEF ChunksDoNotMatter
<1>. QED
    BY <1>1, Invariance, PTL

\* The first elements of a list.
LEMMA FirstOf ==
    ASSUME NEW S, NEW a \in Seq(S), NEW n \in Nat, n <= Len(a)
    PROVE  /\ SubSeq(a, 1, n) \in Seq(S) /\ Len(SubSeq(a, 1, n)) = n
           /\ \A i \in 1 .. n : SubSeq(a, 1, n)[i] = a[i]
<1>1. \A i \in 1 .. n : a[i] \in S
    BY ElementOfSeq
<1>2. /\ SubSeq(a, 1, n) \in Seq(S) /\ Len(SubSeq(a, 1, n)) = IF 1 <= n THEN n - 1 + 1 ELSE 0
      /\ \A i \in 1 .. n - 1 + 1 : SubSeq(a, 1, n)[i] = a[1 + i - 1]
    BY <1>1, SubSeqProperties
<1>3. (IF 1 <= n THEN n - 1 + 1 ELSE 0) = n /\ n - 1 + 1 = n /\ \A i \in 1 .. n : 1 + i - 1 = i
    OBVIOUS
<1>. QED
    BY <1>2, <1>3, Zenon

\* A list whose elements are the first of another is a prefix of it.
LEMMA PrefixOf ==
    ASSUME NEW S, NEW a \in Seq(S), NEW b \in Seq(S), Len(a) <= Len(b),
           \A i \in DOMAIN a : a[i] = b[i]
    PROVE  IsPrefix(a, b)
<1>1. PICK n \in Nat : n = Len(a) /\ n <= Len(b) /\ DOMAIN a = 1 .. n
    OBVIOUS
<1>2. n <= Len(a) /\ n <= Len(b)
    BY <1>1
<1>3. /\ SubSeq(a, 1, n) \in Seq(S) /\ Len(SubSeq(a, 1, n)) = n
      /\ \A i \in 1 .. n : SubSeq(a, 1, n)[i] = a[i]
    BY <1>2, FirstOf
<1>4. /\ SubSeq(b, 1, n) \in Seq(S) /\ Len(SubSeq(b, 1, n)) = n
      /\ \A i \in 1 .. n : SubSeq(b, 1, n)[i] = b[i]
    BY <1>2, FirstOf
<1>5. PICK u, v \in Seq(S) :
         /\ u = SubSeq(a, 1, n) /\ Len(u) = n /\ \A i \in 1 .. n : u[i] = a[i]
         /\ v = SubSeq(b, 1, n) /\ Len(v) = n /\ \A i \in 1 .. n : v[i] = b[i]
    BY <1>3, <1>4, Zenon
<1>6. u = v
    BY <1>1, <1>5, SameSeq
<1>. QED
    BY <1>1, <1>5, <1>6 DEF IsPrefix

\* Between chunks the readers agree.
LEMMA ReadersAgree ==
    ASSUME IInv, Settled
    PROVE  ImplementationsAgree /\ PushAgreesWithRead /\ ProfilesNest
<1>0. PICK given \in [Readers -> Symbols] : WereGiven(given)
    BY DEF IInv
<1>1. \A r \in Readers :
         /\ r[2] \in Profiles /\ given[r] \in Symbols
         /\ RInv(given[r], r, reader[r]) /\ ~Busy(reader[r])
    BY <1>0 DEF WereGiven, Settled, Readers, Profiles, Limited
<1>2. ASSUME NEW p \in Profiles
      PROVE  <<"read", p>> \in Readers /\ <<"push", p>> \in Readers
    BY DEF Readers
<1>3. ASSUME NEW r \in Readers
      PROVE  reader[r].out \in Seq(Symbols) /\ reader[r].pc \in {"idle", "failed"}
    BY <1>1 DEF RInv, ReaderType, Busy
<1>4. ImplementationsAgree
    <2>1. ASSUME NEW code \in {"csharp", "rust"}, NEW p \in Limited
          PROVE  LET js == reader[<<"read", p>>]  other == reader[<<code, p>>]
                 IN  \/ Same(js, other)
                     \/ /\ other.pc = "failed"
                        /\ Len(other.out) < Len(js.out) /\ IsPrefix(other.out, js.out)
                        /\ ~Parses(code, js.out[Len(other.out) + 1])
        <3>1. PICK q \in Readers : q = <<"read", p>>
            BY <1>2 DEF Limited, Profiles
        <3>2. PICK r \in Readers : r = <<code, p>>
            BY DEF Readers
        <3>3. q[1] = "read" /\ q[2] = r[2] /\ r[1] # "push" /\ r[1] = code /\ Laxer(q, r)
            BY <3>1, <3>2 DEF Laxer
        <3>4. CASE reader[r].pc = "idle"
            <4>1. reader[q].pc = "idle" /\ stream \in Symbols
                BY <1>0, <3>3, <3>4, IdleTogether DEF IInv
            <4>2. RInv(stream, q, reader[q]) /\ RInv(stream, r, reader[r])
                BY <1>0, <3>4, <4>1 DEF WereGiven
            <4>3. Same(reader[q], reader[r])
                BY <3>4, <4>1, <4>2, BothIdle
            <4>. QED
                BY <3>1, <3>2, <4>3
        <3>5. CASE reader[r].pc = "failed"
            <4>1. Continues(given[q], given[r]) /\ (given[q] = given[r] \/ StoppedAlone(given[r], r, reader[r]))
                BY <1>0, <3>3 DEF WereGiven
            <4>2. \/ Same(reader[q], reader[r])
                  \/ /\ Len(reader[r].out) < Len(reader[q].out)
                     /\ \A i \in DOMAIN reader[r].out : reader[r].out[i] = reader[q].out[i]
                     /\ ~Parses(r[1], reader[q].out[Len(reader[r].out) + 1])
                BY <1>1, <3>3, <3>5, <4>1, FailedAgrees
            <4>3. Len(reader[r].out) < Len(reader[q].out) => Len(reader[r].out) <= Len(reader[q].out)
                BY <1>3
            <4>4. \/ Same(reader[q], reader[r])
                  \/ /\ Len(reader[r].out) < Len(reader[q].out) /\ IsPrefix(reader[r].out, reader[q].out)
                     /\ ~Parses(code, reader[q].out[Len(reader[r].out) + 1])
                BY <1>3, <3>3, <4>2, <4>3, PrefixOf
            <4>. QED
                BY <3>1, <3>2, <3>5, <4>4
        <3>. QED
            BY <1>3, <3>4, <3>5
    <2>. QED
        BY <2>1 DEF ImplementationsAgree
<1>5. PushAgreesWithRead
    <2>1. ASSUME NEW p \in Profiles
          PROVE  LET push == reader[<<"push", p>>]  read == reader[<<"read", p>>]
                 IN  /\ push.pc = read.pc
                     /\ IF p = "fast" \/ read.pc = "idle" THEN Same(push, read)
                        ELSE IsPrefix(push.out, read.out)
        <3>1. PICK r \in Readers : r = <<"push", p>>
            BY <1>2
        <3>2. PICK q \in Readers : q = <<"read", p>>
            BY <1>2
        <3>3. r[2] = p /\ q[2] = p /\ r[1] = "push" /\ q[1] = "read" /\ Laxer(r, q) /\ Laxer(q, r)
            BY <3>1, <3>2 DEF Laxer
        <3>0. given[q] = given[r] /\ RInv(given[r], q, reader[q]) /\ given[r] \in Symbols
            <4>1. Continues(given[q], given[r]) /\ Continues(given[r], given[q])
                BY <1>0, <3>3 DEF WereGiven
            <4>2. given[q] = given[r]
                BY <1>1, <4>1, ContinuesBoth
            <4>. QED
                BY <1>1, <4>2
        <3>4. reader[r].pc = "idle" => Same(reader[r], reader[q])
            BY <1>1, <3>0, <3>3, IdleNests
        <3>5. reader[q].pc = "idle" => Same(reader[q], reader[r])
            BY <1>1, <3>0, <3>3, IdleNests
        <3>6. reader[r].pc = reader[q].pc
            BY <1>3, <3>4, <3>5 DEF Same
        <3>7. p = "fast" => Same(reader[r], reader[q])
            BY <1>1, <3>0, <3>3, ExactlySame
        <3>8. IsPrefix(reader[r].out, reader[q].out)
            <4>1. /\ Len(reader[r].out) <= Len(reader[q].out)
                  /\ \A i \in DOMAIN reader[r].out : reader[r].out[i] = reader[q].out[i]
                BY <1>1, <3>0, <3>3, ContinuesSelf, OutNests
            <4>. QED
                BY <1>3, <4>1, PrefixOf
        <3>9. p = "fast" \/ reader[q].pc = "idle" => Same(reader[r], reader[q])
            BY <3>4, <3>6, <3>7
        <3>. QED
            BY <3>1, <3>2, <3>6, <3>8, <3>9
    <2>. QED
        BY <2>1 DEF PushAgreesWithRead
<1>6. ProfilesNest
    <2>1. ASSUME NEW a \in Profiles, NEW b \in Profiles, Laxer(<<"read", b>>, <<"read", a>>)
          PROVE  LET strict == reader[<<"read", a>>]  lax == reader[<<"read", b>>]
                 IN  IF strict.pc = "idle" THEN Same(strict, lax) ELSE IsPrefix(strict.out, lax.out)
        <3>1. PICK r \in Readers : r = <<"read", a>>
            BY <1>2
        <3>2. PICK q \in Readers : q = <<"read", b>>
            BY <1>2
        <3>3. q[1] # "push" /\ Laxer(q, r)
            BY <2>1, <3>1, <3>2
        <3>4. ASSUME reader[r].pc = "idle"
              PROVE  Same(reader[r], reader[q])
            <4>1. given[r] = stream /\ stream \in Symbols
                BY <1>0, <3>4 DEF WereGiven, IInv
            <4>2. reader[q].pc = "idle"
                BY <1>0, <3>3, <3>4, <4>1, IdleTogether
            <4>3. given[q] = stream
                BY <1>0, <4>2 DEF WereGiven
            <4>. QED
                BY <1>1, <3>4, <4>1, <4>2, <4>3, BothIdle
        <3>5. IsPrefix(reader[r].out, reader[q].out)
            <4>0. Continues(given[q], given[r])
                BY <1>0, <1>1, <3>3 DEF WereGiven
            <4>1. /\ Len(reader[r].out) <= Len(reader[q].out)
                  /\ \A i \in DOMAIN reader[r].out : reader[r].out[i] = reader[q].out[i]
                BY <1>1, <3>3, <4>0, OutNests
            <4>. QED
                BY <1>3, <4>1, PrefixOf
        <3>. QED
            BY <3>1, <3>2, <3>4, <3>5
    <2>2. ASSUME NEW pair \in {<<"assured", "guarded">>, <<"guarded", "fast">>}
          PROVE  pair[1] \in Profiles /\ pair[2] \in Profiles /\ Laxer(<<"read", pair[2]>>, <<"read", pair[1]>>)
        BY DEF Profiles, Laxer
    <2>. QED
        BY <2>1, <2>2 DEF ProfilesNest
<1>. QED
    BY <1>4, <1>5, <1>6

\* The parsers of the three languages deliver and refuse the same, up to a frame
\* that is no message to one of them alone; push() and read() accept the same,
\* and a stricter profile only refuses more.
THEOREM ParsersAgreeHolds == Spec => []ParsersAgree
<1>1. IInv => ParsersAgree
    BY ReadersAgree DEF ParsersAgree
<1>. QED
    BY <1>1, Invariance, PTL

\* A frame with room leaves room for all but one symbol of the delimiter.
LEMMA RoomLength ==
    ASSUME NEW f \in Symbols, HasRoom(f)
    PROVE  Len(f) + (D - 1) <= MaxMessageSize
<1>1. PICK g \in Symbols : g = Tail(Delimiter) /\ Len(g) = D - 1
    <2>1. Delimiter \in Seq(Alphabet) /\ Delimiter # <<>>
        BY FramingAssumption
    <2>2. Tail(Delimiter) \in Seq(Alphabet) /\ Len(Tail(Delimiter)) = Len(Delimiter) - 1
        BY <2>1, Tailed
    <2>. QED
        BY <2>2 DEF D, Symbols
<1>2. Len(f \o g) = Len(f) + Len(g)
    BY Joining
<1>3. Len(f \o g) <= MaxMessageSize
    BY <1>1 DEF HasRoom, Fits
<1>. QED
    BY <1>1, <1>2, <1>3

\* The tail of a stream of frames with room for the delimiter is not too long.
LEMMA EncodedPrefixFits ==
    ASSUME NEW t \in Symbols, IsEncodedPrefix(t)
    PROVE  Fits("guarded", t)
<1>1. PICK n \in 0 .. Len(t), k \in 0 .. D - 1 :
         HasRoom(SubSeq(t, 1, n)) /\ SubSeq(t, n + 1, Len(t)) = SubSeq(Delimiter, 1, k)
    BY DEF IsEncodedPrefix
<1>2. PICK l \in Nat : l = Len(t)
    BY DEF Symbols
<1>3. PICK m \in Nat : m = n /\ m <= l
    BY <1>2
<1>4. PICK f \in Symbols : f = SubSeq(t, 1, m) /\ Len(f) = m
    BY <1>2, <1>3, SlicePrefix
<1>5. m + (D - 1) <= MaxMessageSize
    BY <1>1, <1>3, <1>4, RoomLength
<1>6. k \in Nat /\ k <= D - 1
    BY DelimiterLength
<1>7. Len(SubSeq(Delimiter, 1, k)) = k
    <2>1. k <= Len(Delimiter) /\ Delimiter \in Symbols
        BY <1>6, DelimiterLength DEF D
    <2>. QED
        BY <1>6, <2>1, SlicePrefix
<1>8. Len(SubSeq(t, n + 1, Len(t))) = l - m
    <2>1. PICK h \in Nat : h = l - m
        BY <1>3
    <2>2. m + 1 \in Nat /\ m + 1 >= 1 /\ m + 1 <= l + 1 /\ h = l - (m + 1) + 1 /\ l <= Len(t)
        BY <1>2, <1>3, <2>1
    <2>3. Len(SubSeq(t, m + 1, l)) = h
        BY <2>2, Slice
    <2>. QED
        BY <1>2, <1>3, <2>1, <2>3
<1>9. l - m = k
    BY <1>1, <1>7, <1>8
<1>10. l <= MaxMessageSize
    BY <1>3, <1>5, <1>6, <1>9, DelimiterLength, FramingAssumption
<1>. QED
    BY <1>2, <1>10 DEF Fits

\* A frame that has room is not refused as a tail, either, while its delimiter
\* is not complete.
LEMMA RoomForTail ==
    ASSUME NEW s \in Symbols, NEW c \in Symbols, NEW x \in Nat, x >= 1, x <= Len(s) + 1,
           IndexOf(s, x) = 0, IndexOf(s \o c, x) # 0, HasRoom(FrameAt(s \o c, x))
    PROVE  Fits("guarded", From(s, x))
<1>. DEFINE z == s \o c
<1>1. PICK l \in Nat : l = Len(s)
    BY DEF Symbols
<1>2. PICK m \in Nat : Len(z) = l + m /\ m = Len(c) /\ z \in Symbols
    BY <1>1, Joining DEF Symbols
<1>. HIDE DEF z
<1>3. PICK e \in Nat : e = IndexOf(z, x) /\ e >= x /\ Matches(z, e)
    BY <1>2, IndexOfFinds DEF z
<1>4. l < e + D - 1
    <2>1. SUFFICES ASSUME e + D - 1 <= l
                   PROVE  FALSE
        BY <1>1, <1>3, DelimiterLength
    <2>2. Matches(s, e)
        BY <1>1, <1>3, <2>1, MatchesLonger DEF z
    <2>. QED
        BY <1>3, <2>2, IndexOfFinds
<1>5. PICK f \in Symbols : f = FrameAt(z, x) /\ Len(f) = e - x
    <2>1. PICK n \in Nat : n = e - x
        BY <1>3
    <2>2. PICK u \in Nat : u = e - 1 /\ x <= u + 1 /\ n = u - x + 1
        BY <1>3, <2>1
    <2>3. u <= Len(z)
        <3>1. e + D - 1 <= l + m
            BY <1>2, <1>3 DEF Matches
        <3>. QED
            BY <1>2, <1>3, <2>2, <3>1, DelimiterLength
    <2>4. SubSeq(z, x, u) \in Symbols /\ Len(SubSeq(z, x, u)) = n
        BY <1>2, <2>2, <2>3, Slice
    <2>. QED
        BY <1>3, <2>1, <2>2, <2>4 DEF FrameAt
<1>6. (e - x) + (D - 1) <= MaxMessageSize
    BY <1>5, RoomLength DEF z
<1>7. Len(From(s, x)) = l - x + 1
    <2>1. PICK n \in Nat : n = l - x + 1
        BY <1>1
    <2>2. Len(SubSeq(s, x, l)) = n
        BY <1>1, <2>1, Slice
    <2>. QED
        BY <1>1, <2>1, <2>2 DEF From
<1>8. l - x + 1 <= MaxMessageSize
    BY <1>3, <1>4, <1>6, DelimiterLength, FramingAssumption
<1>. QED
    BY <1>7, <1>8 DEF Fits

\* What a peer with the same limit encodes is read.
LEMMA EncodedIsRead ==
    ASSUME IInv
    PROVE  EncodedIsAccepted
<1>. DEFINE q == <<"read", "fast">>
<1>. SUFFICES ASSUME Settled, reader[q].pc = "idle",
                     \A i \in DOMAIN reader[q].out :
                         Encodes("guarded", reader[q].out[i]) /\ HasRoom(reader[q].out[i]),
                     IsEncodedPrefix(reader[q].rest),
                     NEW r \in Readers, r[2] = "guarded",
                     \A i \in DOMAIN reader[q].out : Parses(r[1], reader[q].out[i])
              PROVE  reader[r].pc = "idle"
    BY DEF EncodedIsAccepted
<1>1. q \in Readers /\ q[2] = "fast" /\ stream \in Symbols
    BY DEF Readers, Profiles, IInv
<1>. HIDE DEF q
<1>2. PICK given \in [Readers -> Symbols] : WereGiven(given)
    BY DEF IInv
<1>3. PICK e : e = reader[q] /\ RInv(stream, q, e) /\ e.pc = "idle"
    BY <1>1, <1>2 DEF WereGiven
<1>4. PICK s \in Symbols, c \in Symbols :
         s = given[r] /\ stream = s \o c /\ Continues(stream, s)
    BY <1>2 DEF WereGiven, Continues, Profiles
<1>5. PICK d : d = reader[r] /\ RInv(s, r, d)
    BY <1>2, <1>4 DEF WereGiven
<1>6. SUFFICES ASSUME d.pc = "failed"
               PROVE  FALSE
    BY <1>5 DEF Settled, Busy
<1>7. PICK n \in DOMAIN d.at : RefusedAt(s, r, d.at[n])
    BY <1>5, <1>6 DEF RInv, RefusedWhy
<1>8. /\ d.at \in Seq(Nat \ {0}) /\ Positions(s, d.at)
      /\ Positions(stream, d.at)
    BY <1>1, <1>4, <1>5, CutsStay DEF RInv, ReaderType, CutIn
<1>9. /\ e.at \in Seq(Nat \ {0}) /\ Positions(stream, e.at) /\ e.frames = <<>> /\ e.rest \in Symbols
      /\ IndexOf(stream, Last(e.at)) = 0 /\ e.rest = From(stream, Last(e.at))
    BY <1>1, <1>3, AtIdle
<1>10. PICK m \in Nat : /\ m = Len(e.out) /\ DOMAIN e.out = 1 .. m /\ m + 1 = Len(e.at)
                        /\ Last(e.at) = e.at[m + 1]
    <2>1. Len(e.out) \in Nat /\ Len(e.out) + 1 = Len(e.at) /\ Last(e.at) = e.at[Len(e.out) + 1]
        BY <1>1, <1>3, <1>9, AtLast
    <2>2. DOMAIN e.out = 1 .. Len(e.out)
        BY <1>1, <1>3, OutLength
    <2>. QED
        BY <2>1, <2>2
<1>11. n \in Nat /\ n >= 1 /\ n <= m + 1 /\ n \in DOMAIN e.at
    <2>1. Len(d.at) <= Len(e.at)
        BY <1>1, <1>8, <1>9, MostCuts
    <2>2. n \in 1 .. Len(d.at) /\ Len(d.at) \in Nat
        BY <1>8
    <2>3. n \in Nat /\ n >= 1 /\ n <= m + 1
        BY <1>10, <2>1, <2>2
    <2>4. n \in 1 .. m + 1
        BY <2>3
    <2>. QED
        BY <1>9, <1>10, <2>3, <2>4
<1>12. PICK x \in Nat : x = d.at[n] /\ x = e.at[n] /\ x >= 1 /\ x <= Len(s) + 1
    <2>1. d.at[n] = e.at[n]
        BY <1>1, <1>8, <1>9, <1>11, SameCuts
    <2>2. d.at[n] \in Nat /\ d.at[n] >= 1 /\ d.at[n] <= Len(s) + 1
        BY <1>8, PositionBound
    <2>. QED
        BY <2>1, <2>2
<1>13. CASE n <= m
    <2>1. n \in DOMAIN e.out /\ n \in 1 .. Len(e.at) - 1
        <3>1. n \in 1 .. m /\ n \in 1 .. (m + 1) - 1
            BY <1>11, <1>13
        <3>. QED
            BY <1>10, <3>1
    <2>2. IndexOf(stream, x) # 0
        BY <1>9, <1>12, <2>1 DEF Positions
    <2>3. e.out[n] = FrameAt(stream, x) /\ HasRoom(e.out[n])
          /\ Encodes("guarded", e.out[n]) /\ Parses(r[1], e.out[n])
        BY <1>3, <1>12, <2>1 DEF RInv, FramesAreCut
    <2>4. CASE IndexOf(s, x) # 0
        <3>1. FrameAt(s, x) = FrameAt(stream, x)
            BY <1>4, <1>12, <2>4, FrameLonger
        <3>2. Decodes(r, FrameAt(s, x))
            BY <2>3, <3>1 DEF Encodes, Decodes
        <3>. QED
            BY <1>7, <1>12, <2>4, <3>2 DEF RefusedAt
    <2>5. CASE IndexOf(s, x) = 0
        <3>1. Fits("guarded", From(s, x))
            BY <1>4, <1>12, <2>2, <2>3, <2>5, RoomForTail
        <3>. QED
            BY <1>7, <1>12, <2>5, <3>1 DEF RefusedAt
    <2>. QED
        BY <2>4, <2>5
<1>14. CASE n = m + 1
    <2>1. IndexOf(stream, x) = 0 /\ From(stream, x) = e.rest
        BY <1>9, <1>10, <1>12, <1>14
    <2>2. IndexOf(s, x) = 0
        BY <1>4, <1>12, <2>1, IndexOfLonger
    <2>3. From(stream, x) = From(s, x) \o c
        BY <1>4, <1>12, FromLonger
    <2>4. PICK t \in Symbols : t = From(s, x)
        <3>1. PICK l \in Nat, h \in Nat : l = Len(s) /\ h = l - x + 1
            <4>1. Len(s) \in Nat
                BY DEF Symbols
            <4>2. Len(s) - x + 1 \in Nat
                BY <1>12, <4>1
            <4>. QED
                BY <4>1, <4>2
        <3>2. SubSeq(s, x, l) \in Symbols
            BY <1>12, <3>1, Slice
        <3>. QED
            BY <3>1, <3>2 DEF From
    <2>5. Len(e.rest) <= MaxMessageSize
        BY <1>3, <1>9, EncodedPrefixFits DEF Fits
    <2>6. Len(e.rest) = Len(t) + Len(c) /\ Len(t) \in Nat /\ Len(c) \in Nat
        BY <2>1, <2>3, <2>4, Joining
    <2>7. Len(t) <= MaxMessageSize
        BY <2>5, <2>6, FramingAssumption
    <2>8. Fits("guarded", From(s, x))
        BY <2>4, <2>7 DEF Fits
    <2>. QED
        BY <1>7, <1>12, <2>2, <2>8 DEF RefusedAt
<1>. QED
    BY <1>10, <1>11, <1>13, <1>14

\* Nothing larger than maxMessageSize, and nothing the profile refuses, is
\* delivered or retained; what a peer with the same configuration encodes is
\* accepted when it leaves room for the delimiter.
THEOREM SizesAreExactHolds == Spec => []SizesAreExact
<1>1. IInv => NothingOversized
    <2>1. ASSUME IInv, NEW r \in Readers
          PROVE  /\ \A i \in DOMAIN reader[r].out : Decodes(r, reader[r].out[i])
                 /\ ~Busy(reader[r]) => Fits(r[2], reader[r].rest)
        <3>1. PICK s : RInv(s, r, reader[r])
            BY <2>1 DEF IInv, WereGiven
        <3>2. \A i \in DOMAIN reader[r].out : Decodes(r, reader[r].out[i])
            BY <3>1 DEF RInv, OnlyAccepted
        <3>3. reader[r].pc = "idle" => Fits(r[2], reader[r].rest)
            BY <3>1 DEF RInv, OnlyAccepted
        <3>4. reader[r].pc = "failed" => Fits(r[2], reader[r].rest)
            <4>1. reader[r].pc = "failed" => Len(reader[r].rest) = 0
                BY <3>1 DEF RInv, RestIsKept
            <4>. QED
                BY <4>1, FramingAssumption DEF Fits
        <3>. QED
            BY <3>2, <3>3, <3>4 DEF Busy
    <2>. QED
        BY <2>1 DEF NothingOversized
<1>2. IInv => SizesAreExact
    BY <1>1, EncodedIsRead DEF SizesAreExact
<1>. QED
    BY <1>2, Invariance, PTL
=============================================================================
