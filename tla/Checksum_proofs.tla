--------------------------- MODULE Checksum_proofs ---------------------------
(***************************************************************************)
(* What holds of Checksum for every even number of values of a byte, every *)
(* pseudo header and every segment whose sum fits into the accumulator:    *)
(* what is sent is accepted, decoys are not but for two fields, and a      *)
(* damaged byte is noticed.                                                *)
(***************************************************************************)
EXTENDS Checksum, SequenceTheorems, WellFoundedInduction, TLAPS

-----------------------------------------------------------------------------
(* Recursive functions on the natural numbers exist *)

LEMMA LeastNatural ==
    ASSUME NEW I \in SUBSET Nat, I # {}
    PROVE  \E m \in I : \A k \in I : m <= k
<1> DEFINE R == {r \in Nat \X Nat : r[1] < r[2]}
<1>1. IsWellFoundedOn(R, Nat)
      BY NatLessThanWellFounded DEF OpToRel
<1>2. PICK m \in I : \A k \in I : ~(<<k, m>> \in R)
      BY <1>1, WFMin
<1>3. \A k \in I : ~(k < m)
      BY <1>2
<1> QED BY <1>3

\* A set of numbers that has 0 and the successor of each of its members is Nat.
LEMMA AllNaturals ==
    ASSUME NEW I \in SUBSET Nat, 0 \in I, \A n \in I : n + 1 \in I
    PROVE  I = Nat
<1> SUFFICES ASSUME Nat \ I # {} PROVE FALSE
    OBVIOUS
<1>1. PICK m \in Nat \ I : \A k \in Nat \ I : m <= k
      BY LeastNatural
<1>2. m - 1 \in Nat /\ m - 1 \in I /\ m = (m - 1) + 1
      BY <1>1
<1> QED BY <1>1, <1>2

\* s are the first values of the recursion that starts with c and goes on by G.
Begins(s, n, S, c, G) == /\ s \in [0 .. n -> S] /\ s[0] = c
                         /\ \A k \in 0 .. n - 1 : s[k + 1] = G[<<k, s[k]>>]

LEMMA BeginsLonger ==
    ASSUME NEW S, NEW c \in S, NEW G \in [Nat \X S -> S], NEW m \in Nat,
           NEW s, Begins(s, m, S, c, G)
    PROVE  \E t : Begins(t, m + 1, S, c, G)
<1> DEFINE z == [k \in 0 .. m + 1 |-> IF k = m + 1 THEN G[<<m, s[m]>>] ELSE s[k]]
<1>1. s \in [0 .. m -> S] /\ s[m] \in S /\ G[<<m, s[m]>>] \in S
      BY DEF Begins
<1>2. z \in [0 .. m + 1 -> S]
  <2>1. ASSUME NEW k \in 0 .. m + 1
        PROVE  (IF k = m + 1 THEN G[<<m, s[m]>>] ELSE s[k]) \in S
    <3>1. k # m + 1 => k \in 0 .. m
          OBVIOUS
    <3> QED BY <1>1, <3>1
  <2> QED BY <2>1
<1>3. z[0] = c
      BY <1>1 DEF Begins
<1>4. ASSUME NEW k \in 0 .. (m + 1) - 1 PROVE z[k + 1] = G[<<k, z[k]>>]
  <2>1. k \in 0 .. m /\ k \in 0 .. m + 1 /\ k + 1 \in 0 .. m + 1 /\ k # m + 1
        OBVIOUS
  <2>2. z[k] = s[k]
        BY <2>1
  <2>3. CASE k = m
        BY <2>1, <2>2, <2>3
  <2>4. CASE k # m
    <3>1. k \in 0 .. m - 1 /\ k + 1 # m + 1
          BY <2>1, <2>4
    <3> QED BY <2>1, <2>2, <3>1 DEF Begins
  <2> QED BY <2>3, <2>4
<1> HIDE DEF z
<1> QED BY <1>2, <1>3, <1>4 DEF Begins

LEMMA BeginsUnique ==
    ASSUME NEW S, NEW c, NEW G, NEW m \in Nat, NEW n \in Nat, NEW s, NEW t,
           Begins(s, m, S, c, G), Begins(t, n, S, c, G),
           NEW k \in Nat, k <= m, k <= n
    PROVE  s[k] = t[k]
<1> DEFINE I == {j \in Nat : j <= m /\ j <= n => s[j] = t[j]}
<1>1. 0 \in I
      BY DEF Begins
<1>2. ASSUME NEW j \in I PROVE j + 1 \in I
  <2>1. SUFFICES ASSUME j + 1 <= m, j + 1 <= n PROVE s[j + 1] = t[j + 1]
        OBVIOUS
  <2>2. j \in 0 .. m - 1 /\ j \in 0 .. n - 1 /\ s[j] = t[j]
        BY <2>1
  <2> QED BY <2>2 DEF Begins
<1>3. I \in SUBSET Nat
      OBVIOUS
<1> HIDE DEF I
<1>4. I = Nat
      BY <1>1, <1>2, <1>3, AllNaturals
<1> QED BY <1>4 DEF I

\* f is the function on Nat that starts with c and goes on by G.
Recursion(f, S, c, G) == /\ f \in [Nat -> S] /\ f[0] = c
                         /\ \A n \in Nat : f[n + 1] = G[<<n, f[n]>>]

LEMMA RecursionExists ==
    ASSUME NEW S, NEW c \in S, NEW G \in [Nat \X S -> S]
    PROVE  \E f : Recursion(f, S, c, G)
<1> DEFINE I == {m \in Nat : \E s : Begins(s, m, S, c, G)}
           P(n) == CHOOSE s : Begins(s, n, S, c, G)
           f == [n \in Nat |-> P(n)[n]]
<1>1. 0 \in I
  <2>1. Begins([k \in 0 .. 0 |-> c], 0, S, c, G)
        BY DEF Begins
  <2> QED BY <2>1
<1>2. \A m \in I : m + 1 \in I
      BY BeginsLonger
<1>3. I \in SUBSET Nat
      OBVIOUS
<1>4. I = Nat
  <2> HIDE DEF I
  <2> QED BY <1>1, <1>2, <1>3, AllNaturals
<1>5. ASSUME NEW n \in Nat PROVE Begins(P(n), n, S, c, G)
  <2>1. n \in I
        BY <1>4
  <2>2. \E s : Begins(s, n, S, c, G)
        BY <2>1
  <2> QED BY <2>2
<1> HIDE DEF P, I
<1>6. f \in [Nat -> S]
  <2>1. ASSUME NEW n \in Nat PROVE P(n)[n] \in S
        BY <1>5 DEF Begins
  <2> QED BY <2>1
<1>7. f[0] = c
      BY <1>5 DEF Begins
<1>8. ASSUME NEW n \in Nat PROVE f[n + 1] = G[<<n, f[n]>>]
  <2>1. P(n + 1)[n] = P(n)[n]
        BY <1>5, BeginsUnique
  <2>2. n \in 0 .. (n + 1) - 1
        OBVIOUS
  <2>3. P(n + 1)[n + 1] = G[<<n, P(n + 1)[n]>>]
        BY <1>5, <2>2 DEF Begins
  <2> QED BY <2>1, <2>3
<1> HIDE DEF f
<1> QED BY <1>6, <1>7, <1>8 DEF Recursion

\* What a reader of SumUpTo expects.
LEMMA SumUpToIs ==
    ASSUME NEW g \in [Nat -> Nat]
    PROVE  /\ SumUpTo(g, 0) = 0
           /\ \A n \in Nat : /\ SumUpTo(g, n) \in Nat
                             /\ SumUpTo(g, n + 1) = SumUpTo(g, n) + g[n + 1]
<1> DEFINE G == [p \in Nat \X Nat |-> p[2] + g[p[1] + 1]]
           IsSum(h) == h = [n \in Nat |-> IF n = 0 THEN 0 ELSE h[n - 1] + g[n]]
           H == CHOOSE h : IsSum(h)
<1>1. G \in [Nat \X Nat -> Nat]
  <2>1. ASSUME NEW p \in Nat \X Nat PROVE p[2] + g[p[1] + 1] \in Nat
    <3>1. p[2] \in Nat /\ p[1] + 1 \in Nat
          OBVIOUS
    <3>2. g[p[1] + 1] \in Nat
          BY <3>1
    <3> DEFINE a == p[2]
               b == g[p[1] + 1]
    <3> HIDE DEF a, b
    <3>3. a \in Nat /\ b \in Nat => a + b \in Nat
          OBVIOUS
    <3> QED BY <3>1, <3>2, <3>3 DEF a, b
  <2> QED BY <2>1
<1>2. \A n, a \in Nat : G[<<n, a>>] = a + g[n + 1]
      OBVIOUS
<1> HIDE DEF G
<1>3. PICK f : Recursion(f, Nat, 0, G)
      BY <1>1, RecursionExists
<1>4. ASSUME NEW n \in Nat PROVE f[n] = IF n = 0 THEN 0 ELSE f[n - 1] + g[n]
  <2>1. CASE n # 0
    <3>1. n - 1 \in Nat /\ (n - 1) + 1 = n /\ f[n - 1] \in Nat
          BY <1>3, <2>1 DEF Recursion
    <3>2. f[(n - 1) + 1] = G[<<n - 1, f[n - 1]>>]
          BY <1>3, <3>1 DEF Recursion
    <3> QED BY <1>2, <2>1, <3>1, <3>2
  <2> QED BY <1>3, <2>1 DEF Recursion
<1>5. IsSum(f)
      BY <1>3, <1>4 DEF Recursion
<1>6. IsSum(H)
      BY <1>5
<1>7. \A n : SumUpTo(g, n) = H[n]
      BY DEF SumUpTo
<1> HIDE DEF H
<1>8. H[0] = 0 /\ \A n \in Nat : H[n + 1] = H[n] + g[n + 1]
      BY <1>6
<1> DEFINE I == {n \in Nat : H[n] \in Nat}
<1>9. 0 \in I /\ \A n \in I : n + 1 \in I
      BY <1>8
<1>10. I \in SUBSET Nat
      OBVIOUS
<1> HIDE DEF I
<1>11. I = Nat
      BY <1>9, <1>10, AllNaturals
<1>12. \A n \in Nat : H[n] \in Nat
      BY <1>11 DEF I
<1> QED BY <1>7, <1>8, <1>12

\* Two sums of the same numbers but one differ by the difference of these.
LEMMA OneDiffers ==
    ASSUME NEW g \in [Nat -> Nat], NEW h \in [Nat -> Nat], NEW n \in Nat, NEW j \in 1 .. n,
           \A k \in Nat \ {j} : g[k] = h[k]
    PROVE  SumUpTo(g, n) + h[j] = SumUpTo(h, n) + g[j]
<1> DEFINE Below(m) == m < j => SumUpTo(g, m) = SumUpTo(h, m)
           From(m) == m >= j => SumUpTo(g, m) + h[j] = SumUpTo(h, m) + g[j]
           I == {m \in Nat : Below(m) /\ From(m)}
<1>1. 0 \in I
      BY SumUpToIs
<1>2. ASSUME NEW m \in I PROVE m + 1 \in I
  <2>1. m \in Nat /\ m + 1 \in Nat /\ Below(m) /\ From(m)
        OBVIOUS
  <2>2. /\ SumUpTo(g, m + 1) = SumUpTo(g, m) + g[m + 1]
        /\ SumUpTo(h, m + 1) = SumUpTo(h, m) + h[m + 1]
        /\ SumUpTo(g, m) \in Nat /\ SumUpTo(h, m) \in Nat
        /\ g[m + 1] \in Nat /\ h[m + 1] \in Nat /\ g[j] \in Nat /\ h[j] \in Nat
    <3>1. m \in Nat /\ m + 1 \in Nat /\ j \in Nat
          BY <2>1
    <3> HIDE DEF I, Below, From
    <3>2. /\ SumUpTo(g, m + 1) = SumUpTo(g, m) + g[m + 1]
          /\ SumUpTo(g, m) \in Nat
          BY <3>1, SumUpToIs
    <3>3. /\ SumUpTo(h, m + 1) = SumUpTo(h, m) + h[m + 1]
          /\ SumUpTo(h, m) \in Nat
          BY <3>1, SumUpToIs
    <3>4. g[m + 1] \in Nat /\ h[m + 1] \in Nat /\ g[j] \in Nat /\ h[j] \in Nat
          BY <3>1
    <3> QED BY <3>2, <3>3, <3>4
  <2>3. CASE m + 1 = j
    <3>1. SumUpTo(g, m) = SumUpTo(h, m)
          BY <2>1, <2>3
    <3>2. /\ SumUpTo(g, m + 1) = SumUpTo(g, m) + g[j]
          /\ SumUpTo(h, m + 1) = SumUpTo(h, m) + h[j]
          BY <2>2, <2>3
    <3> DEFINE a == SumUpTo(g, m)
               p == SumUpTo(g, m + 1)
               q == SumUpTo(h, m + 1)
               x == g[j]
               y == h[j]
    <3>3. a \in Nat /\ x \in Nat /\ y \in Nat /\ p = a + x /\ q = a + y
          BY <2>2, <3>1, <3>2
    <3> HIDE DEF a, p, q, x, y
    <3>4. p + y = q + x
          BY <3>3
    <3> QED BY <2>1, <2>3, <3>4 DEF p, q, x, y
  <2>4. CASE m + 1 # j
    <3>1. g[m + 1] = h[m + 1]
          BY <2>1, <2>4
    <3> QED BY <2>1, <2>2, <2>4, <3>1
  <2> QED BY <2>3, <2>4
<1>3. I \in SUBSET Nat
      OBVIOUS
<1> HIDE DEF I
<1>4. I = Nat
      BY <1>1, <1>2, <1>3, AllNaturals
<1> QED BY <1>4 DEF I

\* A sum of n numbers below b.
LEMMA SumIsBelow ==
    ASSUME NEW g \in [Nat -> Nat], NEW b \in Nat, \A k \in Nat : g[k] <= b, NEW n \in Nat
    PROVE  SumUpTo(g, n) <= n * b
<1> DEFINE I == {m \in Nat : SumUpTo(g, m) <= m * b}
<1>1. 0 \in I
      BY SumUpToIs
<1>2. ASSUME NEW m \in I PROVE m + 1 \in I
  <2>1. m \in Nat /\ SumUpTo(g, m) <= m * b
        OBVIOUS
  <2>2. /\ SumUpTo(g, m + 1) = SumUpTo(g, m) + g[m + 1] /\ SumUpTo(g, m) \in Nat
        /\ g[m + 1] \in Nat /\ g[m + 1] <= b
        BY <2>1, SumUpToIs
  <2>3. m * b \in Nat /\ (m + 1) * b = m * b + b
        BY <2>1
  <2> DEFINE w == m * b
             v == (m + 1) * b
             x == SumUpTo(g, m)
             y == SumUpTo(g, m + 1)
  <2>4. y <= v
    <3> HIDE DEF w, v, x, y
    <3> QED BY <2>1, <2>2, <2>3 DEF w, v, x, y
  <2> QED BY <2>1, <2>4
<1>3. I \in SUBSET Nat
      OBVIOUS
<1> HIDE DEF I
<1>4. I = Nat
      BY <1>1, <1>2, <1>3, AllNaturals
<1> QED BY <1>4 DEF I

-----------------------------------------------------------------------------
(* One's complement: what a sum stands for *)

Ones == Word - 1

\* The multiples of m are m apart.
LEMMA Multiples ==
    ASSUME NEW m \in Nat, NEW p \in Nat, NEW q \in Nat, p < q
    PROVE  q * m >= p * m + m
<1> DEFINE d == q - (p + 1)
<1>1. d \in Nat /\ q = p + 1 + d
      OBVIOUS
<1> HIDE DEF d
<1>2. (p + 1 + d) * m = p * m + m + d * m
      BY <1>1
<1>3. d * m \in Nat /\ p * m \in Nat
      BY <1>1
<1> QED BY <1>1, <1>2, <1>3

LEMMA Division ==
    ASSUME NEW n \in Nat, NEW m \in Nat \ {0}
    PROVE  /\ n \div m \in Nat /\ n % m \in 0 .. m - 1
           /\ n = (n \div m) * m + (n % m)
OBVIOUS

LEMMA Remainder ==
    ASSUME NEW m \in Nat, NEW n \in 0 .. m - 1
    PROVE  n % m = n
OBVIOUS

LEMMA DivisionIsUnique ==
    ASSUME NEW m \in Nat, NEW p \in Nat, NEW q \in Nat,
           NEW r \in 0 .. m - 1, NEW s \in 0 .. m - 1, p * m + r = q * m + s
    PROVE  p = q /\ r = s
<1>1. p * m \in Nat /\ q * m \in Nat
      OBVIOUS
<1>2. ~(p < q)
  <2>1. p < q => q * m >= p * m + m
        BY Multiples
  <2> DEFINE a == p * m
             b == q * m
  <2> HIDE DEF a, b
  <2> QED BY <1>1, <2>1 DEF a, b
<1>3. ~(q < p)
  <2>1. q < p => p * m >= q * m + m
        BY Multiples
  <2> DEFINE a == p * m
             b == q * m
  <2> HIDE DEF a, b
  <2> QED BY <1>1, <2>1 DEF a, b
<1>4. p = q
      BY <1>2, <1>3
<1> QED BY <1>1, <1>4

LEMMA Radices ==
    /\ Radix \in Nat /\ Radix >= 2 /\ Word = Radix * Radix /\ Word \in Nat
    /\ Ones \in Nat /\ Word = Ones + 1 /\ Ones > Radix
<1>1. Radix \in Nat \ {0} /\ Radix % 2 = 0
      BY ChecksumAssumption
<1>2. Radix >= 2
      BY <1>1
<1> DEFINE d == Radix - 2
<1>3. d \in Nat /\ Radix = d + 2
      BY <1>1, <1>2
<1> HIDE DEF d
<1>4. (d + 2) * (d + 2) = d * d + 4 * d + 4
      BY <1>3
<1>5. d * d \in Nat
      BY <1>3
<1>6. Radix * Radix \in Nat /\ Radix * Radix - 1 > Radix
      BY <1>3, <1>4, <1>5
<1> QED BY <1>1, <1>2, <1>6 DEF Ones, Word

\* The number of 0 .. Ones that a sum stands for: zero only for zero.
Value(n) == IF n = 0 THEN 0 ELSE 1 + ((n - 1) % Ones)

LEMMA ValueIs ==
    ASSUME NEW n \in Nat
    PROVE  /\ Value(n) \in 0 .. Ones /\ (Value(n) = 0 <=> n = 0)
           /\ \E q \in Nat : n = q * Ones + Value(n)
<1>1. CASE n = 0
  <2>1. Value(n) = 0 /\ 0 * Ones = 0
        BY <1>1, Radices DEF Value
  <2>2. n = 0 * Ones + Value(n)
        BY <1>1, <2>1
  <2> QED BY <1>1, <2>1, <2>2, Radices
<1>2. CASE n # 0
  <2> DEFINE m == n - 1
             q == m \div Ones
             r == m % Ones
  <2>1. m \in Nat /\ Ones \in Nat \ {0} /\ n = m + 1
        BY <1>2, Radices
  <2>2. q \in Nat /\ r \in 0 .. Ones - 1 /\ m = q * Ones + r
    <3> HIDE DEF m
    <3> QED BY <2>1, Division
  <2>3. Value(n) = 1 + r
        BY <1>2 DEF Value
  <2>4. q * Ones \in Nat
    <3> HIDE DEF m, q
    <3> QED BY <2>1, <2>2
  <2> DEFINE b == q * Ones
  <2>5. n = b + (1 + r) /\ 1 + r \in 1 .. Ones
    <3> HIDE DEF b, m, q, r
    <3>1. m = b + r /\ b \in Nat
          BY <2>2, <2>4 DEF b
    <3> QED BY <2>1, <2>2, <3>1
  <2>6. n = q * Ones + Value(n)
        BY <2>3, <2>5
  <2>7. Value(n) \in 0 .. Ones /\ Value(n) # 0
    <3> HIDE DEF r
    <3> QED BY <2>1, <2>3, <2>5
  <2> HIDE DEF q
  <2> QED BY <1>2, <2>2, <2>6, <2>7
<1> QED BY <1>1, <1>2

LEMMA ValueOf ==
    ASSUME NEW n \in Nat, NEW q \in Nat, NEW r \in 0 .. Ones,
           r = 0 <=> n = 0, n = q * Ones + r
    PROVE  Value(n) = r
<1>1. CASE n = 0
      BY <1>1, ValueIs
<1>2. CASE n # 0
  <2>1. PICK p \in Nat : n = p * Ones + Value(n)
        BY ValueIs
  <2>2. Value(n) \in 1 .. Ones /\ r \in 1 .. Ones /\ Ones \in Nat
        BY <1>2, ValueIs, Radices
  <2> DEFINE v == Value(n) - 1
             s == r - 1
             a == p * Ones
             b == q * Ones
  <2>3. v \in 0 .. Ones - 1 /\ s \in 0 .. Ones - 1
        BY <2>2
  <2>4. a + v = b + s
    <3>1. a \in Nat /\ b \in Nat
          BY <2>2
    <3>2. n = a + Value(n) /\ n = b + r
          BY <2>1
    <3> HIDE DEF a, b
    <3> QED BY <2>2, <3>1, <3>2
  <2>5. v = s
    <3> HIDE DEF v, s
    <3> QED BY <2>2, <2>3, <2>4, DivisionIsUnique
  <2> QED BY <2>2, <2>5
<1> QED BY <1>1, <1>2

LEMMA ValueOfSmall ==
    ASSUME NEW n \in 0 .. Ones
    PROVE  n \in Nat /\ Value(n) = n
<1>1. n \in Nat /\ 0 * Ones = 0
      BY Radices
<1>2. n = 0 * Ones + n
      BY <1>1
<1> QED BY <1>1, <1>2, ValueOf

\* Multiples of Ones do not count.
LEMMA ValueOfMore ==
    ASSUME NEW n \in Nat \ {0}, NEW k \in Nat
    PROVE  n + k * Ones \in Nat /\ Value(n + k * Ones) = Value(n)
<1>1. PICK q \in Nat : n = q * Ones + Value(n)
      BY ValueIs
<1>2. (q + k) * Ones = q * Ones + k * Ones /\ q * Ones \in Nat /\ k * Ones \in Nat
      BY Radices
<1> DEFINE a == q * Ones
           b == k * Ones
           c == (q + k) * Ones
           v == Value(n)
<1>3. v \in 0 .. Ones /\ v # 0
      BY ValueIs
<1>4. n + b \in Nat /\ n + b # 0 /\ n + b = c + v
  <2> HIDE DEF a, b, c, v
  <2> QED BY <1>1, <1>2, <1>3, Radices DEF a, b, c, v
<1>5. q + k \in Nat
      OBVIOUS
<1>6. Value(n + b) = v
  <2>1. n + b = (q + k) * Ones + v
        BY <1>4
  <2> HIDE DEF b, v
  <2> QED BY <1>3, <1>4, <1>5, <2>1, ValueOf
<1> QED BY <1>4, <1>6

\* The receiver's addition is that of the numbers.
LEMMA PlusIs ==
    ASSUME NEW a \in Nat, NEW b \in Nat
    PROVE  Plus(Value(a), Value(b)) = Value(a + b)
<1> DEFINE x == Value(a)
           y == Value(b)
<1>1. /\ x \in 0 .. Ones /\ (x = 0 <=> a = 0) /\ y \in 0 .. Ones /\ (y = 0 <=> b = 0)
      /\ Ones \in Nat /\ Word = Ones + 1
      BY ValueIs, Radices
<1>2. PICK p \in Nat : a = p * Ones + x
      BY ValueIs
<1>3. PICK q \in Nat : b = q * Ones + y
      BY ValueIs
<1> HIDE DEF x, y
<1>4. (p + q) * Ones = p * Ones + q * Ones /\ p * Ones \in Nat /\ q * Ones \in Nat
      BY <1>1
<1>5. ((p + q) + 1) * Ones = (p + q) * Ones + Ones
      BY <1>1
<1> DEFINE u == p * Ones
           v == q * Ones
           w == (p + q) * Ones
           z == ((p + q) + 1) * Ones
<1>6. u \in Nat /\ v \in Nat /\ w = u + v /\ z = w + Ones /\ a = u + x /\ b = v + y
      BY <1>2, <1>3, <1>4, <1>5
<1>7. CASE x + y < Word
  <2>1. Plus(x, y) = x + y
        BY <1>7 DEF Plus
  <2>2. x + y \in 0 .. Ones /\ (x + y = 0 <=> a + b = 0) /\ a + b = w + (x + y)
    <3> HIDE DEF u, v, w, z
    <3> QED BY <1>1, <1>6, <1>7
  <2>3. a + b = (p + q) * Ones + (x + y) /\ p + q \in Nat /\ a + b \in Nat
        BY <2>2
  <2>4. Value(a + b) = x + y
    <3> HIDE DEF u, v, w, z
    <3> QED BY <2>2, <2>3, ValueOf
  <2> QED BY <2>1, <2>4 DEF x, y
<1>8. CASE ~(x + y < Word)
  <2> DEFINE r == x + y - (Word - 1)
  <2>1. Plus(x, y) = r
        BY <1>8 DEF Plus
  <2>2. r \in 0 .. Ones /\ (r = 0 <=> a + b = 0) /\ a + b = z + r
    <3> HIDE DEF u, v, w, z
    <3> QED BY <1>1, <1>6, <1>8
  <2>3. a + b = ((p + q) + 1) * Ones + r /\ (p + q) + 1 \in Nat /\ a + b \in Nat
        BY <2>2
  <2>4. Value(a + b) = r
    <3> HIDE DEF u, v, w, z, r
    <3> QED BY <2>2, <2>3, ValueOf
  <2> QED BY <2>1, <2>4 DEF x, y
<1> QED BY <1>7, <1>8

\* A sum that folds: its low word and its high part.
LEMMA FoldStep ==
    ASSUME NEW n \in Nat, n >= Word
    PROVE  /\ (n % Word) + (n \div Word) \in Nat
           /\ (n % Word) + (n \div Word) < n
           /\ Value((n % Word) + (n \div Word)) = Value(n)
<1> DEFINE h == n \div Word
           l == n % Word
<1>1. Word \in Nat \ {0} /\ Ones \in Nat \ {0} /\ Word = Ones + 1
      BY Radices
<1>2. h \in Nat /\ l \in 0 .. Word - 1 /\ n = h * Word + l
      BY <1>1, Division
<1> HIDE DEF h, l
<1>3. h * Word = h * Ones + h /\ h * Ones \in Nat
      BY <1>1, <1>2
<1>4. h # 0
  <2>1. h = 0 => h * Word = 0
        BY <1>1
  <2> QED BY <1>1, <1>2, <2>1
<1>5. h * Ones # 0
      BY <1>1, <1>2, <1>4
<1> DEFINE a == h * Ones
           b == h * Word
<1>6. l + h \in Nat \ {0} /\ l + h < n /\ n = (l + h) + a
  <2>1. b = a + h /\ a \in Nat /\ a # 0 /\ n = b + l
        BY <1>2, <1>3, <1>5
  <2> HIDE DEF a, b
  <2> QED BY <1>1, <1>2, <1>4, <2>1
<1>7. Value((l + h) + h * Ones) = Value(l + h)
      BY <1>2, <1>6, ValueOfMore
<1> QED BY <1>6, <1>7 DEF h, l

\* The loop that folds ends with the value of the sum.
LEMMA FoldIs ==
    ASSUME NEW n \in 0 .. AccMod - 1
    PROVE  fold(n) = Value(n)
<1> DEFINE D == 0 .. AccMod - 1
           Folds(f) == f = [m \in D |->
                              IF m < Word THEN m ELSE f[(m % Word) + (m \div Word)]]
           F == [m \in D |-> Value(m)]
           f == CHOOSE g : Folds(g)
<1>1. AccMod \in Nat /\ Word \in Nat /\ Word = Ones + 1 /\ Ones \in Nat
      BY ChecksumAssumption, Radices
<1>2. ASSUME NEW m \in D, ~(m < Word)
      PROVE  /\ (m % Word) + (m \div Word) \in D
             /\ (m % Word) + (m \div Word) < m
             /\ Value((m % Word) + (m \div Word)) = Value(m)
  <2> DEFINE k == (m % Word) + (m \div Word)
  <2>1. m \in Nat /\ m >= Word
        BY <1>1, <1>2
  <2>2. k \in Nat /\ k < m /\ Value(k) = Value(m)
        BY <2>1, FoldStep
  <2> HIDE DEF k
  <2>3. k \in D
        BY <1>1, <2>2
  <2> QED BY <2>2, <2>3 DEF k
<1>3. ASSUME NEW m \in D, m < Word PROVE Value(m) = m
  <2>1. m \in 0 .. Ones
        BY <1>1, <1>3
  <2> QED BY <2>1, ValueOfSmall
<1>4. Folds(F)
  <2>1. ASSUME NEW m \in D
        PROVE  F[m] = IF m < Word THEN m ELSE F[(m % Word) + (m \div Word)]
    <3>1. CASE m < Word
          BY <1>3, <3>1
    <3>2. CASE ~(m < Word)
      <4> DEFINE k == (m % Word) + (m \div Word)
      <4>1. k \in D /\ Value(k) = Value(m)
            BY <1>2, <3>2
      <4> HIDE DEF k
      <4>2. F[k] = F[m]
            BY <4>1
      <4> QED BY <3>2, <4>2 DEF k
    <3> QED BY <3>1, <3>2
  <2>2. F = [m \in D |-> F[m]]
        OBVIOUS
  <2> HIDE DEF F, D
  <2> QED BY <2>1, <2>2
<1>5. Folds(f)
  <2> HIDE DEF Folds, F
  <2> QED BY <1>4
<1>6. fold(n) = f[n]
      BY Zenon DEF fold
<1> HIDE DEF f
<1> DEFINE I == {m \in D : f[m] # Value(m)}
<1>7. I = {}
  <2> SUFFICES ASSUME I # {} PROVE FALSE
      OBVIOUS
  <2>1. I \in SUBSET Nat
        BY <1>1
  <2>2. PICK m \in I : \A k \in I : m <= k
    <3> HIDE DEF I
    <3> QED BY <2>1, LeastNatural
  <2>3. m \in D /\ f[m] # Value(m)
        BY <2>2
  <2>4. CASE m < Word
        BY <1>3, <1>5, <2>3, <2>4
  <2>5. CASE ~(m < Word)
    <3> DEFINE k == (m % Word) + (m \div Word)
    <3>1. k \in D /\ k < m /\ Value(k) = Value(m)
          BY <1>2, <2>3, <2>5
    <3>2. f[m] = f[k]
          BY <1>5, <2>3, <2>5
    <3> HIDE DEF k
    <3>3. m \in Nat /\ k \in Nat /\ k \notin I
      <4>1. m \in Nat /\ k \in Nat
            BY <1>1, <2>3, <3>1
      <4>2. k \in I => m <= k
            BY <2>2
      <4> HIDE DEF I
      <4> QED BY <3>1, <4>1, <4>2
    <3>4. f[k] = Value(k)
          BY <3>1, <3>3
    <3> QED BY <2>3, <3>1, <3>2, <3>4
  <2> QED BY <2>4, <2>5
<1> QED BY <1>6, <1>7

-----------------------------------------------------------------------------
(* The sums of bytes *)

Sum(data) == SumUpTo(Weights(data), Len(data))

LEMMA ByteIs ==
    ASSUME NEW b \in Byte
    PROVE  /\ b \in Nat /\ b <= Radix - 1 /\ b * Radix \in Nat
           /\ b * Radix <= Word - Radix
<1>1. Radix \in Nat /\ Radix >= 2 /\ Word = Radix * Radix
      BY Radices
<1>2. b \in Nat /\ b <= Radix - 1
      BY <1>1 DEF Byte
<1> DEFINE d == Radix - 1 - b
<1>3. d \in Nat /\ Radix - 1 = b + d
      BY <1>1, <1>2
<1> HIDE DEF d
<1>4. (b + d + 1) * Radix = b * Radix + d * Radix + Radix
      BY <1>1, <1>2, <1>3
<1>5. Radix = b + d + 1 /\ d * Radix \in Nat /\ b * Radix \in Nat
      BY <1>1, <1>2, <1>3
<1>6. Word = b * Radix + d * Radix + Radix
      BY <1>1, <1>4, <1>5
<1> DEFINE x == b * Radix
           y == d * Radix
<1> HIDE DEF x, y
<1> QED BY <1>1, <1>2, <1>5, <1>6 DEF x, y

LEMMA WeightsAre ==
    ASSUME NEW s \in Seq(Byte)
    PROVE  /\ Len(s) \in Nat /\ Weights(s) \in [Nat -> Nat]
           /\ \A k \in Nat : Weights(s)[k] <= Word
           /\ \A k \in 1 .. Len(s) : /\ k % 2 = 1 => Weights(s)[k] = s[k] * Radix
                                     /\ k % 2 = 0 => Weights(s)[k] = s[k]
           /\ \A k \in Nat \ (1 .. Len(s)) : Weights(s)[k] = 0
<1>1. Len(s) \in Nat /\ DOMAIN s = 1 .. Len(s)
      OBVIOUS
<1>2. \A k \in Nat : Weights(s)[k] = IF k \notin DOMAIN s THEN 0
                                     ELSE s[k] * (IF k % 2 = 1 THEN Radix ELSE 1)
      BY DEF Weights
<1>3. ASSUME NEW k \in 1 .. Len(s)
      PROVE  /\ k % 2 = 1 => Weights(s)[k] = s[k] * Radix
             /\ k % 2 = 0 => Weights(s)[k] = s[k]
             /\ s[k] \in Byte /\ (k % 2 = 1 \/ k % 2 = 0)
  <2>1. k \in Nat /\ k \in DOMAIN s /\ s[k] \in Byte /\ (k % 2 = 1 \/ k % 2 = 0)
        BY <1>1
  <2>2. s[k] * 1 = s[k]
        BY <2>1, ByteIs
  <2> QED BY <1>2, <2>1, <2>2
<1>4. \A k \in Nat \ (1 .. Len(s)) : Weights(s)[k] = 0
      BY <1>1, <1>2
<1>5. ASSUME NEW k \in Nat PROVE Weights(s)[k] \in Nat /\ Weights(s)[k] <= Word
  <2>1. CASE k \in 1 .. Len(s)
    <3>1. /\ s[k] \in Nat /\ s[k] <= Radix - 1
          /\ s[k] * Radix \in Nat /\ s[k] * Radix <= Word - Radix
          BY <1>3, <2>1, ByteIs
    <3>2. Weights(s)[k] = s[k] * Radix \/ Weights(s)[k] = s[k]
          BY <1>3, <2>1
    <3> DEFINE x == s[k] * Radix
               y == s[k]
               w == Weights(s)[k]
    <3> HIDE DEF x, y, w
    <3> QED BY <3>1, <3>2, Radices DEF x, y, w
  <2>2. CASE k \notin 1 .. Len(s)
        BY <1>4, <2>2, Radices
  <2> QED BY <2>1, <2>2
<1>6. Weights(s) \in [Nat -> Nat]
  <2>1. Weights(s) = [k \in Nat |-> Weights(s)[k]]
        BY DEF Weights
  <2> QED BY <1>5, <2>1
<1> QED BY <1>1, <1>3, <1>4, <1>5, <1>6

\* As long as the accumulator does not wrap, sum_words adds the bytes by their weights.
LEMMA SumWordsIs ==
    ASSUME NEW s \in Seq(Byte), NEW acc \in Nat, acc + Len(s) * Word < AccMod
    PROVE  /\ Sum(s) \in Nat /\ Sum(s) <= Len(s) * Word
           /\ sum_words(s, acc) = acc + Sum(s)
<1>1. /\ Len(s) \in Nat /\ Weights(s) \in [Nat -> Nat] /\ Word \in Nat /\ AccMod \in Nat
      /\ \A k \in Nat : Weights(s)[k] <= Word
      BY WeightsAre, Radices, ChecksumAssumption
<1>2. Sum(s) \in Nat
      BY <1>1, SumUpToIs DEF Sum
<1> DEFINE g == Weights(s)
           l == Len(s)
           b == l * Word
<1>3. Sum(s) <= b
  <2>1. SumUpTo(g, l) <= l * Word
    <3> HIDE DEF g, l
    <3> QED BY <1>1, SumIsBelow DEF g, l
  <2> QED BY <2>1 DEF Sum
<1>4. l * Word \in Nat
      BY <1>1
<1> DEFINE x == Sum(s)
<1>5. acc + x \in 0 .. AccMod - 1
  <2>1. acc + b < AccMod /\ b \in Nat /\ x \in Nat /\ x <= b
        BY <1>2, <1>3, <1>4
  <2> HIDE DEF x, b
  <2> QED BY <1>1, <2>1
<1>6. (acc + x) % AccMod = acc + x
  <2> DEFINE n == acc + x
  <2>1. n \in 0 .. AccMod - 1
        BY <1>5
  <2> HIDE DEF n
  <2>2. n % AccMod = n
        BY <1>1, <2>1, Remainder
  <2> QED BY <2>2 DEF n
<1>7. sum_words(s, acc) = (acc + x) % AccMod
      BY DEF sum_words, Sum
<1> QED BY <1>2, <1>3, <1>6, <1>7

-----------------------------------------------------------------------------
(* The receiver *)

LEMMA WordIs ==
    ASSUME NEW s \in Seq(Byte), NEW k \in 1 .. (Len(s) + 1) \div 2
    PROVE  /\ WordAt(s, k) = Weights(s)[2 * k - 1] + Weights(s)[2 * k]
           /\ WordAt(s, k) \in 0 .. Ones
<1>1. Len(s) \in Nat /\ DOMAIN s = 1 .. Len(s)
      BY WeightsAre
<1>2. /\ k \in Nat \ {0} /\ 2 * k - 1 \in 1 .. Len(s) /\ 2 * k - 1 \in Nat /\ 2 * k \in Nat
      /\ (2 * k - 1) % 2 = 1 /\ (2 * k) % 2 = 0
      /\ 2 * k <= Len(s) => 2 * k \in 1 .. Len(s)
      BY <1>1
<1>3. Weights(s)[2 * k - 1] = s[2 * k - 1] * Radix /\ s[2 * k - 1] \in Byte
  <2> DEFINE j == 2 * k - 1
  <2>1. j \in 1 .. Len(s) /\ j % 2 = 1
        BY <1>2
  <2>2. s[j] \in Byte
        BY <1>1, <2>1
  <2> HIDE DEF j
  <2>3. Weights(s)[j] = s[j] * Radix
        BY <2>1, WeightsAre
  <2> QED BY <2>2, <2>3 DEF j
<1>4. Weights(s)[2 * k] = IF 2 * k <= Len(s) THEN s[2 * k] ELSE 0
  <2>1. CASE 2 * k <= Len(s)
        BY <1>2, <2>1, WeightsAre
  <2>2. CASE ~(2 * k <= Len(s))
    <3>1. 2 * k \in Nat \ (1 .. Len(s))
          BY <1>1, <1>2, <2>2
    <3> QED BY <2>2, <3>1, WeightsAre
  <2> QED BY <2>1, <2>2
<1>5. 2 * k <= Len(s) => s[2 * k] \in Byte
      BY <1>1, <1>2
<1> DEFINE x == s[2 * k - 1] * Radix
           y == IF 2 * k <= Len(s) THEN s[2 * k] ELSE 0
<1>6. x \in Nat /\ x <= Word - Radix
      BY <1>3, ByteIs
<1>7. y \in Nat /\ y <= Radix - 1
  <2>1. CASE 2 * k <= Len(s)
    <3> DEFINE b == s[2 * k]
    <3>1. b \in Byte /\ y = b
          BY <1>5, <2>1
    <3> HIDE DEF b, y
    <3> QED BY <3>1, ByteIs
  <2>2. CASE ~(2 * k <= Len(s))
    <3>1. y = 0
          BY <2>2
    <3> HIDE DEF y
    <3> QED BY <3>1, Radices
  <2> QED BY <2>1, <2>2
<1>8. WordAt(s, k) = x + y
      BY DEF WordAt
<1>9. x + y \in 0 .. Ones
  <2> HIDE DEF x, y
  <2> QED BY <1>6, <1>7, Radices
<1> QED BY <1>3, <1>4, <1>8, <1>9

\* The receiver's word-by-word addition gives the value of the sum of the bytes.
LEMMA TotalIs ==
    ASSUME NEW s \in Seq(Byte)
    PROVE  Sum(s) \in Nat /\ Total(s) = Value(Sum(s))
<1> DEFINE g == Weights(s)
           n == (Len(s) + 1) \div 2
           D == 0 .. n
           Adds(t) == t = [k \in D |-> IF k = 0 THEN 0 ELSE Plus(t[k - 1], WordAt(s, k))]
           T == [k \in D |-> Value(SumUpTo(g, 2 * k))]
           t == CHOOSE u : Adds(u)
<1>1. /\ Len(s) \in Nat /\ g \in [Nat -> Nat]
      /\ \A k \in Nat \ (1 .. Len(s)) : g[k] = 0
      BY WeightsAre
<1>2. n \in Nat /\ (2 * n = Len(s) \/ 2 * n = Len(s) + 1)
  <2> DEFINE l == Len(s)
  <2>1. l \in Nat
        BY <1>1
  <2> HIDE DEF l
  <2>2. (l + 1) \div 2 \in Nat /\ (2 * ((l + 1) \div 2) = l \/ 2 * ((l + 1) \div 2) = l + 1)
        BY <2>1
  <2> QED BY <2>2 DEF l
<1>3. ASSUME NEW k \in D, k # 0
      PROVE  /\ k - 1 \in D /\ k - 1 \in Nat
             /\ Plus(Value(SumUpTo(g, 2 * (k - 1))), WordAt(s, k)) = Value(SumUpTo(g, 2 * k))
  <2>1. /\ k - 1 \in D /\ k - 1 \in Nat /\ k \in 1 .. n
        /\ 2 * (k - 1) \in Nat /\ 2 * k - 1 \in Nat
        /\ 2 * k - 1 = 2 * (k - 1) + 1 /\ 2 * k = (2 * k - 1) + 1
        BY <1>2, <1>3
  <2> HIDE DEF g
  <2> DEFINE a == SumUpTo(g, 2 * (k - 1))
             b == WordAt(s, k)
  <2>2. /\ a \in Nat
        /\ SumUpTo(g, 2 * k - 1) = a + g[2 * k - 1]
        /\ SumUpTo(g, 2 * k) = SumUpTo(g, 2 * k - 1) + g[2 * k]
        BY <1>1, <2>1, SumUpToIs
  <2>3. b = g[2 * k - 1] + g[2 * k] /\ b \in 0 .. Ones
        BY <2>1, WordIs DEF g
  <2>4. g[2 * k - 1] \in Nat /\ g[2 * k] \in Nat
    <3>1. 2 * k \in Nat
          BY <2>1
    <3> QED BY <1>1, <2>1, <3>1
  <2>5. SumUpTo(g, 2 * k) = a + b
        BY <2>2, <2>3, <2>4
  <2>6. b \in Nat /\ Value(b) = b
        BY <2>3, ValueOfSmall
  <2> HIDE DEF a, b
  <2>7. Plus(Value(a), b) = Value(a + b)
        BY <2>2, <2>6, PlusIs
  <2> QED BY <2>1, <2>5, <2>7 DEF a, b
<1>4. SumUpTo(g, 0) = 0 /\ Value(0) = 0 /\ 2 * 0 = 0
  <2> HIDE DEF g
  <2> QED BY <1>1, SumUpToIs DEF Value
<1>5. Adds(T)
  <2>1. ASSUME NEW k \in D
        PROVE  T[k] = IF k = 0 THEN 0 ELSE Plus(T[k - 1], WordAt(s, k))
    <3> DEFINE V(j) == Value(SumUpTo(g, 2 * j))
    <3>1. T[k] = V(k) /\ (k - 1 \in D => T[k - 1] = V(k - 1))
          OBVIOUS
    <3>2. k # 0 => k - 1 \in D /\ Plus(V(k - 1), WordAt(s, k)) = V(k)
          BY <1>3
    <3>3. k = 0 => V(k) = 0
          BY <1>4
    <3> HIDE DEF T, V, D
    <3> QED BY <3>1, <3>2, <3>3
  <2>2. T = [k \in D |-> T[k]]
        OBVIOUS
  <2> HIDE DEF T, D
  <2> QED BY <2>1, <2>2
<1>6. Adds(t)
  <2> HIDE DEF Adds, T
  <2> QED BY <1>5
<1>7. Total(s) = t[n]
      BY Zenon DEF Total
<1> HIDE DEF t
<1> DEFINE V(j) == Value(SumUpTo(g, 2 * j))
           I == {k \in Nat : k \in D => t[k] = V(k)}
<1>8. 0 \in I
  <2>1. t[0] = 0
        BY <1>2, <1>6
  <2> QED BY <1>4, <2>1
<1>9. ASSUME NEW k \in I PROVE k + 1 \in I
  <2> SUFFICES ASSUME k + 1 \in D PROVE t[k + 1] = V(k + 1)
      OBVIOUS
  <2>1. k \in Nat /\ k \in D /\ t[k] = V(k) /\ (k + 1) - 1 = k /\ k + 1 # 0
        BY <1>2
  <2>2. t[k + 1] = Plus(t[(k + 1) - 1], WordAt(s, k + 1))
        BY <1>6, <2>1
  <2>3. Plus(V((k + 1) - 1), WordAt(s, k + 1)) = V(k + 1)
        BY <1>3, <2>1
  <2> HIDE DEF V
  <2> QED BY <2>1, <2>2, <2>3
<1>10. I = Nat
  <2>1. I \in SUBSET Nat
        OBVIOUS
  <2> HIDE DEF I
  <2> QED BY <1>8, <1>9, <2>1, AllNaturals
<1>11. t[n] = V(n)
  <2>1. n \in I /\ n \in D
        BY <1>2, <1>10
  <2> QED BY <2>1
<1>12. Sum(s) \in Nat /\ SumUpTo(g, 2 * n) = Sum(s)
  <2>1. Sum(s) = SumUpTo(g, Len(s))
        BY DEF Sum
  <2> HIDE DEF g, n
  <2>2. SumUpTo(g, Len(s)) \in Nat
        BY <1>1, SumUpToIs
  <2>3. CASE 2 * n = Len(s) + 1
    <3>1. Len(s) + 1 \in Nat \ (1 .. Len(s))
          BY <1>1
    <3>2. g[Len(s) + 1] = 0 /\ SumUpTo(g, Len(s) + 1) = SumUpTo(g, Len(s)) + g[Len(s) + 1]
          BY <1>1, <3>1, SumUpToIs
    <3> QED BY <2>1, <2>2, <2>3, <3>2
  <2> QED BY <1>2, <2>1, <2>2, <2>3
<1> QED BY <1>7, <1>11, <1>12

-----------------------------------------------------------------------------
(* What recompute() and the receiver make of a segment *)

Number == IF proto = "tcp" THEN 1 ELSE 2
Whole(seg) == Sum(pseudo) + (Number + Len(seg)) + Sum(seg)

LEMMA WholeIs ==
    ASSUME pseudo \in Pseudo, NEW seg \in Seq(Byte), Len(seg) <= MaxLen
    PROVE  /\ Whole(seg) \in Nat \ {0}
           /\ transport(seg) = Ones - Value(Whole(seg))
           /\ Sum(pseudo) \in Nat /\ Sum(seg) \in Nat
           /\ Number + Len(seg) \in 1 .. Ones
<1> DEFINE p == Len(pseudo)
           l == Len(seg)
           x == Sum(pseudo)
           y == Sum(seg)
           c == Number
           d == MaxLen - l
           a == p * Word
           b == l * Word
           e == d * Word
<1>1. /\ pseudo \in Seq(Byte) /\ AccMod > (MaxLen + p + 1) * Word
      /\ MaxLen \in Nat /\ MaxLen + 2 < Word /\ AccMod \in Nat
      BY ChecksumAssumption
<1>2. p \in Nat /\ l \in Nat /\ Word \in Nat /\ Word = Ones + 1 /\ Ones \in Nat
      BY <1>1, WeightsAre, Radices
<1>3. c \in {1, 2}
      BY DEF Number
<1>4. d \in Nat /\ MaxLen = l + d
  <2> HIDE DEF l
  <2> QED BY <1>1, <1>2 DEF l
<1>5. a \in Nat /\ b \in Nat /\ e \in Nat /\ AccMod > a + b + e + Word
  <2> HIDE DEF p, l, d
  <2>1. ((l + d) + p + 1) * Word = p * Word + l * Word + d * Word + Word
        BY <1>2, <1>4
  <2>2. p * Word \in Nat /\ l * Word \in Nat /\ d * Word \in Nat
        BY <1>2, <1>4
  <2>3. AccMod > ((l + d) + p + 1) * Word
        BY <1>1, <1>4
  <2> QED BY <2>1, <2>2, <2>3
<1>6. x \in Nat /\ x <= a /\ sum_words(pseudo, 0) = 0 + x
  <2>1. 0 + a < AccMod
    <3> HIDE DEF a, b, e
    <3> QED BY <1>1, <1>2, <1>5
  <2> QED BY <1>1, <2>1, SumWordsIs
<1>7. sum_words(pseudo, 0) + c + l = x + c + l /\ x + c + l \in 0 .. AccMod - 1
      /\ (x + c + l) + b < AccMod
  <2> HIDE DEF a, b, e, x, c, l
  <2>1. l <= MaxLen
        BY DEF l
  <2>2. MaxLen \in Nat /\ MaxLen + 2 < Word /\ AccMod \in Nat
        BY <1>1
  <2> DEFINE w == sum_words(pseudo, 0)
  <2>3. w = x
        BY <1>6
  <2>4. x + c + l \in Nat /\ (x + c + l) + b < AccMod
        BY <1>2, <1>3, <1>5, <1>6, <2>1, <2>2
  <2>5. x + c + l \in 0 .. AccMod - 1
        BY <1>5, <2>2, <2>4
  <2> HIDE DEF w
  <2> QED BY <2>3, <2>4, <2>5 DEF w
<1>8. (x + c + l) % AccMod = x + c + l
  <2> DEFINE n == x + c + l
  <2>1. n \in 0 .. AccMod - 1
        BY <1>7
  <2> HIDE DEF n
  <2>2. n % AccMod = n
        BY <1>1, <2>1, Remainder
  <2> QED BY <2>2 DEF n
<1>9. y \in Nat /\ y <= b /\ sum_words(seg, x + c + l) = (x + c + l) + y
  <2> DEFINE n == x + c + l
  <2>1. n \in Nat /\ n + Len(seg) * Word < AccMod
        BY <1>1, <1>7
  <2> HIDE DEF n
  <2>2. /\ Sum(seg) \in Nat /\ Sum(seg) <= Len(seg) * Word
        /\ sum_words(seg, n) = n + Sum(seg)
        BY <2>1, SumWordsIs
  <2> QED BY <2>2 DEF n
<1>10. Whole(seg) = (x + c + l) + y
  <2>1. Whole(seg) = x + (c + l) + y
        BY DEF Whole
  <2> HIDE DEF x, y, c, l
  <2> QED BY <1>2, <1>3, <1>6, <1>9, <2>1
<1>11. Whole(seg) \in Nat \ {0} /\ Whole(seg) \in 0 .. AccMod - 1
  <2> HIDE DEF x, y, c, l, a, b, e
  <2>1. y <= b /\ (x + c + l) + b < AccMod /\ x + c + l \in Nat
        BY <1>1, <1>7, <1>9
  <2> QED BY <1>1, <1>2, <1>3, <1>5, <1>6, <1>9, <1>10, <2>1
<1>12. transport(seg) = Word - 1 - fold(Whole(seg))
  <2>1. transport(seg) = Word - 1 - fold(sum_words(seg, (sum_words(pseudo, 0) + c + l) % AccMod))
        BY Zenon DEF transport, Number
  <2> QED BY <1>7, <1>8, <1>9, <1>10, <2>1
<1>13. transport(seg) = Ones - Value(Whole(seg))
  <2>1. fold(Whole(seg)) = Value(Whole(seg))
        BY <1>11, FoldIs
  <2> QED BY <1>12, <2>1 DEF Ones
<1>14. c + l \in 1 .. Ones
  <2> HIDE DEF c, l
  <2>1. l <= MaxLen
        BY DEF l
  <2> QED BY <1>1, <1>2, <1>3, <2>1
<1> QED BY <1>6, <1>9, <1>11, <1>13, <1>14

\* What a receiver gets that adds a segment up with the present headers.
LEMMA AddsUp ==
    ASSUME pseudo \in Pseudo, NEW s \in Seq(Byte), Len(s) <= MaxLen
    PROVE  Plus(Plus(Total(pseudo), Number + Len(s)), Total(s)) = Value(Whole(s))
<1> DEFINE x == Sum(pseudo)
           y == Sum(s)
           m == Number + Len(s)
<1>1. x \in Nat /\ y \in Nat /\ m \in 1 .. Ones /\ pseudo \in Seq(Byte)
      BY WholeIs, ChecksumAssumption
<1>2. Total(pseudo) = Value(x) /\ Total(s) = Value(y)
      BY <1>1, TotalIs
<1>4. Whole(s) = x + m + y
      BY DEF Whole
<1> HIDE DEF x, y, m
<1>5. m \in Nat /\ Value(m) = m /\ x + m \in Nat
      BY <1>1, Radices, ValueOfSmall
<1>6. Plus(Value(x), m) = Value(x + m)
      BY <1>1, <1>5, PlusIs
<1>7. Plus(Value(x + m), Value(y)) = Value(x + m + y)
      BY <1>1, <1>5, PlusIs
<1>8. Plus(Plus(Total(pseudo), m), Total(s)) = Value(Whole(s))
      BY <1>2, <1>4, <1>6, <1>7
<1> QED BY <1>8 DEF m

\* What a sum of all ones is, and is not.
LEMMA AllOnes ==
    ASSUME NEW n \in Nat \ {0}
    PROVE  Value(n) = Ones <=> \E q \in Nat : n = q * Ones
<1>1. Ones \in Nat \ {0}
      BY Radices
<1>2. ASSUME Value(n) = Ones PROVE \E q \in Nat : n = q * Ones
  <2>1. PICK q \in Nat : n = q * Ones + Value(n)
        BY ValueIs
  <2>2. (q + 1) * Ones = q * Ones + Ones
        BY <1>1
  <2>3. n = (q + 1) * Ones /\ q + 1 \in Nat
        BY <1>2, <2>1, <2>2
  <2> QED BY <2>3
<1>3. ASSUME NEW q \in Nat, n = q * Ones PROVE Value(n) = Ones
  <2>1. q # 0
    <3>1. q = 0 => q * Ones = 0
          BY <1>1
    <3> QED BY <1>3, <3>1
  <2> DEFINE p == q - 1
  <2>2. p \in Nat /\ q = p + 1
        BY <2>1
  <2> HIDE DEF p
  <2>3. (p + 1) * Ones = p * Ones + Ones
        BY <1>1, <2>2
  <2>4. n = p * Ones + Ones
        BY <1>3, <2>2, <2>3
  <2>5. Ones \in 0 .. Ones /\ Ones # 0 /\ n # 0
        BY <1>1
  <2> QED BY <2>2, <2>4, <2>5, ValueOf
<1> QED BY <1>2, <1>3

-----------------------------------------------------------------------------
(* Changes of a byte and of the field *)

LEMMA ByteChanges ==
    ASSUME NEW s \in Seq(Byte), NEW t \in Seq(Byte), Len(s) = Len(t), NEW k \in 1 .. Len(s),
           \A j \in (1 .. Len(s)) \ {k} : s[j] = t[j]
    PROVE  /\ Sum(s) \in Nat /\ Sum(t) \in Nat
           /\ k % 2 = 1 => Sum(s) + t[k] * Radix = Sum(t) + s[k] * Radix
           /\ k % 2 = 0 => Sum(s) + t[k] = Sum(t) + s[k]
<1> DEFINE g == Weights(s)
           h == Weights(t)
           n == Len(s)
<1>1. n \in Nat /\ g \in [Nat -> Nat] /\ h \in [Nat -> Nat]
      BY WeightsAre
<1>2. ASSUME NEW j \in Nat \ {k} PROVE g[j] = h[j]
  <2>1. CASE j \in 1 .. n
    <3>1. s[j] = t[j] /\ j \in 1 .. Len(t) /\ (j % 2 = 1 \/ j % 2 = 0)
          BY <1>2, <2>1
    <3>2. /\ j % 2 = 1 => g[j] = s[j] * Radix /\ h[j] = t[j] * Radix
          /\ j % 2 = 0 => g[j] = s[j] /\ h[j] = t[j]
          BY <2>1, <3>1, WeightsAre
    <3> QED BY <3>1, <3>2
  <2>2. CASE j \notin 1 .. n
        BY <1>2, <2>2, WeightsAre
  <2> QED BY <2>1, <2>2
<1>3. SumUpTo(g, n) + h[k] = SumUpTo(h, n) + g[k]
  <2> HIDE DEF g, h
  <2> QED BY <1>1, <1>2, OneDiffers
<1>4. SumUpTo(g, n) = Sum(s) /\ SumUpTo(h, n) = Sum(t)
      BY DEF Sum
<1>5. Sum(s) \in Nat /\ Sum(t) \in Nat
      BY TotalIs
<1>6. /\ k % 2 = 1 => g[k] = s[k] * Radix /\ h[k] = t[k] * Radix
      /\ k % 2 = 0 => g[k] = s[k] /\ h[k] = t[k]
      BY WeightsAre
<1>7. k % 2 = 1 \/ k % 2 = 0
      BY <1>1
<1> HIDE DEF g, h, n
<1>8. CASE k % 2 = 1
  <2>1. g[k] = s[k] * Radix /\ h[k] = t[k] * Radix /\ k % 2 # 0
        BY <1>6, <1>8
  <2> QED BY <1>3, <1>4, <1>5, <1>8, <2>1
<1>9. CASE k % 2 = 0
  <2>1. g[k] = s[k] /\ h[k] = t[k] /\ k % 2 # 1
        BY <1>6, <1>9
  <2> QED BY <1>3, <1>4, <1>5, <1>9, <2>1
<1> QED BY <1>7, <1>8, <1>9

Field(s) == s[3] * Radix + s[4]

LEMMA FieldOf ==
    ASSUME NEW s \in Seq(Byte), Len(s) >= 4
    PROVE  s[3] \in Byte /\ s[4] \in Byte /\ Field(s) \in 0 .. Ones
<1>1. s[3] \in Byte /\ s[4] \in Byte
  <2>1. 3 \in 1 .. Len(s) /\ 4 \in 1 .. Len(s)
        OBVIOUS
  <2> QED BY <2>1
<1> DEFINE x == s[3] * Radix
           y == s[4]
<1>2. x \in Nat /\ x <= Word - Radix /\ y \in Nat /\ y <= Radix - 1
      BY <1>1, ByteIs
<1>3. x + y \in 0 .. Ones
  <2> HIDE DEF x, y
  <2> QED BY <1>2, Radices
<1> QED BY <1>1, <1>3 DEF Field

LEMMA SetByte ==
    ASSUME NEW s \in Seq(Byte), NEW k \in 1 .. Len(s), NEW b \in Byte
    PROVE  /\ [s EXCEPT ![k] = b] \in Seq(Byte) /\ Len([s EXCEPT ![k] = b]) = Len(s)
           /\ [s EXCEPT ![k] = b][k] = b
           /\ \A j \in (1 .. Len(s)) \ {k} : [s EXCEPT ![k] = b][j] = s[j]
OBVIOUS

LEMMA FieldChanges ==
    ASSUME NEW s \in Seq(Byte), NEW t \in Seq(Byte), Len(s) = Len(t), Len(s) >= 4,
           \A j \in (1 .. Len(s)) \ {3, 4} : s[j] = t[j]
    PROVE  Sum(s) + Field(t) = Sum(t) + Field(s)
<1> DEFINE u == [s EXCEPT ![3] = t[3]]
           n == Len(s)
<1>1. n \in Nat /\ 3 \in 1 .. n /\ 4 \in 1 .. n
      BY WeightsAre
<1>2. s[3] \in Byte /\ s[4] \in Byte /\ t[3] \in Byte /\ t[4] \in Byte
      BY FieldOf
<1>3. u \in Seq(Byte) /\ Len(u) = n /\ u[3] = t[3] /\ \A j \in (1 .. n) \ {3} : u[j] = s[j]
      BY <1>1, <1>2, SetByte
<1> HIDE DEF u, n
<1>4. \A j \in (1 .. Len(u)) \ {4} : u[j] = t[j]
      BY <1>1, <1>3 DEF n
<1>5. /\ Sum(s) \in Nat /\ Sum(u) \in Nat
      /\ Sum(s) + u[3] * Radix = Sum(u) + s[3] * Radix
  <2>1. 3 % 2 = 1 /\ 3 \in 1 .. Len(s) /\ Len(s) = Len(u)
        BY <1>1, <1>3 DEF n
  <2>2. \A j \in (1 .. Len(s)) \ {3} : s[j] = u[j]
        BY <1>3 DEF n
  <2> QED BY <1>3, <2>1, <2>2, ByteChanges
<1>6. Sum(t) \in Nat /\ Sum(u) + t[4] = Sum(t) + u[4]
  <2>1. 4 % 2 = 0 /\ 4 \in 1 .. Len(u) /\ Len(u) = Len(t)
        BY <1>1, <1>3 DEF n
  <2> QED BY <1>3, <1>4, <2>1, ByteChanges
<1>7. u[4] = s[4]
      BY <1>1, <1>3
<1> DEFINE a == s[3] * Radix
           b == t[3] * Radix
           x == s[4]
           y == t[4]
<1>8. a \in Nat /\ b \in Nat /\ x \in Nat /\ y \in Nat
      BY <1>2, ByteIs
<1>9. Sum(s) + b = Sum(u) + a /\ Sum(u) + y = Sum(t) + x
      BY <1>3, <1>5, <1>6, <1>7
<1>10. Field(s) = a + x /\ Field(t) = b + y
      BY DEF Field
<1> HIDE DEF a, b, x, y
<1> DEFINE k == Sum(s)
           l == Sum(u)
           m == Sum(t)
<1>11. k \in Nat /\ l \in Nat /\ m \in Nat /\ k + b = l + a /\ l + y = m + x
      BY <1>5, <1>6, <1>9
<1> HIDE DEF k, l, m
<1>12. k + (b + y) = m + (a + x)
      BY <1>8, <1>11
<1> QED BY <1>10, <1>12 DEF k, m

\* The two bytes of a checksum.
LEMMA BytesOf ==
    ASSUME NEW c \in 0 .. Ones
    PROVE  /\ c \div Radix \in Byte /\ c % Radix \in Byte
           /\ c = (c \div Radix) * Radix + (c % Radix)
<1>1. Radix \in Nat \ {0} /\ c \in Nat /\ c < Word /\ Word = Radix * Radix
      BY Radices
<1> DEFINE q == c \div Radix
           r == c % Radix
<1>2. q \in Nat /\ r \in 0 .. Radix - 1 /\ c = q * Radix + r
      BY <1>1, Division
<1> HIDE DEF q, r
<1>3. q < Radix
  <2> SUFFICES ASSUME q >= Radix PROVE FALSE
      BY <1>1, <1>2
  <2> DEFINE d == q - Radix
  <2>1. d \in Nat /\ q = Radix + d
        BY <1>1, <1>2
  <2> HIDE DEF d
  <2>2. (Radix + d) * Radix = Radix * Radix + d * Radix /\ d * Radix \in Nat
        BY <1>1, <2>1
  <2>3. q * Radix = Word + d * Radix
        BY <1>1, <2>1, <2>2
  <2> DEFINE w == q * Radix
             v == d * Radix
  <2>4. w = Word + v /\ v \in Nat /\ c = w + r
        BY <1>2, <2>2, <2>3
  <2> HIDE DEF w, v
  <2> QED BY <1>1, <1>2, <2>4, Radices
<1>4. q \in 0 .. Radix - 1
      BY <1>1, <1>2, <1>3
<1> QED BY <1>2, <1>4 DEF q, r, Byte

LEMMA WithFieldIs ==
    ASSUME NEW s \in Seq(Byte), Len(s) >= 4, NEW c \in 0 .. Ones
    PROVE  /\ WithField(s, c) \in Seq(Byte) /\ Len(WithField(s, c)) = Len(s)
           /\ Field(WithField(s, c)) = c
           /\ \A j \in (1 .. Len(s)) \ {3, 4} : WithField(s, c)[j] = s[j]
           /\ WithField(s, c)[3] \in Byte /\ WithField(s, c)[4] \in Byte
<1> DEFINE a == c \div Radix
           b == c % Radix
           u == [s EXCEPT ![3] = a]
           v == [u EXCEPT ![4] = b]
<1>1. a \in Byte /\ b \in Byte /\ c = a * Radix + b
      BY BytesOf
<1>2. Len(s) \in Nat /\ 3 \in 1 .. Len(s) /\ 4 \in 1 .. Len(s)
      BY WeightsAre
<1>3. WithField(s, c) = v
      BY Zenon DEF WithField
<1> HIDE DEF a, b
<1>4. /\ u \in Seq(Byte) /\ Len(u) = Len(s) /\ u[3] = a
      /\ \A j \in (1 .. Len(s)) \ {3} : u[j] = s[j]
      BY <1>1, <1>2, SetByte
<1> HIDE DEF u
<1>5. /\ v \in Seq(Byte) /\ Len(v) = Len(u) /\ v[4] = b
      /\ \A j \in (1 .. Len(u)) \ {4} : v[j] = u[j]
      BY <1>1, <1>2, <1>4, SetByte
<1> HIDE DEF v
<1>6. v[3] = a
      BY <1>2, <1>4, <1>5
<1>7. Field(v) = c
      BY <1>1, <1>5, <1>6 DEF Field
<1>8. \A j \in (1 .. Len(s)) \ {3, 4} : v[j] = s[j]
      BY <1>4, <1>5
<1> QED BY <1>1, <1>3, <1>4, <1>5, <1>6, <1>7, <1>8

-----------------------------------------------------------------------------
(* What is sent is accepted *)

\* Another field changes the whole by as much.
LEMMA WholeChanges ==
    ASSUME pseudo \in Pseudo, NEW s \in Seq(Byte), NEW t \in Seq(Byte),
           Len(s) = Len(t), Len(s) >= 4, Len(s) <= MaxLen,
           \A j \in (1 .. Len(s)) \ {3, 4} : s[j] = t[j]
    PROVE  Whole(s) + Field(t) = Whole(t) + Field(s)
<1> DEFINE x == Sum(pseudo)
           c == Number + Len(s)
           a == Sum(s)
           b == Sum(t)
           f == Field(s)
           g == Field(t)
<1>1. x \in Nat /\ a \in Nat /\ b \in Nat /\ c \in 1 .. Ones
      BY WholeIs
<1>2. f \in 0 .. Ones /\ g \in 0 .. Ones
      BY FieldOf
<1>3. a + g = b + f
      BY FieldChanges
<1>4. Whole(s) = x + c + a /\ Whole(t) = x + c + b
      BY DEF Whole
<1> HIDE DEF x, c, a, b, f, g
<1>5. (x + c + a) + g = (x + c + b) + f
      BY <1>1, <1>2, <1>3, Radices
<1> QED BY <1>4, <1>5 DEF f, g

\* The complement makes up for what is missing to a multiple of Ones.
LEMMA Complement ==
    ASSUME NEW n \in Nat \ {0}
    PROVE  /\ Ones - Value(n) \in 0 .. Ones
           /\ Value(n + (Ones - Value(n))) = Ones
<1>1. PICK q \in Nat : n = q * Ones + Value(n)
      BY ValueIs
<1>2. Value(n) \in 0 .. Ones /\ Ones \in Nat
      BY ValueIs, Radices
<1>3. (q + 1) * Ones = q * Ones + Ones /\ q * Ones \in Nat
      BY <1>2
<1> DEFINE v == Value(n)
           m == n + (Ones - v)
           a == q * Ones
           b == (q + 1) * Ones
<1>4. m \in Nat \ {0} /\ m = b /\ Ones - v \in 0 .. Ones
  <2>1. n = a + v /\ b = a + Ones /\ v \in 0 .. Ones /\ a \in Nat
        BY <1>1, <1>2, <1>3
  <2> HIDE DEF v, a, b
  <2> QED BY <1>2, <2>1
<1>5. Value(m) = Ones
  <2>1. m = (q + 1) * Ones /\ q + 1 \in Nat
        BY <1>4
  <2> HIDE DEF m
  <2> QED BY <1>4, <2>1, AllOnes
<1> QED BY <1>4, <1>5

LEMMA FieldIsRight ==
    ASSUME pseudo \in Pseudo, NEW s \in Seq(Byte), Len(s) >= 4, Len(s) <= MaxLen,
           NEW z, z = WithField(s, 0), NEW c \in {transport(z), Ones},
           c = Ones => transport(z) \in {0, Ones}
    PROVE  /\ c \in 0 .. Ones
           /\ Value(Whole(WithField(z, c))) = Ones
<1>1. Ones \in Nat /\ 0 \in 0 .. Ones
      BY Radices
<1>2. /\ z \in Seq(Byte) /\ Len(z) = Len(s) /\ Field(z) = 0
      BY <1>1, WithFieldIs
<1>3. /\ Whole(z) \in Nat \ {0} /\ transport(z) = Ones - Value(Whole(z))
      BY <1>2, WholeIs
<1>4. Value(Whole(z)) \in 0 .. Ones
      BY <1>3, ValueIs
<1>5. c \in 0 .. Ones
      BY <1>1, <1>3, <1>4
<1> DEFINE t == WithField(z, c)
<1>6. /\ t \in Seq(Byte) /\ Len(t) = Len(z) /\ Field(t) = c
      /\ \A j \in (1 .. Len(z)) \ {3, 4} : z[j] = t[j]
      BY <1>2, <1>5, WithFieldIs
<1>7. Whole(t) \in Nat \ {0}
  <2> HIDE DEF t
  <2> QED BY <1>2, <1>6, WholeIs
<1>8. Whole(z) + c = Whole(t) + 0
  <2> HIDE DEF t
  <2> QED BY <1>2, <1>6, WholeChanges
<1>9. Whole(t) = Whole(z) + c
      BY <1>3, <1>5, <1>7, <1>8
<1>10. CASE c = transport(z)
      BY <1>3, <1>9, <1>10, Complement
<1>11. CASE c = Ones /\ transport(z) = 0
  <2>1. Value(Whole(z)) = Ones
        BY <1>1, <1>3, <1>4, <1>11
  <2>2. 1 * Ones = Ones
        BY <1>1
  <2> DEFINE k == 1 * Ones
  <2>3. Value(Whole(z) + k) = Value(Whole(z))
        BY <1>3, ValueOfMore
  <2>4. k = c
        BY <1>11, <2>2
  <2> HIDE DEF k
  <2> QED BY <1>5, <1>9, <2>1, <2>3, <2>4
<1> QED BY <1>5, <1>10, <1>11

Types == /\ ip \in {"v4", "v6", "ext"} /\ proto \in {"tcp", "udp"} /\ pseudo \in Pseudo
         /\ segment \in Seq(Byte) /\ Len(segment) \in 3 .. MaxLen
         /\ phase \in {"building", "sent", "malformed", "decoy", "damaged"}
         /\ phase = "sent" /\ proto = "tcp" => Len(segment) >= 4

\* A segment just made has a field, and a sum of all ones; a UDP field of zero is only
\* made over IPv6.
Accepted ==
    phase = "sent" /\ ip # "ext" =>
        /\ Len(segment) >= 4
        /\ IF ip = "v6" /\ proto = "udp" THEN zero
           ELSE Received = Ones /\ ~(proto = "udp" /\ zero)

\* The inductive invariant: a decoy is made of an accepted segment, so that it is
\* accepted exactly if its field is its own inverse.
DecoyExact ==
    phase = "decoy" /\ ip # "ext" =>
        (valid <=> segment[3] = segment[4] /\ segment[3] \in {0, Radix - 1})
ChecksumInv == Types /\ Accepted /\ DecoyExact

LEMMA InitTypes == SumInit => ChecksumInv
<1> SUFFICES ASSUME SumInit PROVE ChecksumInv
    OBVIOUS
<1>1. segment \in Seq(Byte) /\ Len(segment) = 3
  <2>1. segment \in [1 .. 3 -> Byte]
        BY DEF SumInit
  <2>2. segment \in Seq(Byte)
        BY <2>1, SeqDef
  <2>3. DOMAIN segment = 1 .. 3
        BY <2>1
  <2>4. DOMAIN segment = 1 .. Len(segment) /\ Len(segment) \in Nat
        BY <2>2, LenProperties
  <2> DEFINE l == Len(segment)
  <2>5. 1 .. 3 = 1 .. l /\ l \in Nat
        BY <2>3, <2>4
  <2> HIDE DEF l
  <2>6. l = 3
    <3>1. 3 \in 1 .. l
          BY <2>5
    <3>2. l \in 1 .. 3
          BY <2>5, <3>1
    <3> QED BY <2>5, <3>1, <3>2
  <2> QED BY <2>2, <2>6 DEF l
<1>2. 3 \in 3 .. MaxLen
      BY ChecksumAssumption
<1>3. phase = "building"
      BY DEF SumInit
<1>4. Types
      BY <1>1, <1>2 DEF SumInit, Types
<1> QED BY <1>3, <1>4 DEF ChecksumInv, Accepted, DecoyExact

\* The steps but for recompute and the decoy.
LEMMA OtherSteps ==
    ASSUME Types,
           \/ \E b \in Byte : Append1(b)
           \/ Malformed \/ Damage \/ UNCHANGED sumVars
    PROVE  Types' /\ (phase' \in {"sent", "decoy"} => UNCHANGED sumVars)
<1>1. ASSUME NEW b \in Byte, Append1(b) PROVE Types' /\ phase' = "building"
  <2>1. segment' = Append(segment, b) /\ Len(segment) < MaxLen /\ UNCHANGED headers
        /\ phase' = phase /\ phase = "building"
        BY <1>1 DEF Append1
  <2>2. segment' \in Seq(Byte) /\ Len(segment') = Len(segment) + 1
        BY <2>1 DEF Types
  <2>3. Len(segment') \in 3 .. MaxLen
        BY <2>1, <2>2, ChecksumAssumption DEF Types
  <2> QED BY <2>1, <2>2, <2>3 DEF Types, headers
<1>2. CASE Malformed
      BY <1>2 DEF Malformed, Types, headers
<1>3. CASE Damage
  <2>1. PICK k \in DOMAIN segment, b \in Byte : segment' = [segment EXCEPT ![k] = b]
        BY <1>3 DEF Damage
  <2>2. segment \in Seq(Byte) /\ k \in 1 .. Len(segment) /\ phase' = "damaged"
        /\ UNCHANGED headers
        BY <1>3, <2>1 DEF Types, Damage
  <2>3. segment' \in Seq(Byte) /\ Len(segment') = Len(segment)
        BY <2>1, <2>2, SetByte
  <2> QED BY <2>2, <2>3 DEF Types, headers
<1>4. CASE UNCHANGED sumVars
      BY <1>4 DEF Types, sumVars, headers
<1> QED BY <1>1, <1>2, <1>3, <1>4

LEMMA ZeroField ==
    ASSUME NEW s \in Seq(Byte), Len(s) >= 4
    PROVE  Field(s) = 0 <=> <<s[3], s[4]>> = <<0, 0>>
<1> DEFINE x == s[3]
           y == s[4]
<1>1. x \in Nat /\ y \in Nat
      BY FieldOf, ByteIs
<1> HIDE DEF x, y
<1>2. x * Radix \in Nat /\ (x * Radix = 0 <=> x = 0)
      BY <1>1, Radices
<1> DEFINE a == x * Radix
<1>3. a + y = 0 <=> x = 0 /\ y = 0
  <2> HIDE DEF a
  <2> QED BY <1>1, <1>2 DEF a
<1> QED BY <1>3 DEF x, y, Field

\* What recompute() leaves where there is a checksum to make.
LEMMA FieldMade ==
    ASSUME Types, recompute, ip # "ext"
    PROVE  /\ Len(segment) >= 4 /\ segment' \in Seq(Byte) /\ Len(segment') = Len(segment)
           /\ IF ip = "v6" /\ proto = "udp" THEN Field(segment') = 0
              ELSE /\ Value(Whole(segment')) = Ones
                   /\ ~(proto = "udp" /\ Field(segment') = 0)
<1> DEFINE z == WithField(segment, 0)
           sum == CASE ip = "v4" /\ proto = "tcp" -> tcp_v4(z)
                    [] ip = "v4" /\ proto = "udp" -> udp_v4(z)
                    [] ip = "v6" /\ proto = "tcp" -> tcp_v6(z)
                    [] ip = "v6" /\ proto = "udp" -> udp_v6(z)
<1>1. /\ Len(segment) >= 4 /\ segment \in Seq(Byte) /\ Len(segment) <= MaxLen
      /\ pseudo \in Pseudo
  <2>1. Len(segment) \in 3 .. MaxLen /\ MaxLen \in Nat
        BY ChecksumAssumption DEF Types
  <2> QED BY <2>1 DEF recompute, Types
<1>2. segment' = WithField(z, sum)
      BY Zenon DEF recompute
<1>3. Ones \in Nat /\ 0 \in 0 .. Ones /\ Ones # 0
      BY Radices
<1>4. z \in Seq(Byte) /\ Len(z) = Len(segment)
      BY <1>1, <1>3, WithFieldIs
<1>5. transport(z) \in 0 .. Ones
      BY <1>1, <1>4, WholeIs, Complement
<1>6. CASE ip = "v6" /\ proto = "udp"
  <2>1. sum = 0
        BY <1>6 DEF udp_v6
  <2> HIDE DEF sum, z
  <2>2. segment' \in Seq(Byte) /\ Len(segment') = Len(segment) /\ Field(segment') = 0
        BY <1>1, <1>2, <1>3, <1>4, <2>1, WithFieldIs
  <2> QED BY <1>1, <1>6, <2>2
<1>7. CASE ~(ip = "v6" /\ proto = "udp")
  <2>1. \/ proto = "tcp" /\ sum = transport(z)
        \/ proto = "udp" /\ sum = udp_v4(z)
        BY <1>7 DEF Types, tcp_v4, tcp_v6
  <2>2. /\ sum \in {transport(z), Ones} /\ (sum = Ones => transport(z) \in {0, Ones})
        /\ proto = "udp" => sum # 0
    <3> HIDE DEF sum, z
    <3>1. CASE proto = "tcp"
          BY <2>1, <3>1
    <3>2. CASE proto = "udp"
      <4>1. udp_v4(z) = IF transport(z) = 0 THEN Ones ELSE transport(z)
            BY DEF udp_v4, Ones
      <4> QED BY <1>3, <2>1, <3>2, <4>1
    <3> QED BY <3>1, <3>2 DEF Types
  <2> HIDE DEF sum
  <2>3. sum \in 0 .. Ones /\ Value(Whole(WithField(z, sum))) = Ones
        BY <1>1, <2>2, FieldIsRight
  <2> HIDE DEF z
  <2>4. /\ segment' \in Seq(Byte) /\ Len(segment') = Len(segment) /\ Field(segment') = sum
        BY <1>1, <1>2, <1>4, <2>3, WithFieldIs
  <2> QED BY <1>1, <1>2, <1>7, <2>2, <2>3, <2>4
<1> QED BY <1>6, <1>7

LEMMA RecomputeAccepted ==
    ASSUME Types, recompute
    PROVE  Types' /\ Accepted' /\ phase' = "sent"
<1>1. phase' = "sent" /\ ip' = ip /\ proto' = proto /\ pseudo' = pseudo
      BY DEF recompute, headers
<1>2. CASE ip = "ext"
  <2>1. segment' = segment
        BY <1>2 DEF recompute
  <2>2. proto = "tcp" => Len(segment) >= 4
        BY DEF recompute, Finish
  <2> QED BY <1>1, <1>2, <2>1, <2>2 DEF Types, Accepted
<1>3. CASE ip # "ext"
  <2>1. /\ Len(segment) >= 4 /\ segment' \in Seq(Byte) /\ Len(segment') = Len(segment)
        /\ IF ip = "v6" /\ proto = "udp" THEN Field(segment') = 0
           ELSE /\ Value(Whole(segment')) = Ones
                /\ ~(proto = "udp" /\ Field(segment') = 0)
        BY <1>3, FieldMade
  <2>2. Len(segment') <= MaxLen
        BY <2>1, ChecksumAssumption DEF Types
  <2>3. Received' = Value(Whole(segment'))
    <3>1. Received' = Plus(Plus(Total(pseudo), Number + Len(segment')), Total(segment'))
          BY <1>1, Zenon DEF Received, Number
    <3> DEFINE s == segment'
    <3>2. s \in Seq(Byte) /\ Len(s) <= MaxLen /\ pseudo \in Pseudo
          BY <2>1, <2>2 DEF Types
    <3> HIDE DEF s
    <3>3. Plus(Plus(Total(pseudo), Number + Len(s)), Total(s)) = Value(Whole(s))
          BY <3>2, AddsUp
    <3> QED BY <3>1, <3>3 DEF s
  <2>4. zero' <=> Field(segment') = 0
    <3> DEFINE s == segment'
    <3>1. s \in Seq(Byte) /\ Len(s) >= 4
          BY <2>1
    <3> HIDE DEF s
    <3>2. Field(s) = 0 <=> <<s[3], s[4]>> = <<0, 0>>
          BY <3>1, ZeroField
    <3> QED BY <3>2, Zenon DEF s, zero
  <2>5. Accepted'
        BY <1>1, <2>1, <2>3, <2>4 DEF Accepted
  <2>6. Types'
        BY <1>1, <2>1 DEF Types
  <2> QED BY <1>1, <2>5, <2>6
<1> QED BY <1>2, <1>3

\* An accepted segment is valid; over IPv6 a datagram's zero is not.
LEMMA AcceptedIsValid ==
    ASSUME Accepted, Types
    PROVE  SentIsValid
<1> SUFFICES ASSUME phase = "sent", ip # "ext"
             PROVE  valid <=> ~(ip = "v6" /\ proto = "udp")
    BY DEF SentIsValid
<1>1. IF ip = "v6" /\ proto = "udp" THEN zero ELSE Received = Ones /\ ~(proto = "udp" /\ zero)
      BY DEF Accepted
<1>2. valid <=> IF proto = "udp" /\ zero THEN ip = "v4" ELSE Received = Ones
      BY Zenon DEF valid, Ones
<1> QED BY <1>1, <1>2

-----------------------------------------------------------------------------
(* Decoys are rejected *)

LEMMA OnesIsOdd ==
    ASSUME NEW f \in Nat
    PROVE  2 * f # Ones
<1>1. Radix \in Nat /\ Radix % 2 = 0
      BY ChecksumAssumption
<1> DEFINE h == Radix \div 2
<1>2. h \in Nat /\ Radix = 2 * h
      BY <1>1
<1> HIDE DEF h
<1>3. Ones = 2 * h * (2 * h) - 1
      BY <1>2, Radices DEF Ones
<1>4. 2 * h * (2 * h) = 2 * (2 * (h * h)) /\ h * h \in Nat
      BY <1>2
<1> DEFINE k == h * h
<1> HIDE DEF k
<1>5. Ones = 2 * (2 * k) - 1 /\ k \in Nat
      BY <1>3, <1>4 DEF k
<1> QED BY <1>5

\* n and m are sums of all ones, and m is n with the field f inverted.
LEMMA SameInverse ==
    ASSUME NEW n \in Nat \ {0}, NEW m \in Nat \ {0}, NEW f \in 0 .. Ones,
           Value(n) = Ones, m + f = n + (Ones - f)
    PROVE  Value(m) = Ones <=> f = 0 \/ f = Ones
<1>1. Ones \in Nat /\ Ones > 0 /\ f \in Nat /\ f <= Ones
      BY Radices
<1>2. PICK p \in Nat : n = p * Ones
      BY AllOnes
<1> DEFINE a == p * Ones
           a1 == (p + 1) * Ones
<1>3. a \in Nat /\ a1 = a + Ones /\ m + f = a + (Ones - f)
      BY <1>1, <1>2
<1>4. ASSUME f = 0 PROVE Value(m) = Ones
  <2>1. m = a1
    <3> HIDE DEF a, a1
    <3> QED BY <1>1, <1>3, <1>4
  <2>2. m = (p + 1) * Ones /\ p + 1 \in Nat
        BY <2>1
  <2> QED BY <2>2, AllOnes
<1>5. ASSUME f = Ones PROVE Value(m) = Ones
  <2>1. a # 0 /\ m = a - Ones
    <3> HIDE DEF a
    <3> QED BY <1>1, <1>3, <1>5
  <2>2. p # 0
    <3>1. p = 0 => p * Ones = 0
          BY <1>1
    <3> QED BY <2>1, <3>1
  <2> DEFINE r == p - 1
  <2>3. r \in Nat /\ p = r + 1
        BY <2>2
  <2> HIDE DEF r
  <2>4. (r + 1) * Ones = r * Ones + Ones /\ r * Ones \in Nat
        BY <1>1, <2>3
  <2> DEFINE b == r * Ones
  <2>5. m = b
    <3>1. a = b + Ones /\ b \in Nat
          BY <2>3, <2>4
    <3> HIDE DEF a, b
    <3> QED BY <1>1, <2>1, <3>1
  <2> QED BY <2>3, <2>5, AllOnes
<1>6. ASSUME Value(m) = Ones PROVE f = 0 \/ f = Ones
  <2>1. PICK q \in Nat : m = q * Ones
        BY <1>6, AllOnes
  <2> DEFINE b == q * Ones
             b1 == (q + 1) * Ones
  <2>2. b \in Nat /\ b1 = b + Ones /\ b + f = a + (Ones - f)
        BY <1>1, <1>3, <2>1
  <2>3. CASE q = p + 1
    <3>1. b = a1
          BY <2>3
    <3> HIDE DEF a, a1, b, b1
    <3> QED BY <1>1, <1>3, <2>2, <3>1
  <2>4. CASE q = p
    <3>1. b = a
          BY <2>4
    <3>2. 2 * f = Ones
      <4> HIDE DEF a, b, b1, a1
      <4> QED BY <1>1, <1>3, <2>2, <3>1
    <3> QED BY <1>1, <3>2, OnesIsOdd
  <2>5. CASE p = q + 1
    <3>1. a = b1
          BY <2>5
    <3> HIDE DEF a, a1, b, b1
    <3> QED BY <1>1, <1>3, <2>2, <3>1
  <2>6. CASE p + 1 < q
    <3>1. b >= a1 + Ones
          BY <1>1, <2>6, Multiples
    <3> HIDE DEF a, a1, b, b1
    <3> QED BY <1>1, <1>3, <2>2, <3>1
  <2>7. CASE q + 1 < p
    <3>1. a >= b1 + Ones
          BY <1>1, <2>7, Multiples
    <3> HIDE DEF a, a1, b, b1
    <3> QED BY <1>1, <1>3, <2>2, <3>1
  <2> QED BY <2>3, <2>4, <2>5, <2>6, <2>7
<1> QED BY <1>4, <1>5, <1>6

\* A segment with both bytes of its field inverted, and what that makes of the field.
Inverted(s) == [s EXCEPT ![3] = Radix - 1 - @, ![4] = Radix - 1 - @]

LEMMA InvertedIs ==
    ASSUME NEW s \in Seq(Byte), Len(s) >= 4,
           NEW t, t = Inverted(s)
    PROVE  /\ t \in Seq(Byte) /\ Len(t) = Len(s)
           /\ t[3] = Radix - 1 - s[3] /\ t[4] = Radix - 1 - s[4]
           /\ \A j \in (1 .. Len(s)) \ {3, 4} : s[j] = t[j]
           /\ Field(t) = Ones - Field(s)
<1> DEFINE x == s[3]
           y == s[4]
           a == Radix - 1 - x
           b == Radix - 1 - y
           u == [s EXCEPT ![3] = a]
           v == [u EXCEPT ![4] = b]
<1>1. /\ x \in Nat /\ x <= Radix - 1 /\ y \in Nat /\ y <= Radix - 1 /\ Radix \in Nat
      /\ Radix >= 2 /\ Word = Radix * Radix /\ Word = Ones + 1
      BY FieldOf, ByteIs, Radices
<1>2. a \in Byte /\ b \in Byte
  <2> HIDE DEF x, y
  <2> QED BY <1>1 DEF Byte
<1>3. Len(s) \in Nat /\ 3 \in 1 .. Len(s) /\ 4 \in 1 .. Len(s)
      BY WeightsAre
<1>4. /\ u \in Seq(Byte) /\ Len(u) = Len(s) /\ u[3] = a
      /\ \A j \in (1 .. Len(s)) \ {3} : u[j] = s[j]
  <2> HIDE DEF a
  <2> QED BY <1>2, <1>3, SetByte
<1>5. /\ v \in Seq(Byte) /\ Len(v) = Len(u) /\ v[4] = b
      /\ \A j \in (1 .. Len(u)) \ {4} : v[j] = u[j]
  <2> HIDE DEF b, u
  <2> QED BY <1>2, <1>3, <1>4, SetByte
<1>6. t = v
  <2>1. u[4] = s[4]
        BY <1>3, <1>4
  <2> QED BY <2>1 DEF Inverted
<1> HIDE DEF u, v
<1>7. t[3] = a /\ t[4] = b /\ \A j \in (1 .. Len(s)) \ {3, 4} : s[j] = t[j]
      BY <1>3, <1>4, <1>5, <1>6
<1>8. a * Radix + b = Ones - (x * Radix + y)
  <2> HIDE DEF x, y
  <2>1. (Radix - 1 - x) * Radix = Radix * Radix - Radix - x * Radix
        BY <1>1
  <2>2. x * Radix \in Nat /\ Radix * Radix \in Nat
        BY <1>1
  <2> DEFINE c == x * Radix
             d == Radix * Radix
             e == a * Radix
  <2>3. e = d - Radix - c /\ d = Ones + 1 /\ c \in Nat /\ d \in Nat
        BY <1>1, <2>1, <2>2
  <2>4. Radix \in Nat /\ x \in Nat /\ y \in Nat /\ Ones \in Nat
        BY <1>1, Radices
  <2>5. e + b = Ones - (c + y)
    <3> HIDE DEF c, d, e, a
    <3> QED BY <2>3, <2>4
  <2> QED BY <2>5
<1>9. Field(t) = Ones - Field(s)
      BY <1>7, <1>8 DEF Field
<1> QED BY <1>4, <1>5, <1>6, <1>7, <1>9

\* One's complement has two zeros, and only they are their own inverse.
LEMMA DecoyOf ==
    ASSUME pseudo \in Pseudo, NEW s \in Seq(Byte), Len(s) >= 4, Len(s) <= MaxLen,
           NEW t, t = Inverted(s),
           Value(Whole(s)) = Ones
    PROVE  /\ t \in Seq(Byte) /\ Len(t) = Len(s)
           /\ Value(Whole(t)) = Ones <=> t[3] = t[4] /\ t[3] \in {0, Radix - 1}
<1>1. /\ t \in Seq(Byte) /\ Len(t) = Len(s)
      /\ t[3] = Radix - 1 - s[3] /\ t[4] = Radix - 1 - s[4]
      /\ \A j \in (1 .. Len(s)) \ {3, 4} : s[j] = t[j]
      /\ Field(t) = Ones - Field(s)
      BY InvertedIs
<1> DEFINE n == Whole(s)
           m == Whole(t)
           f == Field(s)
           g == Field(t)
<1>2. n \in Nat \ {0} /\ m \in Nat \ {0}
      BY <1>1, WholeIs
<1>3. f \in 0 .. Ones /\ g \in 0 .. Ones /\ g = Ones - f /\ Ones \in Nat
      BY <1>1, FieldOf, Radices
<1>4. n + g = m + f
      BY <1>1, WholeChanges
<1>5. Value(m) = Ones <=> f = 0 \/ f = Ones
  <2>1. Value(n) = Ones
        OBVIOUS
  <2> HIDE DEF n, m, f, g
  <2>2. m + f = n + (Ones - f)
        BY <1>2, <1>3, <1>4
  <2> QED BY <1>2, <1>3, <2>1, <2>2, SameInverse
<1>6. /\ f = 0 <=> <<s[3], s[4]>> = <<0, 0>>
      /\ g = 0 <=> <<t[3], t[4]>> = <<0, 0>>
      BY <1>1, ZeroField
<1>7. s[3] \in Nat /\ s[4] \in Nat /\ t[3] \in Nat /\ t[4] \in Nat
      BY <1>1, FieldOf, ByteIs
<1> HIDE DEF n, m, f, g
<1>8. f = Ones <=> g = 0
      BY <1>3
<1>9. f = 0 \/ f = Ones <=> t[3] = t[4] /\ t[3] \in {0, Radix - 1}
  <2> DEFINE x == s[3]
             y == s[4]
             v == t[3]
             w == t[4]
  <2>1. /\ x \in Nat /\ y \in Nat /\ v \in Nat /\ w \in Nat /\ Radix \in Nat
        /\ v = Radix - 1 - x /\ w = Radix - 1 - y
        /\ f = 0 <=> x = 0 /\ y = 0
        /\ g = 0 <=> v = 0 /\ w = 0
        BY <1>1, <1>6, <1>7, Radices
  <2> HIDE DEF x, y, v, w
  <2>2. f = 0 \/ f = Ones <=> v = w /\ v \in {0, Radix - 1}
        BY <1>8, <2>1
  <2> QED BY <2>2 DEF v, w
<1> QED BY <1>1, <1>5, <1>9 DEF m

LEMMA DecoyStep ==
    ASSUME Types, Accepted, WrongChecksum
    PROVE  Types' /\ Accepted' /\ DecoyExact'
<1>1. /\ phase = "sent" /\ proto = "tcp" /\ phase' = "decoy"
      /\ ip' = ip /\ proto' = proto /\ pseudo' = pseudo
      /\ segment' = Inverted(segment)
      BY DEF WrongChecksum, headers, Inverted
<1>2. /\ segment \in Seq(Byte) /\ Len(segment) >= 4 /\ Len(segment) <= MaxLen
      /\ Len(segment) \in 3 .. MaxLen /\ pseudo \in Pseudo
      BY <1>1, ChecksumAssumption DEF Types
<1> DEFINE t == segment'
<1>3. t \in Seq(Byte) /\ Len(t) = Len(segment)
  <2>1. t = Inverted(segment)
        BY <1>1
  <2> HIDE DEF t
  <2> QED BY <1>2, <2>1, InvertedIs
<1>4. Types' /\ Accepted'
      BY <1>1, <1>2, <1>3 DEF Types, Accepted
<1>5. ASSUME ip # "ext" PROVE valid' <=> t[3] = t[4] /\ t[3] \in {0, Radix - 1}
  <2>1. Received = Ones
        BY <1>1, <1>5 DEF Accepted
  <2>2. Received = Value(Whole(segment))
    <3>1. Received = Plus(Plus(Total(pseudo), Number + Len(segment)), Total(segment))
          BY Zenon DEF Received, Number
    <3> QED BY <1>2, <3>1, AddsUp
  <2>3. Received' = Value(Whole(t))
    <3>1. Received' = Plus(Plus(Total(pseudo), Number + Len(t)), Total(t))
          BY <1>1, Zenon DEF Received, Number
    <3>2. Len(t) <= MaxLen
          BY <1>2, <1>3
    <3> HIDE DEF t
    <3>3. Plus(Plus(Total(pseudo), Number + Len(t)), Total(t)) = Value(Whole(t))
          BY <1>2, <1>3, <3>2, AddsUp
    <3> QED BY <3>1, <3>3
  <2>4. Value(Whole(t)) = Ones <=> t[3] = t[4] /\ t[3] \in {0, Radix - 1}
    <3>1. /\ Value(Whole(segment)) = Ones
          /\ t = Inverted(segment)
          BY <1>1, <2>1, <2>2
    <3> HIDE DEF t
    <3> QED BY <1>2, <3>1, DecoyOf
  <2>5. valid' <=> IF proto' = "udp" /\ zero' THEN ip' = "v4" ELSE Received' = Ones
        BY Zenon DEF valid, Ones
  <2> QED BY <1>1, <2>3, <2>4, <2>5
<1> QED BY <1>1, <1>4, <1>5 DEF DecoyExact

-----------------------------------------------------------------------------
(* The invariant *)

LEMMA NextInv == ChecksumInv /\ [SumNext]_sumVars => ChecksumInv'
<1> SUFFICES ASSUME ChecksumInv, [SumNext]_sumVars
             PROVE  ChecksumInv'
    OBVIOUS
<1>1. Types /\ Accepted /\ DecoyExact
      BY DEF ChecksumInv
<1>2. CASE recompute
  <2>1. Types' /\ Accepted' /\ phase' = "sent"
        BY <1>1, <1>2, RecomputeAccepted
  <2>2. DecoyExact'
        BY <2>1 DEF DecoyExact
  <2> QED BY <2>1, <2>2 DEF ChecksumInv
<1>3. CASE WrongChecksum
      BY <1>1, <1>3, DecoyStep DEF ChecksumInv
<1>4. CASE \/ \E b \in Byte : Append1(b)
           \/ Malformed \/ Damage \/ UNCHANGED sumVars
  <2>1. Types' /\ (phase' \in {"sent", "decoy"} => UNCHANGED sumVars)
        BY <1>1, <1>4, OtherSteps
  <2>2. CASE phase' \notin {"sent", "decoy"}
        BY <2>1, <2>2 DEF ChecksumInv, Accepted, DecoyExact
  <2>3. CASE UNCHANGED sumVars
    <3>1. ip' = ip /\ proto' = proto /\ pseudo' = pseudo /\ segment' = segment /\ phase' = phase
          BY <2>3 DEF sumVars, headers
    <3>2. Received' = Received /\ (zero' <=> zero) /\ (valid' <=> valid)
          BY <3>1, Zenon DEF Received, zero, valid
    <3>3. Accepted' /\ DecoyExact'
          BY <1>1, <3>1, <3>2 DEF Accepted, DecoyExact
    <3> QED BY <2>1, <3>3 DEF ChecksumInv
  <2> QED BY <2>1, <2>2, <2>3
<1> QED BY <1>2, <1>3, <1>4 DEF SumNext

LEMMA Invariant == SumSpec => []ChecksumInv
<1> QED BY InitTypes, NextInv, PTL DEF SumSpec

\* For every radix, every pseudo header and every segment: the receiver's word-by-word
\* sum accepts what recompute() sends, but for UDP over IPv6.
THEOREM SentIsAccepted == SumSpec => []SentIsValid
<1>1. ChecksumInv => SentIsValid
      BY AcceptedIsValid DEF ChecksumInv
<1> QED BY <1>1, Invariant, PTL

\* The decoy of wrong-chksum is rejected wherever the field it inverted was none of the
\* two zeros of one's complement.
THEOREM DecoysAreRejected == SumSpec => []DecoyIsRejected
<1>1. ChecksumInv => DecoyIsRejected
      BY DEF ChecksumInv, DecoyExact, DecoyIsRejected
<1> QED BY <1>1, Invariant, PTL

-----------------------------------------------------------------------------
(* Damage is noticed *)

\* A byte weighs less than Ones, so another one changes what the whole leaves.
LEMMA DamagedSum ==
    ASSUME pseudo \in Pseudo, NEW s \in Seq(Byte), NEW t \in Seq(Byte),
           Len(s) = Len(t), Len(s) <= MaxLen, NEW k \in 1 .. Len(s), s[k] # t[k],
           \A j \in (1 .. Len(s)) \ {k} : s[j] = t[j],
           Value(Whole(s)) = Ones
    PROVE  Value(Whole(t)) # Ones
<1> SUFFICES ASSUME Value(Whole(t)) = Ones PROVE FALSE
    OBVIOUS
<1>1. Whole(s) \in Nat \ {0} /\ Whole(t) \in Nat \ {0}
      BY WholeIs
<1>2. /\ \E p \in Nat : Whole(s) = p * Ones
      /\ \E q \in Nat : Whole(t) = q * Ones
      BY <1>1, AllOnes
<1>3. PICK p \in Nat : Whole(s) = p * Ones
      BY <1>2
<1>4. PICK q \in Nat : Whole(t) = q * Ones
      BY <1>2
<1>5. s[k] \in Byte /\ t[k] \in Byte /\ k \in Nat
      BY WeightsAre
<1> DEFINE odd == k % 2 = 1
           x == IF odd THEN s[k] * Radix ELSE s[k]
           y == IF odd THEN t[k] * Radix ELSE t[k]
<1>6. x \in 0 .. Ones - 1 /\ y \in 0 .. Ones - 1
  <2>1. /\ s[k] \in Nat /\ s[k] <= Radix - 1 /\ s[k] * Radix \in Nat
        /\ s[k] * Radix <= Word - Radix
        BY <1>5, ByteIs
  <2>2. /\ t[k] \in Nat /\ t[k] <= Radix - 1 /\ t[k] * Radix \in Nat
        /\ t[k] * Radix <= Word - Radix
        BY <1>5, ByteIs
  <2> DEFINE a == s[k]
             b == t[k]
             c == s[k] * Radix
             d == t[k] * Radix
  <2>3. /\ a \in Nat /\ a <= Radix - 1 /\ c \in Nat /\ c <= Word - Radix
        /\ b \in Nat /\ b <= Radix - 1 /\ d \in Nat /\ d <= Word - Radix
        BY <2>1, <2>2
  <2>4. Radix \in Nat /\ Radix >= 2 /\ Ones \in Nat /\ Word = Ones + 1 /\ Ones > Radix
        BY Radices
  <2> HIDE DEF a, b, c, d, odd
  <2>5. /\ a \in 0 .. Ones - 1 /\ b \in 0 .. Ones - 1
        /\ c \in 0 .. Ones - 1 /\ d \in 0 .. Ones - 1
        BY <2>3, <2>4
  <2>6. (x = c \/ x = a) /\ (y = d \/ y = b)
        BY Zenon DEF a, b, c, d
  <2> HIDE DEF x, y
  <2> QED BY <2>5, <2>6
<1>7. Sum(s) \in Nat /\ Sum(t) \in Nat /\ Sum(s) + y = Sum(t) + x
  <2>1. /\ Sum(s) \in Nat /\ Sum(t) \in Nat
        /\ k % 2 = 1 => Sum(s) + t[k] * Radix = Sum(t) + s[k] * Radix
        /\ k % 2 = 0 => Sum(s) + t[k] = Sum(t) + s[k]
        BY ByteChanges
  <2>2. CASE odd
        BY <2>1, <2>2
  <2>3. CASE ~odd
    <3>1. k % 2 = 0
          BY <1>5, <2>3
    <3>2. x = s[k] /\ y = t[k]
          BY <2>3
    <3> HIDE DEF x, y, odd
    <3> QED BY <2>1, <3>1, <3>2
  <2> QED BY <2>2, <2>3
<1>8. x # y
  <2>1. CASE odd
    <3>1. SUFFICES ASSUME s[k] * Radix = t[k] * Radix PROVE FALSE
          BY <2>1
    <3>2. s[k] \in Nat /\ t[k] \in Nat
          BY <1>5, ByteIs
    <3>3. Radix \in Nat /\ 0 \in 0 .. Radix - 1
      <4> HIDE DEF x, y, odd
      <4> QED BY Radices
    <3>4. s[k] * Radix + 0 = t[k] * Radix + 0
          BY <3>1, <3>2, <3>3
    <3>5. s[k] = t[k]
      <4> HIDE DEF x, y, odd
      <4> QED BY <3>2, <3>3, <3>4, DivisionIsUnique
    <3> QED BY <3>5
  <2>2. CASE ~odd
        BY <2>2
  <2> QED BY <2>1, <2>2
<1>9. q * Ones + x = p * Ones + y
  <2> DEFINE l == Sum(pseudo)
             c == Number + Len(s)
             a == Sum(s)
             b == Sum(t)
             m == p * Ones
             n == q * Ones
  <2>1. l \in Nat /\ c \in 1 .. Ones /\ a \in Nat /\ b \in Nat /\ a + y = b + x
        BY <1>7, WholeIs
  <2>2. l + c + a = m /\ l + c + b = n
        BY <1>3, <1>4 DEF Whole
  <2>3. Ones \in Nat
        BY Radices
  <2> HIDE DEF l, c, a, b, m, n, x, y
  <2>4. n + x = m + y
        BY <1>6, <2>1, <2>2, <2>3
  <2> QED BY <2>4 DEF m, n
<1> HIDE DEF x, y
<1> QED BY <1>6, <1>8, <1>9, DivisionIsUnique, Radices

LEMMA DamageStep ==
    ASSUME Types, Accepted, Damage, ip # "ext", valid
    PROVE  ~valid' \/ (proto = "udp" /\ zero' /\ ~zero)
<1>1. /\ phase = "sent" /\ ip' = ip /\ proto' = proto /\ pseudo' = pseudo
      /\ \E k \in DOMAIN segment, b \in Byte :
           segment[k] # b /\ segment' = [segment EXCEPT ![k] = b]
      BY DEF Damage, headers
<1>2. PICK k \in DOMAIN segment, b \in Byte :
           segment[k] # b /\ segment' = [segment EXCEPT ![k] = b]
      BY <1>1
<1>3. /\ segment \in Seq(Byte) /\ Len(segment) <= MaxLen /\ pseudo \in Pseudo
      /\ k \in 1 .. Len(segment)
      BY ChecksumAssumption DEF Types
<1> DEFINE t == segment'
<1>4. /\ t \in Seq(Byte) /\ Len(t) = Len(segment) /\ t[k] = b
      /\ \A j \in (1 .. Len(segment)) \ {k} : segment[j] = t[j]
      BY <1>2, <1>3, SetByte
<1>5. Received = Ones /\ ~(proto = "udp" /\ zero)
  <2>1. ~(ip = "v6" /\ proto = "udp")
        BY <1>1, AcceptedIsValid DEF SentIsValid
  <2> QED BY <1>1, <2>1 DEF Accepted
<1>6. Received = Value(Whole(segment))
  <2>1. Received = Plus(Plus(Total(pseudo), Number + Len(segment)), Total(segment))
        BY Zenon DEF Received, Number
  <2> QED BY <1>3, <2>1, AddsUp
<1>7. Received' = Value(Whole(t))
  <2>1. Received' = Plus(Plus(Total(pseudo), Number + Len(t)), Total(t))
        BY <1>1, Zenon DEF Received, Number
  <2>2. Len(t) <= MaxLen
        BY <1>3, <1>4
  <2> HIDE DEF t
  <2>3. Plus(Plus(Total(pseudo), Number + Len(t)), Total(t)) = Value(Whole(t))
        BY <1>3, <1>4, <2>2, AddsUp
  <2> QED BY <2>1, <2>3
<1>8. Received' # Ones
  <2>1. segment[k] # t[k] /\ Len(segment) = Len(t) /\ Value(Whole(segment)) = Ones
        BY <1>2, <1>4, <1>5, <1>6
  <2> HIDE DEF t
  <2>2. Value(Whole(t)) # Ones
        BY <1>3, <1>4, <2>1, DamagedSum
  <2> QED BY <1>7, <2>2
<1>9. valid' <=> IF proto' = "udp" /\ zero' THEN ip' = "v4" ELSE Received' = Ones
      BY Zenon DEF valid, Ones
<1> QED BY <1>1, <1>5, <1>8, <1>9

\* One damaged byte, wherever it is, is noticed, unless it makes a UDP field zero.
THEOREM DamageShows == SumSpec => DamageIsNoticed
<1> DEFINE A == phase' = "damaged" /\ ip # "ext" /\ valid =>
                    ~valid' \/ (proto = "udp" /\ zero' /\ ~zero)
<1>1. ChecksumInv /\ [SumNext]_sumVars => [A]_sumVars
  <2> SUFFICES ASSUME ChecksumInv, SumNext, phase' = "damaged", ip # "ext", valid
               PROVE  ~valid' \/ (proto = "udp" /\ zero' /\ ~zero)
      OBVIOUS
  <2>1. CASE Damage
        BY <2>1, DamageStep DEF ChecksumInv
  <2>2. CASE \E b \in Byte : Append1(b)
        BY <2>2 DEF Append1
  <2>3. CASE recompute
        BY <2>3 DEF recompute
  <2>4. CASE Malformed
        BY <2>4 DEF Malformed
  <2>5. CASE WrongChecksum
        BY <2>5 DEF WrongChecksum
  <2> QED BY <2>1, <2>2, <2>3, <2>4, <2>5 DEF SumNext
<1> QED BY <1>1, Invariant, PTL DEF SumSpec, DamageIsNoticed

=============================================================================
