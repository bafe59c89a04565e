-------------------------- MODULE Inspection_proofs --------------------------
(***************************************************************************)
(* What holds of Inspection for every list of domains, every packet and    *)
(* every hello and request in one, of any size.                            *)
(***************************************************************************)
EXTENDS Inspection, WellFoundedInduction, TLAPS

-----------------------------------------------------------------------------
(* Recursive functions on the natural numbers exist *)

LEMMA LeastNatural ==
    ASSUME NEW I \in SUBSET Nat, I # {}
    PROVE  \E m \in I : \A k \in I : m <= k
<1> DEFINE R == {r \in Nat \X Nat : r[1] < r[2]}
<1>1. IsWellFoundedOn(R, Nat)
      BY NatLessThanWellFounded DEF OpToRel
<1>2. PICK m \in I : \A k \in I : ~(<<k, m>> \in R)
      BY <1>1, WFMin
<1>3. \A k \in I : ~(k < m)
      BY <1>2
<1> QED BY <1>3

\* A set of numbers that has 0 and the successor of each of its members is Nat.
LEMMA AllNaturals ==
    ASSUME NEW I \in SUBSET Nat, 0 \in I, \A n \in I : n + 1 \in I
    PROVE  I = Nat
<1> SUFFICES ASSUME Nat \ I # {} PROVE FALSE
    OBVIOUS
<1>1. PICK m \in Nat \ I : \A k \in Nat \ I : m <= k
      BY LeastNatural
<1>2. m - 1 \in Nat /\ m - 1 \in I /\ m = (m - 1) + 1
      BY <1>1
<1> QED BY <1>1, <1>2

\* s are the first values of the recursion that starts with c and goes on by G.
Begins(s, n, S, c, G) == /\ s \in [0 .. n -> S] /\ s[0] = c
                         /\ \A k \in 0 .. n - 1 : s[k + 1] = G[<<k, s[k]>>]

LEMMA BeginsLonger ==
    ASSUME NEW S, NEW c \in S, NEW G \in [Nat \X S -> S], NEW m \in Nat,
           NEW s, Begins(s, m, S, c, G)
    PROVE  \E t : Begins(t, m + 1, S, c, G)
<1> DEFINE z == [k \in 0 .. m + 1 |-> IF k = m + 1 THEN G[<<m, s[m]>>] ELSE s[k]]
<1>1. s \in [0 .. m -> S] /\ s[m] \in S /\ G[<<m, s[m]>>] \in S
      BY DEF Begins
<1>2. z \in [0 .. m + 1 -> S]
  <2>1. ASSUME NEW k \in 0 .. m + 1
        PROVE  (IF k = m + 1 THEN G[<<m, s[m]>>] ELSE s[k]) \in S
    <3>1. k # m + 1 => k \in 0 .. m
          OBVIOUS
    <3> QED BY <1>1, <3>1
  <2> QED BY <2>1
<1>3. z[0] = c
      BY <1>1 DEF Begins
<1>4. ASSUME NEW k \in 0 .. (m + 1) - 1 PROVE z[k + 1] = G[<<k, z[k]>>]
  <2>1. k \in 0 .. m /\ k \in 0 .. m + 1 /\ k + 1 \in 0 .. m + 1 /\ k # m + 1
        OBVIOUS
  <2>2. z[k] = s[k]
        BY <2>1
  <2>3. CASE k = m
        BY <2>1, <2>2, <2>3
  <2>4. CASE k # m
    <3>1. k \in 0 .. m - 1 /\ k + 1 # m + 1
          BY <2>1, <2>4
    <3> QED BY <2>1, <2>2, <3>1 DEF Begins
  <2> QED BY <2>3, <2>4
<1> HIDE DEF z
<1> QED BY <1>2, <1>3, <1>4 DEF Begins

LEMMA BeginsUnique ==
    ASSUME NEW S, NEW c, NEW G, NEW m \in Nat, NEW n \in Nat, NEW s, NEW t,
           Begins(s, m, S, c, G), Begins(t, n, S, c, G),
           NEW k \in Nat, k <= m, k <= n
    PROVE  s[k] = t[k]
<1> DEFINE I == {j \in Nat : j <= m /\ j <= n => s[j] = t[j]}
<1>1. 0 \in I
      BY DEF Begins
<1>2. ASSUME NEW j \in I PROVE j + 1 \in I
  <2>1. SUFFICES ASSUME j + 1 <= m, j + 1 <= n PROVE s[j + 1] = t[j + 1]
        OBVIOUS
  <2>2. j \in 0 .. m - 1 /\ j \in 0 .. n - 1 /\ s[j] = t[j]
        BY <2>1
  <2> QED BY <2>2 DEF Begins
<1>3. I \in SUBSET Nat
      OBVIOUS
<1> HIDE DEF I
<1>4. I = Nat
      BY <1>1, <1>2, <1>3, AllNaturals
<1> QED BY <1>4 DEF I

\* f is the function on Nat that starts with c and goes on by G.
Recursion(f, S, c, G) == /\ f \in [Nat -> S] /\ f[0] = c
                         /\ \A n \in Nat : f[n + 1] = G[<<n, f[n]>>]

LEMMA RecursionExists ==
    ASSUME NEW S, NEW c \in S, NEW G \in [Nat \X S -> S]
    PROVE  \E f : Recursion(f, S, c, G)
<1> DEFINE I == {m \in Nat : \E s : Begins(s, m, S, c, G)}
           P(n) == CHOOSE s : Begins(s, n, S, c, G)
           f == [n \in Nat |-> P(n)[n]]
<1>1. 0 \in I
  <2>1. Begins([k \in 0 .. 0 |-> c], 0, S, c, G)
        BY DEF Begins
  <2> QED BY <2>1
<1>2. \A m \in I : m + 1 \in I
      BY BeginsLonger
<1>3. I \in SUBSET Nat
      OBVIOUS
<1>4. I = Nat
  <2> HIDE DEF I
  <2> QED BY <1>1, <1>2, <1>3, AllNaturals
<1>5. ASSUME NEW n \in Nat PROVE Begins(P(n), n, S, c, G)
  <2>1. n \in I
        BY <1>4
  <2>2. \E s : Begins(s, n, S, c, G)
        BY <2>1
  <2> QED BY <2>2
<1> HIDE DEF P, I
<1>6. f \in [Nat -> S]
  <2>1. ASSUME NEW n \in Nat PROVE P(n)[n] \in S
        BY <1>5 DEF Begins
  <2> QED BY <2>1
<1>7. f[0] = c
      BY <1>5 DEF Begins
<1>8. ASSUME NEW n \in Nat PROVE f[n + 1] = G[<<n, f[n]>>]
  <2>1. P(n + 1)[n] = P(n)[n]
        BY <1>5, BeginsUnique
  <2>2. n \in 0 .. (n + 1) - 1
        OBVIOUS
  <2>3. P(n + 1)[n + 1] = G[<<n, P(n + 1)[n]>>]
        BY <1>5, <2>2 DEF Begins
  <2> QED BY <2>1, <2>3
<1> HIDE DEF f
<1> QED BY <1>6, <1>7, <1>8 DEF Recursion

\* What a reader of SumUpTo expects.
LEMMA SumUpToIs ==
    ASSUME NEW g \in [Nat -> Nat]
    PROVE  /\ SumUpTo(g, 0) = 0
           /\ \A n \in Nat : /\ SumUpTo(g, n) \in Nat
                             /\ SumUpTo(g, n + 1) = SumUpTo(g, n) + g[n + 1]
<1> DEFINE G == [p \in Nat \X Nat |-> p[2] + g[p[1] + 1]]
           IsSum(h) == h = [n \in Nat |-> IF n = 0 THEN 0 ELSE h[n - 1] + g[n]]
           H == CHOOSE h : IsSum(h)
<1>1. G \in [Nat \X Nat -> Nat]
  <2>1. ASSUME NEW p \in Nat \X Nat PROVE p[2] + g[p[1] + 1] \in Nat
    <3>1. p[2] \in Nat /\ p[1] + 1 \in Nat
          OBVIOUS
    <3>2. g[p[1] + 1] \in Nat
          BY <3>1
    <3> DEFINE a == p[2]
               b == g[p[1] + 1]
    <3> HIDE DEF a, b
    <3>3. a \in Nat /\ b \in Nat => a + b \in Nat
          OBVIOUS
    <3> QED BY <3>1, <3>2, <3>3 DEF a, b
  <2> QED BY <2>1
<1>2. \A n, a \in Nat : G[<<n, a>>] = a + g[n + 1]
      OBVIOUS
<1> HIDE DEF G
<1>3. PICK f : Recursion(f, Nat, 0, G)
      BY <1>1, RecursionExists
<1>4. ASSUME NEW n \in Nat PROVE f[n] = IF n = 0 THEN 0 ELSE f[n - 1] + g[n]
  <2>1. CASE n # 0
    <3>1. n - 1 \in Nat /\ (n - 1) + 1 = n /\ f[n - 1] \in Nat
          BY <1>3, <2>1 DEF Recursion
    <3>2. f[(n - 1) + 1] = G[<<n - 1, f[n - 1]>>]
          BY <1>3, <3>1 DEF Recursion
    <3> QED BY <1>2, <2>1, <3>1, <3>2
  <2> QED BY <1>3, <2>1 DEF Recursion
<1>5. IsSum(f)
      BY <1>3, <1>4 DEF Recursion
<1>6. IsSum(H)
      BY <1>5
<1>7. \A n : SumUpTo(g, n) = H[n]
      BY DEF SumUpTo
<1> HIDE DEF H
<1>8. H[0] = 0 /\ \A n \in Nat : H[n + 1] = H[n] + g[n + 1]
      BY <1>6
<1> DEFINE I == {n \in Nat : H[n] \in Nat}
<1>9. 0 \in I /\ \A n \in I : n + 1 \in I
      BY <1>8
<1>10. I \in SUBSET Nat
      OBVIOUS
<1> HIDE DEF I
<1>11. I = Nat
      BY <1>9, <1>10, AllNaturals
<1>12. \A n \in Nat : H[n] \in Nat
      BY <1>11 DEF I
<1> QED BY <1>7, <1>8, <1>12

\* A sum of more numbers is not smaller.
LEMMA SumGrows ==
    ASSUME NEW g \in [Nat -> Nat], NEW m \in Nat, NEW n \in Nat, m <= n
    PROVE  SumUpTo(g, m) <= SumUpTo(g, n)
<1> DEFINE I == {j \in Nat : SumUpTo(g, m) <= SumUpTo(g, m + j)}
<1>1. 0 \in I
      BY SumUpToIs
<1>2. ASSUME NEW j \in I PROVE j + 1 \in I
  <2>1. j \in Nat /\ SumUpTo(g, m) <= SumUpTo(g, m + j)
        OBVIOUS
  <2>2. m + j \in Nat /\ m + (j + 1) = (m + j) + 1 /\ g[(m + j) + 1] \in Nat
        BY <2>1
  <2>3. SumUpTo(g, m + (j + 1)) = SumUpTo(g, m + j) + g[(m + j) + 1]
        BY <2>2, SumUpToIs
  <2>4. SumUpTo(g, m) <= SumUpTo(g, m + (j + 1))
        BY <2>1, <2>2, <2>3, SumUpToIs
  <2> QED BY <2>1, <2>4
<1>3. I \in SUBSET Nat
      OBVIOUS
<1> HIDE DEF I
<1>4. I = Nat
      BY <1>1, <1>2, <1>3, AllNaturals
<1>5. n - m \in Nat /\ m + (n - m) = n
      OBVIOUS
<1>6. n - m \in I
      BY <1>4, <1>5
<1> QED BY <1>5, <1>6 DEF I

\* Two sums that agree number by number agree.
LEMMA SameSum ==
    ASSUME NEW g \in [Nat -> Nat], NEW h \in [Nat -> Nat], NEW n \in Nat,
           \A k \in 1 .. n : g[k] = h[k]
    PROVE  SumUpTo(g, n) = SumUpTo(h, n)
<1> DEFINE I == {j \in Nat : j <= n => SumUpTo(g, j) = SumUpTo(h, j)}
<1>1. 0 \in I
      BY SumUpToIs
<1>2. ASSUME NEW j \in I PROVE j + 1 \in I
  <2> SUFFICES ASSUME j + 1 <= n PROVE SumUpTo(g, j + 1) = SumUpTo(h, j + 1)
      OBVIOUS
  <2>1. j \in Nat /\ SumUpTo(g, j) = SumUpTo(h, j) /\ j + 1 \in 1 .. n
        OBVIOUS
  <2>2. g[j + 1] = h[j + 1]
        BY <2>1
  <2>3. SumUpTo(g, j + 1) = SumUpTo(g, j) + g[j + 1]
        BY <2>1, SumUpToIs
  <2>4. SumUpTo(h, j + 1) = SumUpTo(h, j) + h[j + 1]
        BY <2>1, SumUpToIs
  <2> QED BY <2>1, <2>2, <2>3, <2>4
<1>3. I \in SUBSET Nat
      OBVIOUS
<1> HIDE DEF I
<1>4. I = Nat
      BY <1>1, <1>2, <1>3, AllNaturals
<1> QED BY <1>4 DEF I

-----------------------------------------------------------------------------
(* The walk over the extensions of a hello *)

\* The least of a set of numbers.
LEMMA MinIs ==
    ASSUME NEW I \in SUBSET Nat, I # {}
    PROVE  Min(I) \in I /\ \A k \in I : Min(I) <= k
BY LeastNatural DEF Min

AnyHello == Hello(Seq(Char))

LEMMA HelloTypes ==
    ASSUME NEW h \in AnyHello
    PROVE  /\ h.size \in Nat /\ h.rec_len \in Nat /\ h.hs_len \in Nat /\ h.sid \in Nat
           /\ h.cs \in Nat /\ h.cm \in Nat /\ h.ext_total \in Nat
           /\ h.exts \in Seq(Extension(Seq(Char)))
           /\ h.handshake \in BOOLEAN /\ h.client_hello \in BOOLEAN
           /\ after_methods(h) \in Nat /\ ext_begin(h) \in Nat /\ ext_end(h) \in Nat
           /\ hs_end(h) \in Nat /\ ext_begin(h) = after_methods(h) + 2
           /\ ext_end(h) = ext_begin(h) + h.ext_total /\ hs_end(h) = 9 + h.hs_len
<1>1. /\ h.size \in Nat /\ h.rec_len \in Nat /\ h.hs_len \in Nat /\ h.sid \in Nat
      /\ h.cs \in Nat /\ h.cm \in Nat /\ h.ext_total \in Nat
      /\ h.exts \in Seq(Extension(Seq(Char)))
      /\ h.handshake \in BOOLEAN /\ h.client_hello \in BOOLEAN
      BY DEF AnyHello, Hello
<1>2. /\ ext_begin(h) = after_methods(h) + 2 /\ ext_end(h) = ext_begin(h) + h.ext_total
      /\ hs_end(h) = 9 + h.hs_len
      BY DEF ext_begin, ext_end, hs_end
<1>3. after_methods(h) \in Nat
  <2> DEFINE a == h.sid
             b == h.cs
             c == h.cm
  <2>1. a \in Nat /\ b \in Nat /\ c \in Nat
        BY <1>1
  <2>2. after_methods(h) = 9 + 34 + 1 + a + 2 + b + 1 + c
        BY DEF after_methods
  <2> HIDE DEF a, b, c
  <2> QED BY <2>1, <2>2
<1>4. ext_begin(h) \in Nat /\ hs_end(h) \in Nat
      BY <1>1, <1>2, <1>3, SMTT(60)
<1>5. ext_end(h) \in Nat
      BY <1>1, <1>2, <1>4
<1> QED BY <1>1, <1>2, <1>3, <1>4, <1>5

LEMMA ExtensionTypes ==
    ASSUME NEW h \in AnyHello, NEW k
    PROVE  /\ extension(h, k).len \in Nat /\ extension(h, k).list \in Nat
           /\ extension(h, k).sni \in BOOLEAN /\ extension(h, k).dns \in BOOLEAN
           /\ extension(h, k).host \in Seq(Char) /\ Len(extension(h, k).host) \in Nat
<1>1. extension(h, k) \in Extension(Seq(Char))
  <2>1. CASE k \in DOMAIN h.exts
        BY <2>1, HelloTypes DEF extension
  <2>2. CASE k \notin DOMAIN h.exts
    <3>1. Filler \in Extension(Seq(Char))
          BY DEF Filler, Extension
    <3> QED BY <2>2, <3>1 DEF extension
  <2> QED BY <2>1, <2>2
<1> DEFINE x == extension(h, k)
<1> HIDE DEF x
<1>2. x \in Extension(Seq(Char))
      BY <1>1 DEF x
<1>3. /\ x.len \in Nat /\ x.list \in Nat /\ x.sni \in BOOLEAN /\ x.dns \in BOOLEAN
      /\ x.host \in Seq(Char) /\ Len(x.host) \in Nat
      BY <1>2 DEF Extension
<1> QED BY <1>3 DEF x

\* The extensions follow each other, each of four bytes or more.
LEMMA ExtOffIs ==
    ASSUME NEW h \in AnyHello
    PROVE  /\ ext_off(h, 1) = ext_begin(h)
           /\ \A k \in Nat \ {0} :
                /\ ext_off(h, k) \in Nat /\ ext_off(h, k) >= ext_begin(h) + 4 * (k - 1)
                /\ ext_off(h, k + 1) = ext_off(h, k) + 4 + extension(h, k).len
<1> DEFINE g == [j \in Nat |-> 4 + extension(h, j).len]
           b == ext_begin(h)
<1>1. g \in [Nat -> Nat] /\ \A j \in Nat : g[j] >= 4 /\ g[j] = 4 + extension(h, j).len
  <2>1. ASSUME NEW j \in Nat
        PROVE  4 + extension(h, j).len \in Nat /\ 4 + extension(h, j).len >= 4
    <3>1. extension(h, j).len \in Nat
          BY ExtensionTypes
    <3> QED BY <3>1
  <2> QED BY <2>1
<1>2. \A k : ext_off(h, k) = b + SumUpTo(g, k - 1)
      BY DEF ext_off
<1>3. b \in Nat
      BY HelloTypes
<1> HIDE DEF g, b
<1> DEFINE I == {j \in Nat : SumUpTo(g, j) >= 4 * j}
<1>4. 0 \in I
      BY <1>1, SumUpToIs
<1>5. ASSUME NEW j \in I PROVE j + 1 \in I
  <2>1. j \in Nat /\ SumUpTo(g, j) >= 4 * j /\ j + 1 \in Nat
        OBVIOUS
  <2>2. SumUpTo(g, j) \in Nat /\ SumUpTo(g, j + 1) = SumUpTo(g, j) + g[j + 1]
        BY <1>1, <2>1, SumUpToIs
  <2>3. g[j + 1] \in Nat /\ g[j + 1] >= 4
        BY <1>1, <2>1
  <2> QED BY <2>1, <2>2, <2>3
<1>6. I \in SUBSET Nat
      OBVIOUS
<1> HIDE DEF I
<1>7. I = Nat
      BY <1>4, <1>5, <1>6, AllNaturals
<1>8. ASSUME NEW k \in Nat \ {0}
      PROVE  /\ ext_off(h, k) \in Nat /\ ext_off(h, k) >= b + 4 * (k - 1)
             /\ ext_off(h, k + 1) = ext_off(h, k) + 4 + extension(h, k).len
  <2>1. k - 1 \in Nat /\ (k - 1) + 1 = k /\ (k + 1) - 1 = k
        OBVIOUS
  <2>2. SumUpTo(g, k - 1) \in Nat /\ SumUpTo(g, k - 1) >= 4 * (k - 1)
        BY <1>1, <1>7, <2>1, SumUpToIs DEF I
  <2>3. SumUpTo(g, (k - 1) + 1) = SumUpTo(g, k - 1) + g[(k - 1) + 1]
        BY <1>1, <2>1, SumUpToIs
  <2>4. ext_off(h, k) = b + SumUpTo(g, k - 1) /\ ext_off(h, k + 1) = b + SumUpTo(g, k)
        BY <1>2, <2>1
  <2>5. g[k] = 4 + extension(h, k).len /\ g[k] \in Nat /\ extension(h, k).len \in Nat
        BY <1>1, ExtensionTypes
  <2> QED BY <1>3, <2>1, <2>2, <2>3, <2>4, <2>5
<1>9. ext_off(h, 1) = b
      BY <1>1, <1>2, <1>3, SumUpToIs
<1> QED BY <1>8, <1>9 DEF b

\* Where and why the walk ends.
NoRoom(h, k) == ext_off(h, k) + 4 > ext_end(h)
CutOff(h, k) == ext_off(h, k) + 4 + extension(h, k).len > ext_end(h)
EndsWalk(h, k) == NoRoom(h, k) \/ CutOff(h, k) \/ extension(h, k).sni
WalkEnd(h) == Min({k \in 1 .. h.ext_total \div 4 + 1 : EndsWalk(h, k)})

LEMMA WalkEndIs ==
    ASSUME NEW h \in AnyHello
    PROVE  /\ WalkEnd(h) \in Nat \ {0} /\ EndsWalk(h, WalkEnd(h))
           /\ \A k \in Nat \ {0} : k < WalkEnd(h) => ~EndsWalk(h, k)
<1> DEFINE t == h.ext_total
           n == t \div 4 + 1
           I == {k \in 1 .. n : EndsWalk(h, k)}
<1>1. t \in Nat /\ ext_end(h) = ext_begin(h) + t /\ ext_begin(h) \in Nat
      BY HelloTypes
<1>2. n \in Nat /\ n >= 1 /\ 4 * (n - 1) + 4 > t
  <2> HIDE DEF t
  <2> QED BY <1>1
<1>3. n \in I
  <2>1. ext_off(h, n) \in Nat /\ ext_off(h, n) >= ext_begin(h) + 4 * (n - 1)
    <3> HIDE DEF n
    <3>1. n \in Nat \ {0}
          BY <1>2
    <3> QED BY <3>1, ExtOffIs
  <2>2. NoRoom(h, n)
    <3> HIDE DEF n, t
    <3> QED BY <1>1, <1>2, <2>1 DEF NoRoom
  <2> HIDE DEF n
  <2> QED BY <1>2, <2>2 DEF EndsWalk
<1>4. I \in SUBSET Nat /\ WalkEnd(h) = Min(I)
      BY <1>2 DEF WalkEnd
<1>5. Min(I) \in I /\ \A k \in I : Min(I) <= k
  <2> HIDE DEF I
  <2> QED BY <1>3, <1>4, MinIs
<1> DEFINE m == Min(I)
<1>6. m \in 1 .. n /\ EndsWalk(h, m)
      BY <1>5
<1>7. ASSUME NEW k \in Nat \ {0}, k < m PROVE ~EndsWalk(h, k)
  <2>1. k \in 1 .. n
    <3> HIDE DEF m, n
    <3> QED BY <1>2, <1>6, <1>7
  <2>2. k \notin I
    <3> HIDE DEF I
    <3> QED BY <1>2, <1>5, <1>6, <1>7
  <2> QED BY <2>1, <2>2
<1> QED BY <1>2, <1>4, <1>6, <1>7

LEMMA WalkIs ==
    ASSUME NEW h, NEW e
    PROVE  walk(h, e) = IF NoRoom(h, WalkEnd(h)) THEN Info(TRUE, e, 0, <<>>)
                        ELSE IF CutOff(h, WalkEnd(h)) THEN Info(FALSE, e, 0, <<>>)
                        ELSE parse_sni(extension(h, WalkEnd(h)), ext_off(h, WalkEnd(h)), e)
BY Zenon DEF walk, NoRoom, CutOff, WalkEnd, EndsWalk

LEMMA NoNameIs == ASSUME NEW p, NEW e PROVE Info(p, e, 0, <<>>).sni_len = 0
BY DEF Info

\* A hello in which the parser found a name.
LEMMA NameFound ==
    ASSUME NEW h \in AnyHello, parse_client_hello(h).sni_len > 0
    PROVE  LET m == WalkEnd(h)
               x == extension(h, m)
           IN  /\ fits(h) /\ inside(h) /\ 5 + h.rec_len <= h.size
               /\ ~CutOff(h, m) /\ list_fits(x) /\ 3 + Len(x.host) <= x.list
               /\ parse_client_hello(h) = Info(TRUE, 5 + h.rec_len, ext_off(h, m) + 9, x.host)
<1> DEFINE m == WalkEnd(h)
           x == extension(h, m)
           o == ext_off(h, m)
           e == 5 + h.rec_len
           r == parse_client_hello(h)
           short == h.size < 5 \/ ~h.handshake \/ h.major # 3 \/ e > h.size
           broken == h.size < 9 \/ ~h.client_hello \/ ~fits(h) \/ after_methods(h) > hs_end(h)
           none == ext_begin(h) > hs_end(h)
<1>1. r = IF short THEN Info(FALSE, 0, 0, <<>>)
          ELSE IF broken THEN Info(FALSE, e, 0, <<>>)
          ELSE IF none THEN Info(TRUE, e, 0, <<>>)
          ELSE IF ~inside(h) THEN Info(FALSE, e, 0, <<>>)
          ELSE walk(h, e)
      BY Zenon DEF parse_client_hello
<1>2. r.sni_len > 0 /\ \A p, d : ~(Info(p, d, 0, <<>>).sni_len > 0)
      BY NoNameIs
<1>3. walk(h, e) = IF NoRoom(h, m) THEN Info(TRUE, e, 0, <<>>)
                   ELSE IF CutOff(h, m) THEN Info(FALSE, e, 0, <<>>)
                   ELSE parse_sni(x, o, e)
      BY WalkIs
<1>4. parse_sni(x, o, e) =
        IF x.len < 2 \/ ~list_fits(x) \/ x.list < 3 THEN Info(FALSE, e, 0, <<>>)
        ELSE IF ~x.dns THEN Info(TRUE, e, 0, <<>>)
        ELSE IF 3 + Len(x.host) > x.list THEN Info(FALSE, e, 0, <<>>)
        ELSE Info(TRUE, e, o + 9, x.host)
      BY Zenon DEF parse_sni
<1>5. ~short /\ ~broken /\ inside(h) /\ r = walk(h, e)
  <2> HIDE DEF r, e, short, broken, none
  <2> QED BY <1>1, <1>2
<1>6. ~CutOff(h, m) /\ r = parse_sni(x, o, e)
  <2> HIDE DEF r, e, short, broken, none, m, x, o
  <2> QED BY <1>2, <1>3, <1>5
<1>7. list_fits(x) /\ ~(3 + Len(x.host) > x.list) /\ r = Info(TRUE, e, o + 9, x.host)
  <2> HIDE DEF r, e, short, broken, none, m, x, o
  <2> QED BY <1>2, <1>4, <1>6
<1>8. e <= h.size /\ 3 + Len(x.host) <= x.list
  <2>1. /\ h.size \in Nat /\ h.rec_len \in Nat /\ Len(x.host) \in Nat /\ x.list \in Nat
        BY HelloTypes, ExtensionTypes
  <2> HIDE DEF x
  <2> QED BY <1>5, <1>7, <2>1
<1> QED BY <1>5, <1>6, <1>7, <1>8

LEMMA NameInside ==
    ASSUME NEW h \in AnyHello, NEW t, t = parse_client_hello(h), t.sni_len > 0
    PROVE  /\ t.sni_off >= ext_begin(h) /\ t.sni_off + t.sni_len <= hs_end(h)
           /\ t.sni_off + t.sni_len <= h.size
           /\ t.sni_off + t.sni_len > t.record_end => h.hs_len + 4 > h.rec_len
<1> DEFINE m == WalkEnd(h)
           x == extension(h, m)
           o == ext_off(h, m)
           n == Len(x.host)
<1>1. /\ fits(h) /\ inside(h) /\ 5 + h.rec_len <= h.size
      /\ ~CutOff(h, m) /\ list_fits(x) /\ 3 + n <= x.list
      /\ t = Info(TRUE, 5 + h.rec_len, o + 9, x.host)
      BY NameFound
<1>2. t.sni_len = n /\ t.sni_off = o + 9 /\ t.record_end = 5 + h.rec_len
  <2> DEFINE r == Info(TRUE, 5 + h.rec_len, o + 9, x.host)
  <2>1. r.sni_len = Len(x.host) /\ r.sni_off = o + 9 /\ r.record_end = 5 + h.rec_len
        BY DEF Info
  <2>2. t = r
        BY <1>1
  <2> HIDE DEF r
  <2> QED BY <2>1, <2>2
<1>3. /\ h.size \in Nat /\ h.rec_len \in Nat /\ h.hs_len \in Nat /\ ext_begin(h) \in Nat
      /\ ext_end(h) \in Nat /\ hs_end(h) \in Nat /\ hs_end(h) = 9 + h.hs_len
      BY HelloTypes
<1>4. x.len \in Nat /\ x.list \in Nat /\ n \in Nat
      BY ExtensionTypes
<1>5. o \in Nat /\ o >= ext_begin(h)
  <2>1. m \in Nat \ {0}
        BY WalkEndIs
  <2>2. ext_off(h, m) \in Nat /\ ext_off(h, m) >= ext_begin(h) + 4 * (m - 1)
        BY <2>1, ExtOffIs
  <2> HIDE DEF m
  <2> QED BY <1>3, <2>1, <2>2
<1>6. /\ o + 4 + x.len <= ext_end(h) /\ x.list + 2 <= x.len /\ hs_end(h) <= h.size
      /\ ext_end(h) <= hs_end(h)
  <2>1. ~(o + 4 + x.len > ext_end(h)) /\ x.list + 2 <= x.len
        BY <1>1, Zenon DEF CutOff, list_fits
  <2>2. hs_end(h) <= h.size /\ ext_end(h) <= hs_end(h)
        BY <1>1 DEF fits, inside
  <2> HIDE DEF o, x
  <2> QED BY <1>3, <1>4, <1>5, <2>1, <2>2
<1>7. o + 9 + n <= ext_end(h)
  <2> HIDE DEF o, x, n, m
  <2> QED BY <1>1, <1>3, <1>4, <1>5, <1>6
<1> HIDE DEF o, x, n, m
<1> QED BY <1>2, <1>3, <1>4, <1>5, <1>6, <1>7

-----------------------------------------------------------------------------
(* A packet on its way through the worker *)

Examined == is_tcp(packet.ip) /\ packet.outbound /\ payload_size(packet.ip) # 0
Judged   == IF allowed(host_name(ParsedTls(packet.payload), ParsedHttp(packet.payload)))
            THEN "pipeline" ELSE "passed"

\* The packet is one that may be captured with the list that was loaded; what the
\* parsers left and the verdict are those of its payload, or nobody looked at it.
InspectInv ==
    /\ rules \in Seq(Lines) /\ Len(rules) \in DOMAIN TrafficOf
    /\ packet # NoPacket => packet \in UNION TrafficOf[Len(rules)]
    /\ packet = NoPacket => verdict = "none"
    /\ verdict = "none" \/ ~Examined => tls = NoTls /\ http = NoRequest
    /\ verdict # "none" /\ Examined => /\ tls = ParsedTls(packet.payload)
                                       /\ http = ParsedHttp(packet.payload)
                                       /\ verdict = Judged

LEMMA InspectInvHolds == InspectSpec => []InspectInv
<1> USE DomainFilterAssumption, InspectionAssumption
<1>1. InspectInit => InspectInv
  <2> SUFFICES ASSUME InspectInit PROVE InspectInv
      OBVIOUS
  <2>1. /\ rules = <<>> /\ packet = NoPacket /\ tls = NoTls /\ http = NoRequest
        /\ verdict = "none"
        BY DEF InspectInit, Init
  <2>2. Len(rules) = 0 /\ 0 \in DOMAIN TrafficOf
        BY <2>1 DEF InspectionAssumption, DomainFilterAssumption
  <2> QED BY <2>1, <2>2 DEF InspectInv
<1>2. InspectInv /\ [InspectNext]_allVars => InspectInv'
  <2> SUFFICES ASSUME InspectInv, [InspectNext]_allVars PROVE InspectInv'
      OBVIOUS
  <2>1. CASE \E line \in Lines : LoadLine(line)
    <3>1. PICK line \in Lines : LoadLine(line)
          BY <2>1
    <3>2. /\ Len(rules) < MaxRules /\ rules' = Append(rules, line) /\ packet = NoPacket
          /\ UNCHANGED workVars
          BY <3>1 DEF LoadLine, load_line
    <3>3. /\ rules \in Seq(Lines) /\ verdict = "none" /\ tls = NoTls /\ http = NoRequest
          BY <3>2 DEF InspectInv
    <3>4. rules' \in Seq(Lines) /\ Len(rules') = Len(rules) + 1
          BY <3>2, <3>3
    <3>5. Len(rules') \in DOMAIN TrafficOf
          BY <3>2, <3>3, <3>4 DEF InspectionAssumption, DomainFilterAssumption
    <3> QED BY <3>2, <3>3, <3>4, <3>5 DEF InspectInv, workVars
  <2>2. CASE recv
    <3>1. /\ packet = NoPacket /\ packet' \in UNION TrafficOf[Len(rules)]
          /\ rules' = rules /\ tls' = tls /\ http' = http /\ verdict' = verdict
          BY <2>2 DEF recv, vars
    <3> QED BY <3>1 DEF InspectInv
  <2>3. CASE PassUnparsed \/ DropReset \/ PassInboundOrEmpty
    <3>1. /\ packet # NoPacket /\ verdict = "none" /\ ~Examined
          /\ UNCHANGED <<vars, packet, tls, http>>
          BY <2>3 DEF PassUnparsed, DropReset, PassInboundOrEmpty, Busy, Decide, Examined
    <3>2. rules' = rules /\ ~Examined'
          BY <3>1 DEF vars, Examined
    <3> QED BY <3>1, <3>2 DEF InspectInv
  <2>4. CASE Inspect
    <3>1. /\ packet # NoPacket /\ Examined /\ UNCHANGED <<vars, packet>>
          /\ tls' = ParsedTls(packet.payload) /\ http' = ParsedHttp(packet.payload)
          /\ verdict' = IF allowed(host_name(tls', http')) THEN "pipeline" ELSE "passed"
          BY <2>4 DEF Inspect, Busy, Decide, Examined
    <3>2. verdict' = Judged
          BY <3>1, Zenon DEF Judged
    <3>3. rules' = rules /\ Judged' = Judged /\ verdict' # "none"
          BY <3>1, <3>2 DEF vars, Judged, allowed, should_apply, matched
    <3>4. Examined'
          BY <3>1 DEF Examined
    <3> QED BY <3>1, <3>2, <3>3, <3>4 DEF InspectInv
  <2>5. CASE UNCHANGED allVars
        BY <2>5 DEF allVars, workVars, vars, InspectInv, Examined, Judged, allowed,
                    should_apply, matched
  <2> QED BY <2>1, <2>2, <2>3, <2>4, <2>5 DEF InspectNext
<1> QED BY <1>1, <1>2, PTL DEF InspectSpec

\* What the bytes of a captured packet are.
LEMMA PayloadIs ==
    ASSUME InspectionAssumption, InspectInv, packet # NoPacket
    PROVE  LET y == packet.payload
           IN  /\ packet \in Packet(y) /\ packet.ip \in Captured
               /\ SizeOf(y) = payload_size(packet.ip)
               /\ \/ y = NoPayload /\ y.type = "none"
                  \/ y.type = "tls" /\ y.hello \in AnyHello
                  \/ y.type = "text" /\ y.text \in Seq(Char)
<1> DEFINE y == packet.payload
<1>1. /\ packet \in Packet(y) /\ SizeOf(y) = payload_size(packet.ip)
      /\ \/ y = NoPayload
         \/ y.type = "tls" /\ y.hello \in Hello(Seq(Char))
         \/ y.type = "text" /\ y.text \in Seq(Char)
      BY DEF InspectInv, InspectionAssumption
<1>2. packet.ip \in Captured
      BY <1>1 DEF Packet
<1>3. y = NoPayload => y.type = "none"
      BY DEF NoPayload
<1> QED BY <1>1, <1>2, <1>3 DEF AnyHello

\* What the TLS parser left, if it found a name.
LEMMA NamedIs ==
    ASSUME InspectionAssumption, InspectInv, tls.sni_len > 0
    PROVE  hello \in AnyHello /\ tls = parse_client_hello(hello)
<1>1. tls # NoTls
  <2>1. NoTls.sni_len = 0
        BY DEF NoTls, Info
  <2> QED BY <2>1
<1>2. verdict # "none" /\ packet # NoPacket /\ tls = ParsedTls(packet.payload)
      BY <1>1 DEF InspectInv
<1>3. sniff_tls(packet.payload) /\ tls = parse_client_hello(hello)
      BY <1>1, <1>2 DEF ParsedTls, hello
<1>4. packet.payload.type = "tls"
      BY <1>3 DEF sniff_tls
<1>5. hello \in AnyHello
      BY <1>2, <1>4, PayloadIs DEF hello
<1> QED BY <1>3, <1>5

\* A hello names no host from outside of itself, whatever its lengths claim
\* (tls.cpp:19-106).
THEOREM NamesComeFromInside == InspectSpec => []NameInsideHello
<1>1. InspectInv => NameInsideHello
  <2> SUFFICES ASSUME InspectInv, tls.sni_len > 0
               PROVE  /\ tls.sni_off >= ext_begin(hello)
                      /\ tls.sni_off + tls.sni_len <= hs_end(hello)
                      /\ tls.sni_off + tls.sni_len <= hello.size
                      /\ tls.sni_off + tls.sni_len > tls.record_end =>
                           hello.hs_len + 4 > hello.rec_len
      BY DEF NameInsideHello
  <2>1. hello \in AnyHello /\ tls = parse_client_hello(hello)
        BY InspectionAssumption, NamedIs
  <2> QED BY <2>1, NameInside
<1> QED BY <1>1, InspectInvHolds, PTL

-----------------------------------------------------------------------------
(* A hello as its client wrote it *)

LEMMA ExtSumIs ==
    ASSUME NEW h \in AnyHello
    PROVE  /\ \A n \in Nat : ExtSum(h, n) \in Nat
           /\ \A n \in 0 .. Len(h.exts) :
                /\ ext_off(h, n + 1) = ext_begin(h) + ExtSum(h, n)
                /\ ExtSum(h, n) <= ExtSum(h, Len(h.exts))
<1> DEFINE g == [j \in Nat |-> IF j \in DOMAIN h.exts THEN 4 + h.exts[j].len ELSE 0]
           f == [j \in Nat |-> 4 + extension(h, j).len]
           N == Len(h.exts)
           b == ext_begin(h)
<1>1. h.exts \in Seq(Extension(Seq(Char))) /\ N \in Nat /\ b \in Nat
      BY HelloTypes
<1>2. \A j \in DOMAIN h.exts : extension(h, j) = h.exts[j]
      BY DEF extension
<1>3. f \in [Nat -> Nat] /\ \A j \in Nat : f[j] = 4 + extension(h, j).len
  <2>1. ASSUME NEW j \in Nat PROVE 4 + extension(h, j).len \in Nat
    <3>1. extension(h, j).len \in Nat
          BY ExtensionTypes
    <3> QED BY <3>1
  <2> QED BY <2>1
<1>4. g \in [Nat -> Nat] /\ \A j \in 1 .. N : g[j] = f[j]
  <2>1. ASSUME NEW j \in Nat
        PROVE  (IF j \in DOMAIN h.exts THEN 4 + h.exts[j].len ELSE 0) \in Nat
    <3>1. CASE j \in DOMAIN h.exts
      <4>1. 4 + extension(h, j).len \in Nat
            BY <1>3
      <4> QED BY <1>2, <3>1, <4>1
    <3>2. CASE j \notin DOMAIN h.exts
          BY <3>2
    <3> QED BY <3>1, <3>2
  <2>2. ASSUME NEW j \in 1 .. N PROVE g[j] = f[j]
    <3>1. j \in DOMAIN h.exts /\ j \in Nat
          BY <1>1
    <3> QED BY <1>2, <3>1
  <2> QED BY <2>1, <2>2
<1>5. \A n : ExtSum(h, n) = SumUpTo(g, n)
      BY DEF ExtSum
<1>6. \A n : ext_off(h, n) = b + SumUpTo(f, n - 1)
      BY DEF ext_off
<1> HIDE DEF f, g, b, N
<1>7. ASSUME NEW n \in 0 .. N
      PROVE  /\ ext_off(h, n + 1) = b + ExtSum(h, n)
             /\ ExtSum(h, n) <= ExtSum(h, N)
  <2>1. n \in Nat /\ (n + 1) - 1 = n /\ n <= N /\ \A k \in 1 .. n : k \in 1 .. N
        BY <1>1
  <2>2. SumUpTo(f, n) = SumUpTo(g, n)
        BY <1>3, <1>4, <2>1, SameSum
  <2>3. SumUpTo(g, n) <= SumUpTo(g, N)
        BY <1>1, <1>4, <2>1, SumGrows
  <2> QED BY <1>5, <1>6, <2>1, <2>2, <2>3
<1>8. \A n \in Nat : ExtSum(h, n) \in Nat
      BY <1>4, <1>5, SumUpToIs
<1> QED BY <1>7, <1>8 DEF b, N

\* The walk over extensions that fit ends at the server_name or behind the last.
LEMMA WrittenWalk ==
    ASSUME NEW h \in AnyHello, h.ext_total = ExtSum(h, Len(h.exts))
    PROVE  LET m == WalkEnd(h)
           IN  \/ /\ m \in DOMAIN h.exts /\ h.exts[m].sni
                  /\ ~NoRoom(h, m) /\ ~CutOff(h, m)
               \/ NoRoom(h, m) /\ \A k \in DOMAIN h.exts : ~h.exts[k].sni
<1> DEFINE m == WalkEnd(h)
           N == Len(h.exts)
           b == ext_begin(h)
           S(n) == ExtSum(h, n)
<1>1. /\ h.exts \in Seq(Extension(Seq(Char))) /\ N \in Nat /\ b \in Nat
      /\ ext_end(h) = b + S(N) /\ DOMAIN h.exts = 1 .. N
      BY HelloTypes
<1>2. ASSUME NEW k \in DOMAIN h.exts PROVE ~NoRoom(h, k) /\ ~CutOff(h, k)
  <2>1. k \in Nat \ {0} /\ k \in 0 .. N
        BY <1>1
  <2>2. /\ ext_off(h, k) \in Nat /\ extension(h, k).len \in Nat
        /\ ext_off(h, k + 1) = ext_off(h, k) + 4 + extension(h, k).len
        BY <2>1, ExtOffIs, ExtensionTypes
  <2>3. ext_off(h, k + 1) = b + S(k) /\ S(k) <= S(N) /\ S(k) \in Nat /\ S(N) \in Nat
    <3>1. S(k) \in Nat /\ S(N) \in Nat
      <4>1. \A n \in Nat : ExtSum(h, n) \in Nat
            BY ExtSumIs
      <4>2. k \in Nat /\ N \in Nat
            BY <1>1, <2>1
      <4> HIDE DEF N
      <4> QED BY <4>1, <4>2
    <3>2. ext_off(h, k + 1) = b + S(k) /\ S(k) <= S(N)
          BY <2>1, ExtSumIs
    <3> QED BY <3>1, <3>2
  <2> HIDE DEF b, S, N
  <2>4. ext_off(h, k) + 4 + extension(h, k).len <= ext_end(h)
        BY <1>1, <2>2, <2>3
  <2>5. ext_end(h) \in Nat
        BY <1>1, <2>3
  <2> QED BY <2>2, <2>4, <2>5 DEF NoRoom, CutOff
<1>3. NoRoom(h, N + 1)
  <2>1. ext_off(h, N + 1) = b + S(N) /\ S(N) \in Nat
    <3>1. N \in Nat /\ N \in 0 .. N
          BY <1>1
    <3>2. \A n \in Nat : ExtSum(h, n) \in Nat
          BY ExtSumIs
    <3>3. \A n \in 0 .. N : ext_off(h, n + 1) = b + ExtSum(h, n)
          BY ExtSumIs
    <3> HIDE DEF N, b
    <3> QED BY <3>1, <3>2, <3>3
  <2> HIDE DEF b, S, N
  <2> QED BY <1>1, <2>1 DEF NoRoom
<1>4. /\ m \in Nat \ {0} /\ EndsWalk(h, m)
      /\ \A k \in Nat \ {0} : k < m => ~EndsWalk(h, k)
      BY WalkEndIs
<1>5. \A k \in DOMAIN h.exts : extension(h, k) = h.exts[k]
      BY DEF extension
<1> HIDE DEF m, N, S, b
<1>6. m \in 1 .. N + 1
  <2>1. EndsWalk(h, N + 1)
        BY <1>3 DEF EndsWalk
  <2> QED BY <1>1, <1>4, <2>1
<1>7. CASE m \in 1 .. N
  <2>1. m \in DOMAIN h.exts /\ ~NoRoom(h, m) /\ ~CutOff(h, m)
        BY <1>1, <1>2, <1>7
  <2>2. h.exts[m].sni
        BY <1>4, <1>5, <2>1 DEF EndsWalk
  <2> QED BY <2>1, <2>2 DEF m
<1>8. CASE m = N + 1
  <2>1. ASSUME NEW k \in DOMAIN h.exts PROVE ~h.exts[k].sni
    <3>1. k \in Nat \ {0} /\ k < m
          BY <1>1, <1>8
    <3>2. ~EndsWalk(h, k)
          BY <1>4, <3>1
    <3> QED BY <1>5, <3>2 DEF EndsWalk
  <2> QED BY <1>3, <1>8, <2>1 DEF m
<1> QED BY <1>1, <1>6, <1>7, <1>8

\* What the parser makes of a hello that is complete.
LEMMA WrittenIsRead ==
    ASSUME NEW h \in AnyHello, Written(h)
    PROVE  LET r == parse_client_hello(h)
           IN  /\ h.size >= 9 /\ sniff_tls(Tls(h))
               /\ r.present = TRUE /\ r.hostname = NameOf(h)
               /\ NameOf(h) # <<>> => r.sni_off = hs_end(h) - Behind(h)
<1> DEFINE m == WalkEnd(h)
           x == extension(h, m)
           o == ext_off(h, m)
           e == 5 + h.rec_len
           r == parse_client_hello(h)
           N == Len(h.exts)
           T == h.ext_total
<1>1. /\ h.handshake /\ h.major = 3 /\ h.client_hello /\ T = ExtSum(h, N)
      /\ h.rec_len = 4 + h.hs_len /\ h.size >= 5 + h.rec_len
      /\ h.hs_len = 34 + 1 + h.sid + 2 + h.cs + 1 + h.cm + 2 + T
      /\ \A k \in DOMAIN h.exts : written(h.exts[k])
      /\ \A j, k \in DOMAIN h.exts : h.exts[j].sni /\ h.exts[k].sni => j = k
      BY Zenon DEF Written
<1>2. /\ h.size \in Nat /\ h.rec_len \in Nat /\ h.hs_len \in Nat /\ T \in Nat
      /\ h.sid \in Nat /\ h.cs \in Nat /\ h.cm \in Nat /\ N \in Nat
      /\ after_methods(h) \in Nat /\ ext_begin(h) = after_methods(h) + 2
      /\ ext_end(h) = ext_begin(h) + T /\ hs_end(h) = 9 + h.hs_len
      BY HelloTypes
<1>3. after_methods(h) + 2 + T = 9 + h.hs_len
  <2> DEFINE a == h.sid
             b == h.cs
             c == h.cm
             n == h.hs_len
  <2>1. after_methods(h) = 9 + 34 + 1 + a + 2 + b + 1 + c
        BY DEF after_methods
  <2>2. a \in Nat /\ b \in Nat /\ c \in Nat /\ T \in Nat
        BY <1>2
  <2>3. n = 34 + 1 + a + 2 + b + 1 + c + 2 + T
        BY <1>1
  <2> HIDE DEF a, b, c, n, T
  <2>4. after_methods(h) + 2 + T = 9 + n
        BY <2>1, <2>2, <2>3
  <2> QED BY <2>4 DEF n
<1>4. /\ ~(h.size < 5) /\ ~(e > h.size) /\ ~(h.size < 9) /\ h.size >= 9 /\ h.size >= 6
      /\ hs_end(h) <= h.size /\ ~(after_methods(h) > hs_end(h))
      /\ ~(ext_begin(h) > hs_end(h)) /\ ext_end(h) = hs_end(h)
  <2> DEFINE a == after_methods(h)
             s == h.size
             c == h.rec_len
             n == h.hs_len
  <2>1. /\ a \in Nat /\ s \in Nat /\ n \in Nat /\ T \in Nat /\ c = 4 + n /\ s >= 5 + c
        /\ hs_end(h) = 9 + n /\ ext_begin(h) = a + 2 /\ ext_end(h) = ext_begin(h) + T
        /\ a + 2 + T = 9 + n
        BY <1>1, <1>2, <1>3
  <2> HIDE DEF a, s, c, n, T
  <2>2. /\ ~(s < 5) /\ ~(5 + c > s) /\ ~(s < 9) /\ s >= 9 /\ s >= 6 /\ hs_end(h) <= s
        /\ ~(a > hs_end(h)) /\ ~(ext_begin(h) > hs_end(h)) /\ ext_end(h) = hs_end(h)
        BY <2>1
  <2> QED BY <2>2 DEF a, s, c
<1>5. fits(h) /\ inside(h)
  <2>1. hs_end(h) \in Nat
        BY HelloTypes
  <2> QED BY <1>4, <2>1 DEF fits, inside
<1>6. r = walk(h, e)
      BY <1>1, <1>4, <1>5, Zenon DEF parse_client_hello
<1>7. walk(h, e) = IF NoRoom(h, m) THEN Info(TRUE, e, 0, <<>>)
                   ELSE IF CutOff(h, m) THEN Info(FALSE, e, 0, <<>>)
                   ELSE parse_sni(x, o, e)
      BY WalkIs
<1>8. \/ m \in DOMAIN h.exts /\ h.exts[m].sni /\ ~NoRoom(h, m) /\ ~CutOff(h, m)
      \/ NoRoom(h, m) /\ \A k \in DOMAIN h.exts : ~h.exts[k].sni
      BY <1>1, WrittenWalk
<1>9. sniff_tls(Tls(h))
  <2>1. Tls(h).type = "tls" /\ Tls(h).hello = h
        BY DEF Tls
  <2> QED BY <1>1, <1>4, <2>1 DEF sniff_tls, looks_like_tls_handshake
<1>10. \A d, name : /\ Info(TRUE, e, d, name).present = TRUE
                    /\ Info(TRUE, e, d, name).hostname = name
                    /\ Info(TRUE, e, d, name).sni_off = d
       BY DEF Info
<1> DEFINE Goal == /\ r.present = TRUE /\ r.hostname = NameOf(h)
                   /\ NameOf(h) # <<>> => r.sni_off = hs_end(h) - Behind(h)
<1>11. ASSUME Named(h) = {}, r = Info(TRUE, e, 0, <<>>) PROVE Goal
  <2>1. NameOf(h) = <<>>
        BY <1>11 DEF NameOf
  <2>2. r.present = TRUE /\ r.hostname = <<>>
    <3> HIDE DEF r
    <3> QED BY <1>10, <1>11
  <2> HIDE DEF r, e
  <2> QED BY <2>1, <2>2
<1>12. ASSUME NoRoom(h, m) /\ \A k \in DOMAIN h.exts : ~h.exts[k].sni PROVE Goal
  <2>1. Named(h) = {}
        BY <1>12 DEF Named
  <2>2. r = Info(TRUE, e, 0, <<>>)
    <3> HIDE DEF r, e
    <3> QED BY <1>6, <1>7, <1>12
  <2> HIDE DEF Goal, r, e
  <2> QED BY <1>11, <2>1, <2>2
<1>13. ASSUME m \in DOMAIN h.exts /\ h.exts[m].sni /\ ~NoRoom(h, m) /\ ~CutOff(h, m)
       PROVE  Goal
  <2>1. x = h.exts[m] /\ r = parse_sni(x, o, e)
    <3>1. x = h.exts[m]
          BY <1>13 DEF extension
    <3> HIDE DEF r, e, x
    <3> QED BY <1>6, <1>7, <1>13, <3>1
  <2>2. /\ x.len = x.list + 2
        /\ x.dns => x.list >= 3 + Len(x.host)
        /\ ~x.dns => x.list >= 3
        BY <1>1, <1>13, <2>1 DEF written
  <2>3. /\ x.len \in Nat /\ x.list \in Nat /\ Len(x.host) \in Nat /\ x.dns \in BOOLEAN
        BY ExtensionTypes
  <2>4. /\ ~(x.len < 2) /\ list_fits(x) /\ ~(x.list < 3)
        /\ x.dns => ~(3 + Len(x.host) > x.list)
    <3> DEFINE l == x.len
               i == x.list
               d == Len(x.host)
               b == x.dns
    <3>1. /\ l = i + 2 /\ l \in Nat /\ i \in Nat /\ d \in Nat /\ b \in BOOLEAN
          /\ b => i >= 3 + d
          /\ ~b => i >= 3
          BY <2>2, <2>3
    <3> HIDE DEF l, i, d, b
    <3>2. /\ ~(l < 2) /\ i + 2 <= l /\ ~(i < 3)
          /\ b => ~(3 + d > i)
          BY <3>1
    <3> QED BY <3>2 DEF list_fits, l, i, d, b
  <2>5. parse_sni(x, o, e) = IF ~x.dns THEN Info(TRUE, e, 0, <<>>)
                             ELSE Info(TRUE, e, o + 9, x.host)
        BY <2>4, Zenon DEF parse_sni
  <2>6. \A k \in Named(h) : k = m /\ x.dns
        BY <1>1, <1>13, <2>1 DEF Named
  <2>7. CASE ~x.dns
    <3>1. Named(h) = {}
          BY <2>6, <2>7
    <3>2. r = Info(TRUE, e, 0, <<>>)
      <4> HIDE DEF r, e, x, o
      <4> QED BY <2>1, <2>5, <2>7
    <3> HIDE DEF Goal, r, e
    <3> QED BY <1>11, <3>1, <3>2
  <2>8. CASE x.dns
    <3>1. m \in Named(h) /\ Named(h) \in SUBSET Nat /\ Named(h) # {}
      <4>1. DOMAIN h.exts \in SUBSET Nat
            BY HelloTypes
      <4> QED BY <1>13, <2>1, <2>8, <4>1 DEF Named
    <3>2. Min(Named(h)) = m
          BY <2>6, <3>1, MinIs
    <3>3. NameOf(h) = x.host
          BY <2>1, <3>1, <3>2 DEF NameOf
    <3>4. Behind(h) = x.list - 3 + ExtSum(h, N) - ExtSum(h, m)
          BY <2>1, <3>2 DEF Behind
    <3>5. o + 9 = hs_end(h) - Behind(h) /\ o + 9 \in Nat
      <4>1. m \in Nat \ {0} /\ m \in 0 .. N
            BY <1>13, WalkEndIs, HelloTypes
      <4>2. o \in Nat /\ ext_off(h, m + 1) = o + 4 + x.len
            BY <4>1, ExtOffIs
      <4>3. ext_off(h, m + 1) = ext_begin(h) + ExtSum(h, m)
            BY <4>1, ExtSumIs
      <4>4. \A n \in Nat : ExtSum(h, n) \in Nat
            BY ExtSumIs
      <4> DEFINE s == ExtSum(h, m)
                 b == ext_begin(h)
                 z == hs_end(h)
                 w == Behind(h)
      <4>5. s \in Nat /\ b \in Nat
            BY <4>1, <4>4, HelloTypes
      <4>6. z = b + T /\ w = x.list - 3 + T - s /\ b + s = o + 4 + x.len
            BY <1>1, <1>2, <1>4, <3>4, <4>2, <4>3
      <4> DEFINE l == x.len
                 i == x.list
      <4>7. /\ l \in Nat /\ i \in Nat /\ l = i + 2 /\ o \in Nat /\ T \in Nat
            /\ w = i - 3 + T - s /\ b + s = o + 4 + l
            BY <1>2, <2>2, <2>3, <4>2, <4>6
      <4> HIDE DEF s, b, z, w, x, o, T, l, i
      <4>8. o + 9 = z - w /\ o + 9 \in Nat
            BY <4>5, <4>6, <4>7
      <4> QED BY <4>8 DEF z, w
    <3>6. r = Info(TRUE, e, o + 9, x.host)
      <4> HIDE DEF r, e, x, o
      <4> QED BY <2>1, <2>5, <2>8
    <3>7. r.present = TRUE /\ r.hostname = x.host /\ r.sni_off = o + 9
      <4> HIDE DEF r, x, o
      <4> QED BY <1>10, <3>6
    <3> HIDE DEF r, e, x, o
    <3> QED BY <3>3, <3>5, <3>7
  <2> HIDE DEF Goal
  <2> QED BY <2>7, <2>8
<1> QED BY <1>4, <1>8, <1>9, <1>12, <1>13

\* A hello that is complete in its segment is read as it was written (tls.cpp:19-106).
THEOREM HellosAreRead == InspectSpec => []HelloIsRead
<1>1. InspectInv => HelloIsRead
  <2> SUFFICES ASSUME InspectInv, Inspected, packet.payload.type = "tls", Written(hello)
               PROVE  /\ tls.present /\ tls.hostname = NameOf(hello)
                      /\ NameOf(hello) # <<>> => tls.sni_off = hs_end(hello) - Behind(hello)
      BY DEF HelloIsRead
  <2> DEFINE y == packet.payload
  <2>1. /\ packet # NoPacket /\ verdict # "none" /\ is_tcp(packet.ip) /\ packet.outbound
        BY DEF Inspected
  <2>2. /\ hello \in AnyHello /\ SizeOf(y) = payload_size(packet.ip)
        BY <2>1, InspectionAssumption, PayloadIs DEF NoPayload, hello
  <2> DEFINE r == parse_client_hello(hello)
  <2>3. /\ hello.size >= 9 /\ sniff_tls(Tls(hello)) /\ r.present = TRUE
        /\ r.hostname = NameOf(hello)
        /\ NameOf(hello) # <<>> => r.sni_off = hs_end(hello) - Behind(hello)
        BY <2>2, WrittenIsRead
  <2>4. payload_size(packet.ip) # 0
    <3>1. SizeOf(y) = hello.size
          BY DEF SizeOf, hello
    <3> QED BY <2>2, <2>3, <3>1, HelloTypes
  <2>5. tls = ParsedTls(y)
        BY <2>1, <2>4 DEF InspectInv, Examined
  <2>6. sniff_tls(y)
        BY <2>3 DEF sniff_tls, Tls, hello
  <2>7. tls = r
        BY <2>5, <2>6 DEF ParsedTls, hello
  <2> HIDE DEF r
  <2> QED BY <2>3, <2>7
<1> QED BY <1>1, InspectInvHolds, PTL

-----------------------------------------------------------------------------
(* Headers *)

LEMMA Uint16 == MaxUint16 \in Nat
BY DEF MaxUint16

LEMMA Uint16IsNat == ASSUME NEW n \in 0 .. MaxUint16 PROVE n \in Nat
BY Uint16

LEMMA Uint8IsNat == ASSUME NEW n \in 0 .. 255 PROVE n \in Nat
OBVIOUS

LEMMA HeaderIs ==
    ASSUME NEW x, x.chain \in Seq(NextHeader), NEW k
    PROVE  /\ header(x, k).kind \in Nat /\ header(x, k).len \in Nat
           /\ hlen(header(x, k)) \in Nat /\ hlen(header(x, k)) >= 8
<1>1. header(x, k) \in NextHeader
  <2>1. CASE k \in DOMAIN x.chain
        BY <2>1 DEF header
  <2>2. CASE k \notin DOMAIN x.chain
        BY <2>2 DEF header, NextHeader, NoNext
  <2> QED BY <2>1, <2>2
<1>2. header(x, k).kind \in 0 .. 255 /\ header(x, k).len \in 0 .. 255
      BY <1>1 DEF NextHeader
<1> DEFINE n == header(x, k).len
<1>5. header(x, k).kind \in Nat /\ n \in Nat
      BY <1>2, Uint8IsNat
<1>3. /\ (n + 2) * 4 \in Nat /\ (n + 2) * 4 >= 8
      /\ (n + 1) * 8 \in Nat /\ (n + 1) * 8 >= 8
  <2> HIDE DEF n
  <2> QED BY <1>5
<1>4. \/ hlen(header(x, k)) = (n + 2) * 4
      \/ hlen(header(x, k)) = (n + 1) * 8
      BY DEF hlen
<1> HIDE DEF n
<1>6. hlen(header(x, k)) \in Nat /\ hlen(header(x, k)) >= 8
      BY <1>3, <1>4
<1> QED BY <1>5, <1>6 DEF n

\* The headers of a chain follow each other, each of eight bytes or more.
LEMMA ChainOffIs ==
    ASSUME NEW x, x.chain \in Seq(NextHeader), NEW k \in Nat \ {0}
    PROVE  /\ chain_off(x, k) \in Nat /\ chain_off(x, k) >= 40
           /\ chain_off(x, k + 1) = chain_off(x, k) + hlen(header(x, k))
           /\ \A n \in Nat : n >= k => chain_off(x, k) <= chain_off(x, n)
<1> DEFINE g == [j \in Nat |-> hlen(header(x, j))]
<1>1. g \in [Nat -> Nat]
      BY HeaderIs
<1>2. \A n : chain_off(x, n) = 40 + SumUpTo(g, n - 1)
      BY DEF chain_off
<1>3. k - 1 \in Nat /\ (k + 1) - 1 = (k - 1) + 1 /\ (k - 1) + 1 = k
      OBVIOUS
<1>4. g[k] = hlen(header(x, k)) /\ g[k] \in Nat
      BY <1>1
<1> HIDE DEF g
<1>5. SumUpTo(g, k - 1) \in Nat /\ SumUpTo(g, (k - 1) + 1) = SumUpTo(g, k - 1) + g[k]
      BY <1>1, <1>3, SumUpToIs
<1>6. ASSUME NEW n \in Nat, n >= k PROVE chain_off(x, k) <= chain_off(x, n)
  <2>1. n - 1 \in Nat /\ k - 1 <= n - 1
        BY <1>6
  <2>2. SumUpTo(g, k - 1) <= SumUpTo(g, n - 1) /\ SumUpTo(g, n - 1) \in Nat
        BY <1>1, <1>3, <2>1, SumGrows, SumUpToIs
  <2> QED BY <1>2, <1>5, <2>2
<1>7. chain_off(x, k) = 40 + SumUpTo(g, k - 1)
      BY <1>2
<1>8. chain_off(x, k + 1) = 40 + SumUpTo(g, (k - 1) + 1)
      BY <1>2, <1>3
<1>9. /\ chain_off(x, k) \in Nat /\ chain_off(x, k) >= 40
      /\ chain_off(x, k + 1) = chain_off(x, k) + hlen(header(x, k))
      BY <1>3, <1>4, <1>5, <1>7, <1>8
<1> QED BY <1>6, <1>9

\* Which headers the view takes, and which packet it calls valid.
ip_part(x) == CASE x.ver = 4 -> parse_ipv4(x)
                [] x.ver = 6 -> parse_ipv6_chain(x)
                [] OTHER     -> NoHeader

Fits(x) == ~(x.size < ip_part(x).len + 20 \/ x.doff * 4 < 20
               \/ ip_part(x).len + x.doff * 4 > x.size)

LEMMA ViewFields ==
    ASSUME NEW h, NEW n
    PROVE  \A b \in BOOLEAN :
             /\ View(b, h, n).valid = b /\ View(b, h, n).ip_hdr_len = h.len
             /\ View(b, h, n).ip_proto = h.proto /\ View(b, h, n).tcp_hdr_len = n
BY DEF View

LEMMA ResetIs ==
    ASSUME NEW x
    PROVE  reset(x) = IF ip_part(x).len = 0 THEN View(FALSE, ip_part(x), 0)
                      ELSE IF ip_part(x).proto # TCP THEN View(TRUE, ip_part(x), 0)
                      ELSE IF x.size < ip_part(x).len + 20 \/ x.doff * 4 < 20
                                \/ ip_part(x).len + x.doff * 4 > x.size
                      THEN View(FALSE, ip_part(x), 0)
                      ELSE View(TRUE, ip_part(x), x.doff * 4)
BY Zenon DEF reset, ip_part

\* A valid view of a TCP packet.
LEMMA ValidIs ==
    ASSUME NEW x
    PROVE  /\ reset(x).ip_hdr_len = ip_part(x).len /\ reset(x).ip_proto = ip_part(x).proto
           /\ reset(x).valid /\ reset(x).ip_proto = TCP =>
                /\ ip_part(x).len # 0 /\ Fits(x) /\ reset(x).tcp_hdr_len = x.doff * 4
           /\ ip_part(x).len # 0 /\ ip_part(x).proto = TCP /\ Fits(x) =>
                /\ reset(x).valid /\ reset(x).tcp_hdr_len = x.doff * 4
<1> DEFINE h == ip_part(x)
           fit == Fits(x)
<1>1. reset(x) = IF h.len = 0 THEN View(FALSE, h, 0)
                 ELSE IF h.proto # TCP THEN View(TRUE, h, 0)
                 ELSE IF fit THEN View(TRUE, h, x.doff * 4) ELSE View(FALSE, h, 0)
      BY ResetIs, Zenon DEF Fits
<1> DEFINE d == x.doff * 4
           r == reset(x)
<1> HIDE DEF h, fit, d, r
<1>2. /\ h.len = 0 => r = View(FALSE, h, 0)
      /\ h.len # 0 /\ h.proto # TCP => r = View(TRUE, h, 0)
      /\ h.len # 0 /\ h.proto = TCP /\ fit => r = View(TRUE, h, d)
      /\ h.len # 0 /\ h.proto = TCP /\ ~fit => r = View(FALSE, h, 0)
      BY <1>1 DEF d, r
<1> DEFINE Facts == /\ r.ip_hdr_len = h.len /\ r.ip_proto = h.proto
                    /\ r.valid = TRUE \/ r.valid = FALSE
                    /\ (r.valid = TRUE) /\ r.ip_proto = TCP =>
                         h.len # 0 /\ fit /\ r.tcp_hdr_len = d
                    /\ h.len # 0 /\ h.proto = TCP /\ fit =>
                         (r.valid = TRUE) /\ r.tcp_hdr_len = d
<1>3. ASSUME h.len = 0 PROVE Facts
  <2>1. View(FALSE, h, 0).valid = FALSE /\ View(FALSE, h, 0).ip_hdr_len = h.len
        /\ View(FALSE, h, 0).ip_proto = h.proto
        BY ViewFields, Zenon
  <2> QED BY <1>2, <1>3, <2>1
<1>4. ASSUME h.len # 0 /\ h.proto # TCP PROVE Facts
  <2>1. View(TRUE, h, 0).valid = TRUE /\ View(TRUE, h, 0).ip_hdr_len = h.len
        /\ View(TRUE, h, 0).ip_proto = h.proto
        BY ViewFields, Zenon
  <2> QED BY <1>2, <1>4, <2>1
<1>5. ASSUME h.len # 0 /\ h.proto = TCP /\ fit PROVE Facts
  <2>1. View(TRUE, h, d).valid = TRUE /\ View(TRUE, h, d).ip_hdr_len = h.len
        /\ View(TRUE, h, d).ip_proto = h.proto /\ View(TRUE, h, d).tcp_hdr_len = d
        BY DEF View
  <2> QED BY <1>2, <1>5, <2>1
<1>6. ASSUME h.len # 0 /\ h.proto = TCP /\ ~fit PROVE Facts
  <2>1. View(FALSE, h, 0).valid = FALSE /\ View(FALSE, h, 0).ip_hdr_len = h.len
        /\ View(FALSE, h, 0).ip_proto = h.proto
        BY ViewFields, Zenon
  <2> QED BY <1>2, <1>6, <2>1
<1>7. Facts
  <2> HIDE DEF Facts
  <2> QED BY <1>3, <1>4, <1>5, <1>6
<1> QED BY <1>7 DEF h, fit, d, r

\* The view puts what it found of a chain, or zero, into ip_hdr_len.
LEMMA IpPartIs ==
    ASSUME NEW x \in Captured
    PROVE  ip_part(x).len \in Nat
<1>1. x.chain \in Seq(NextHeader) /\ x.ihl \in 0 .. 15
      BY DEF Captured
<1> DEFINE cap(k) == chain_off(x, k) + 8 <= x.size /\ chain_off(x, k + 1) <= x.size
           ends == {k \in 1 .. 8 : ~(extends(header(x, k)) /\ cap(k))}
           m == Min(ends)
<1>2. NoHeader.len \in Nat
      BY DEF NoHeader
<1>3. parse_ipv4(x).len \in Nat
  <2>1. x.ihl * 4 \in Nat
        BY <1>1
  <2> QED BY <1>2, <2>1 DEF parse_ipv4
<1>4. parse_ipv6_chain(x).len \in Nat
  <2>1. CASE ends = {}
        BY <1>2, <2>1 DEF parse_ipv6_chain
  <2>2. CASE ends # {}
    <3>1. m \in ends
          BY <2>2, MinIs
    <3>2. m \in Nat \ {0}
          BY <3>1
    <3>3. chain_off(x, m) \in Nat
          BY <1>1, <3>2, ChainOffIs
    <3>4. \/ parse_ipv6_chain(x) = NoHeader
          \/ parse_ipv6_chain(x) = [len |-> chain_off(x, m), proto |-> header(x, m).kind]
          BY Zenon DEF parse_ipv6_chain
    <3> HIDE DEF m
    <3> QED BY <1>2, <3>3, <3>4
  <2> QED BY <2>1, <2>2
<1> QED BY <1>2, <1>3, <1>4 DEF ip_part

\* What the view takes for headers lies in the captured bytes.
LEMMA IpPartInside ==
    ASSUME NEW x \in Captured
    PROVE  ip_part(x).len <= x.size
<1>1. x.chain \in Seq(NextHeader) /\ x.size \in Nat
      BY DEF Captured
<1> DEFINE cap(k) == chain_off(x, k) + 8 <= x.size /\ chain_off(x, k + 1) <= x.size
           ends == {k \in 1 .. 8 : ~(extends(header(x, k)) /\ cap(k))}
           m == Min(ends)
<1>2. NoHeader.len = 0 /\ NoHeader.len <= x.size
      BY <1>1 DEF NoHeader
<1>3. parse_ipv4(x).len <= x.size
  <2>1. x.ihl * 4 \in Nat
    <3>1. x.ihl \in 0 .. 15
          BY DEF Captured
    <3> QED BY <3>1
  <2>2. ~(x.ihl * 4 > x.size) => x.ihl * 4 <= x.size
        BY <1>1, <2>1
  <2> QED BY <1>2, <2>2 DEF parse_ipv4
<1>4. parse_ipv6_chain(x).len <= x.size
  <2>1. CASE x.size < 40 \/ ends = {}
        BY <1>2, <2>1 DEF parse_ipv6_chain
  <2>2. CASE ~(x.size < 40) /\ ends # {}
    <3>1. m \in ends /\ \A k \in ends : m <= k
          BY <2>2, MinIs
    <3>2. m \in 1 .. 8
          BY <3>1
    <3>3. chain_off(x, m) <= x.size
      <4>1. CASE m = 1
        <5>1. chain_off(x, 1) = 40
          <6> DEFINE g == [j \in Nat |-> hlen(header(x, j))]
          <6>1. g \in [Nat -> Nat]
                BY <1>1, HeaderIs
          <6>2. chain_off(x, 1) = 40 + SumUpTo(g, 1 - 1)
                BY DEF chain_off
          <6> HIDE DEF g
          <6>3. SumUpTo(g, 0) = 0
                BY <6>1, SumUpToIs
          <6>4. 1 - 1 = 0 /\ 40 + 0 = 40
                OBVIOUS
          <6> QED BY <6>2, <6>3, <6>4
        <5> HIDE DEF m
        <5> QED BY <1>1, <2>2, <4>1, <5>1
      <4>2. CASE m # 1
        <5> HIDE DEF ends, m
        <5> DEFINE j == m - 1
        <5>1. j \in 1 .. 8 /\ j + 1 = m /\ ~(m <= j)
              BY <3>2, <4>2
        <5>2. j \notin ends
              BY <3>1, <5>1
        <5> HIDE DEF j
        <5>3. cap(j)
              BY <5>1, <5>2 DEF ends
        <5>4. chain_off(x, j + 1) <= x.size
              BY <5>3
        <5> QED BY <5>1, <5>4
      <4> QED BY <4>1, <4>2
    <3>4. \/ parse_ipv6_chain(x) = NoHeader
          \/ parse_ipv6_chain(x) = [len |-> chain_off(x, m), proto |-> header(x, m).kind]
          BY Zenon DEF parse_ipv6_chain
    <3> HIDE DEF m
    <3> QED BY <1>2, <3>3, <3>4
  <2> QED BY <2>1, <2>2
<1> QED BY <1>2, <1>3, <1>4 DEF ip_part

LEMMA HeadersInside ==
    ASSUME NEW x \in Captured, reset(x).valid
    PROVE  reset(x).ip_hdr_len + reset(x).tcp_hdr_len <= x.size
<1> DEFINE h == ip_part(x)
           d == x.doff * 4
           r == reset(x)
           s == x.size
<1>1. h.len \in Nat /\ h.len <= s /\ s \in Nat /\ d \in Nat
  <2>1. x.doff \in 0 .. 15 /\ s \in Nat
        BY DEF Captured
  <2> QED BY <2>1, IpPartIs, IpPartInside
<1>2. \/ r = View(FALSE, h, 0) \/ r = View(TRUE, h, 0)
      \/ r = View(TRUE, h, d) /\ ~(h.len + d > s)
      BY ResetIs, Zenon
<1>3. r.valid
      OBVIOUS
<1> HIDE DEF h, d, r, s
<1>4. r.ip_hdr_len + r.tcp_hdr_len <= s
  <2>1. CASE r = View(FALSE, h, 0)
        BY <1>3, <2>1 DEF View
  <2>2. CASE r = View(TRUE, h, 0)
    <3>1. r.ip_hdr_len = h.len /\ r.tcp_hdr_len = 0
          BY <2>2 DEF View
    <3> QED BY <1>1, <3>1
  <2>3. CASE r = View(TRUE, h, d) /\ ~(h.len + d > s)
    <3>1. r.ip_hdr_len = h.len /\ r.tcp_hdr_len = d
          BY <2>3 DEF View
    <3>2. ASSUME NEW n \in Nat, ~(n + d > s) PROVE n + d <= s
          BY <1>1, <3>2
    <3>3. h.len + d <= s
          BY <1>1, <2>3, <3>2
    <3> QED BY <3>1, <3>3
  <2> QED BY <1>2, <2>1, <2>2, <2>3
<1> QED BY <1>4 DEF r, s

-----------------------------------------------------------------------------
(* A packet as its sender built it *)

\* The chain of a well-formed IPv6 packet leads to its upper layer.
LEMMA ChainIsIpHeader ==
    ASSUME NEW x \in Captured, WellFormed(x), x.ver = 6
    PROVE  /\ Len(x.chain) \in Nat \ {0} /\ chain_off(x, Len(x.chain)) = IpHeader(x)
           /\ \A k \in 1 .. Len(x.chain) : chain_off(x, k) <= IpHeader(x)
           /\ \A k \in 1 .. Len(x.chain) - 1 : extends(header(x, k))
           /\ header(x, Len(x.chain)).kind = Upper(x)
<1> DEFINE N == Len(x.chain)
           f == [j \in Nat |-> hlen(header(x, j))]
           g == [k \in Nat |-> IF k \notin Before(x) THEN 0
                               ELSE IF x.chain[k].kind = AH THEN AuthLen(x.chain[k])
                               ELSE 8 + 8 * x.chain[k].len]
<1>1. x.chain \in Seq(NextHeader) /\ x.chain # <<>>
      BY DEF Captured, WellFormed
<1>2. N \in Nat /\ N # 0 /\ DOMAIN x.chain = 1 .. N
      BY <1>1
<1>3. \A k \in 1 .. N : header(x, k) = x.chain[k]
      BY <1>2 DEF header
<1>4. f \in [Nat -> Nat]
      BY <1>1, HeaderIs
<1>5. ASSUME NEW k \in 1 .. N - 1
      PROVE  k \in Before(x) /\ g[k] = f[k] /\ extends(header(x, k))
  <2>1. k \in Nat /\ k \in Before(x) /\ k \in 1 .. N
        BY <1>2 DEF Before
  <2>2. header(x, k) = x.chain[k]
        BY <1>3, <2>1
  <2>3. hlen(header(x, k)) \in Nat /\ header(x, k).len \in Nat
        BY <1>1, HeaderIs
  <2> DEFINE n == x.chain[k].len
  <2>4. n \in Nat
    <3>1. n = header(x, k).len
          BY <2>2
    <3> HIDE DEF n
    <3> QED BY <3>1, <2>3
  <2>5. (n + 2) * 4 = 4 * (n + 2) /\ (n + 1) * 8 = 8 + 8 * n
    <3> HIDE DEF n
    <3> QED BY <2>4
  <2>6. g[k] = f[k]
        BY <2>1, <2>2, <2>5 DEF hlen, AuthLen
  <2>7. extends(header(x, k))
        BY <2>1, <2>2 DEF WellFormed, extends
  <2> QED BY <2>1, <2>6, <2>7
<1>6. g \in [Nat -> Nat]
  <2>1. ASSUME NEW k \in Nat PROVE g[k] \in Nat
    <3>1. CASE k \in Before(x)
      <4>1. k \in 1 .. N - 1
            BY <1>2, <3>1 DEF Before
      <4> QED BY <1>4, <1>5, <4>1
    <3>2. CASE k \notin Before(x)
          BY <3>2
    <3> QED BY <3>1, <3>2
  <2> HIDE DEF f
  <2>2. g = [k \in Nat |-> g[k]]
        OBVIOUS
  <2> QED BY <2>1, <2>2, Zenon
<1>7. g[N] = 0
      BY <1>2 DEF Before
<1>8. IpHeader(x) = 40 + SumUpTo(g, N)
      BY DEF IpHeader, WellFormed
<1>9. \A k : chain_off(x, k) = 40 + SumUpTo(f, k - 1)
      BY DEF chain_off
<1>10. header(x, N).kind = Upper(x)
       BY <1>2, <1>3 DEF Upper
<1> HIDE DEF f, g, N
<1>11. SumUpTo(g, N) = SumUpTo(f, N - 1)
  <2>1. N - 1 \in Nat /\ (N - 1) + 1 = N
        BY <1>2
  <2>2. SumUpTo(g, N - 1) \in Nat /\ SumUpTo(g, (N - 1) + 1) = SumUpTo(g, N - 1) + g[(N - 1) + 1]
        BY <1>6, <2>1, SumUpToIs
  <2>3. SumUpTo(g, N - 1) = SumUpTo(f, N - 1)
        BY <1>4, <1>5, <1>6, <2>1, SameSum
  <2> QED BY <1>7, <2>1, <2>2, <2>3
<1>12. chain_off(x, N) = IpHeader(x)
       BY <1>8, <1>9, <1>11
<1>13. ASSUME NEW k \in 1 .. N PROVE chain_off(x, k) <= IpHeader(x)
  <2>1. k \in Nat \ {0} /\ N \in Nat /\ N >= k
        BY <1>2
  <2>2. chain_off(x, k) <= chain_off(x, N)
        BY <1>1, <2>1, ChainOffIs
  <2> QED BY <1>12, <2>2
<1> QED BY <1>2, <1>5, <1>10, <1>12, <1>13 DEF N

\* Eight headers are enough: the view finds the upper layer.
LEMMA ChainIsParsed ==
    ASSUME NEW x \in Captured, WellFormed(x), x.ver = 6, Len(x.chain) <= 8
    PROVE  parse_ipv6_chain(x) = [len |-> IpHeader(x), proto |-> Upper(x)]
           /\ IpHeader(x) \in Nat /\ IpHeader(x) >= 40
<1> DEFINE N == Len(x.chain)
           cap(k) == chain_off(x, k) + 8 <= x.size /\ chain_off(x, k + 1) <= x.size
           ends == {k \in 1 .. 8 : ~(extends(header(x, k)) /\ cap(k))}
<1>1. /\ N \in Nat \ {0} /\ chain_off(x, N) = IpHeader(x)
      /\ \A k \in 1 .. N : chain_off(x, k) <= IpHeader(x)
      /\ \A k \in 1 .. N - 1 : extends(header(x, k))
      /\ header(x, N).kind = Upper(x)
      BY ChainIsIpHeader
<1>2. x.chain \in Seq(NextHeader) /\ x.size \in Nat /\ x.udp_len \in Nat /\ x.doff \in Nat
  <2>1. /\ x.chain \in Seq(NextHeader) /\ x.size \in Nat
        /\ x.udp_len \in 0 .. MaxUint16 /\ x.doff \in 0 .. 15
        BY DEF Captured
  <2>2. x.udp_len \in Nat
        BY <2>1, Uint16IsNat
  <2>3. x.doff \in Nat
    <3>1. x.doff \in 0 .. 15
          BY DEF Captured
    <3> QED BY <3>1
  <2> QED BY <2>1, <2>2, <2>3
<1>3. IpHeader(x) \in Nat /\ IpHeader(x) >= 40
      BY <1>1, <1>2, ChainOffIs
<1>4. IpHeader(x) <= x.size
  <2> DEFINE i == IpHeader(x)
             d == x.doff
             s == x.size
             u == x.udp_len
  <2>1. s >= i + 4 * d \/ s = i + u \/ s >= i
        BY DEF WellFormed
  <2>2. i \in Nat /\ d \in Nat /\ s \in Nat /\ u \in Nat
        BY <1>2, <1>3
  <2> HIDE DEF i, d, s, u
  <2> QED BY <2>1, <2>2 DEF i, s
<1>5. ASSUME NEW k \in 1 .. N - 1 PROVE cap(k)
  <2>1. k \in Nat \ {0} /\ k + 1 \in 1 .. N
        BY <1>1
  <2>2. /\ chain_off(x, k) \in Nat /\ hlen(header(x, k)) \in Nat /\ hlen(header(x, k)) >= 8
        /\ chain_off(x, k + 1) = chain_off(x, k) + hlen(header(x, k))
        BY <1>2, <2>1, ChainOffIs, HeaderIs
  <2>3. chain_off(x, k + 1) <= IpHeader(x)
        BY <1>1, <2>1
  <2> HIDE DEF N
  <2> QED BY <1>2, <1>3, <1>4, <2>2, <2>3
<1>6. Upper(x) \notin Extensions \cup {FRAGMENT}
      BY Zenon DEF WellFormed
<1>7. N \in ends /\ \A k \in 1 .. N - 1 : k \notin ends
  <2>1. ~extends(header(x, N))
        BY <1>1, <1>6 DEF extends
  <2>2. N \in 1 .. 8
    <3>1. N \in Nat \ {0} /\ N <= 8
          BY <1>1
    <3> HIDE DEF N
    <3> QED BY <3>1
  <2> HIDE DEF N, cap
  <2> QED BY <1>1, <1>5, <2>1, <2>2
<1>8. Min(ends) = N
  <2>1. ends \in SUBSET Nat /\ ends # {}
    <3>1. ends \in SUBSET Nat
          OBVIOUS
    <3> HIDE DEF ends, N
    <3> QED BY <1>7, <3>1
  <2>2. Min(ends) \in ends /\ Min(ends) <= N
        BY <1>7, <2>1, MinIs
  <2>3. Min(ends) \in Nat \ {0}
        BY <2>2
  <2> DEFINE m == Min(ends)
  <2>4. m \in ends /\ m <= N /\ m \in Nat \ {0}
        BY <2>2, <2>3
  <2> HIDE DEF m, N, ends
  <2>5. ~(m \in 1 .. N - 1)
        BY <1>7, <2>4
  <2>6. m = N
        BY <1>1, <2>4, <2>5
  <2> QED BY <2>6 DEF m
<1>9. ~(x.size < 40) /\ ends # {}
  <2> HIDE DEF ends, N
  <2> QED BY <1>2, <1>3, <1>4, <1>7
<1>10. ~extends(header(x, N)) /\ header(x, N).kind # FRAGMENT
       BY <1>1, <1>6 DEF extends
<1>11. parse_ipv6_chain(x) = [len |-> chain_off(x, N), proto |-> header(x, N).kind]
  <2>1. parse_ipv6_chain(x) =
          IF x.size < 40 \/ ends = {} THEN NoHeader
          ELSE IF extends(header(x, Min(ends))) \/ header(x, Min(ends)).kind = FRAGMENT
          THEN NoHeader
          ELSE [len |-> chain_off(x, Min(ends)), proto |-> header(x, Min(ends)).kind]
        BY Zenon DEF parse_ipv6_chain
  <2> HIDE DEF ends, N
  <2> QED BY <1>8, <1>9, <1>10, <2>1
<1> QED BY <1>1, <1>3, <1>11

LEMMA NoWrap == ASSUME NEW n \in Nat, n <= 65535 PROVE n % 65536 = n
BY SMTT(60)

\* The headers the view finds are those the sender wrote.
LEMMA IpPartOfWellFormed ==
    ASSUME NEW x \in Captured, WellFormed(x), Len(x.chain) <= 8
    PROVE  /\ ip_part(x) = [len |-> IpHeader(x), proto |-> Upper(x)]
           /\ IpHeader(x) \in Nat /\ IpHeader(x) >= 20
           /\ ip_total_length(x) = x.size
<1> DEFINE i == IpHeader(x)
           d == x.doff
           s == x.size
           u == x.udp_len
           c == x.ihl
           n == x.length
<1>1. /\ c \in 0 .. 15 /\ s \in Nat /\ n \in 0 .. MaxUint16
      /\ d \in 0 .. 15 /\ u \in 0 .. MaxUint16
      BY DEF Captured
<1>2. \A m \in 0 .. MaxUint16 : m \in Nat
      BY Uint16IsNat
<1>3. /\ x.ver = 4 \/ x.ver = 6
      /\ x.size = x.length + (IF x.ver = 4 THEN 0 ELSE 40) /\ x.size <= MaxUint16
      /\ x.ver = 4 => x.ihl >= 5 /\ Len(x.chain) = 1
      BY DEF WellFormed
<1>4. s >= i + 4 * d \/ s = i + u \/ s >= i
      BY DEF WellFormed
<1>5. d \in Nat /\ s \in Nat /\ u \in Nat /\ c \in Nat /\ n \in Nat
  <2> HIDE DEF d, s, u, c, n
  <2> QED BY <1>1, <1>2
<1>6. CASE x.ver = 4
  <2>1. i = 4 * c /\ c >= 5 /\ s = n + 0
        BY <1>3, <1>6 DEF IpHeader
  <2>2. i \in Nat /\ i >= 20 /\ ~(s < 20) /\ ~(c * 4 < 20) /\ ~(c * 4 > s) /\ c * 4 = i
        /\ s = n
    <3> HIDE DEF i, d, s, u, c, n
    <3> QED BY <1>4, <1>5, <2>1
  <2>3. header(x, 1).kind = Upper(x)
    <3>1. Len(x.chain) = 1 /\ x.chain \in Seq(NextHeader)
          BY <1>3, <1>6 DEF Captured
    <3>2. 1 \in DOMAIN x.chain
          BY <3>1
    <3> QED BY <3>1, <3>2 DEF header, Upper
  <2>4. parse_ipv4(x) = [len |-> c * 4, proto |-> header(x, 1).kind]
        BY <2>2, Zenon DEF parse_ipv4
  <2>5. ip_part(x) = parse_ipv4(x)
        BY <1>6 DEF ip_part
  <2>6. ip_total_length(x) = n
        BY <1>6 DEF ip_total_length
  <2> HIDE DEF i, s, n, c
  <2>7. ip_part(x) = [len |-> i, proto |-> Upper(x)] /\ ip_total_length(x) = s
        BY <2>2, <2>3, <2>4, <2>5, <2>6
  <2> QED BY <2>2, <2>7 DEF i, s
<1>7. CASE x.ver = 6
  <2>1. parse_ipv6_chain(x) = [len |-> i, proto |-> Upper(x)] /\ i \in Nat /\ i >= 40
        BY <1>7, ChainIsParsed
  <2>2. ip_part(x) = parse_ipv6_chain(x)
        BY <1>7 DEF ip_part
  <2>3. ip_total_length(x) = (n + 40) % 65536
        BY <1>7, SMTT(60) DEF ip_total_length, MaxUint16
  <2>4. s = n + 40 /\ s <= 65535
        BY <1>3, <1>7, SMTT(60) DEF MaxUint16
  <2>5. (n + 40) % 65536 = s /\ i >= 20
    <3> HIDE DEF i, s, n
    <3>1. s \in Nat /\ s <= 65535
          BY <1>5, <2>4
    <3>2. i >= 20
          BY <2>1
    <3>3. s % 65536 = s
          BY <3>1, NoWrap
    <3> QED BY <2>4, <3>2, <3>3
  <2> QED BY <2>1, <2>2, <2>3, <2>5
<1> QED BY <1>3, <1>6, <1>7

\* What the view says of a packet whose lengths agree.
LEMMA WellFormedIsUnderstood ==
    ASSUME NEW x \in Captured, WellFormed(x), Len(x.chain) <= 8
    PROVE  LET v == reset(x)
           IN  /\ v.valid /\ v.ip_proto = Upper(x) /\ v.ip_hdr_len = IpHeader(x)
               /\ Upper(x) = TCP => payload_size(x) = x.size - IpHeader(x) - 4 * x.doff
               /\ Upper(x) = UDP => udp_payload_size(x) = x.size - IpHeader(x) - 8
<1> DEFINE v == reset(x)
           h == ip_part(x)
           i == IpHeader(x)
           d == x.doff
           s == x.size
           u == x.udp_len
           t == ip_total_length(x)
<1>1. /\ h = [len |-> i, proto |-> Upper(x)] /\ i \in Nat /\ i >= 20 /\ t = s
      BY IpPartOfWellFormed
<1>2. h.len = i /\ h.proto = Upper(x)
  <2> HIDE DEF h, i
  <2> QED BY <1>1
<1>3. s \in Nat /\ d \in 0 .. 15 /\ u \in 0 .. MaxUint16
      BY DEF Captured
<1>4. d \in Nat /\ u \in Nat
  <2>1. \A n \in 0 .. MaxUint16 : n \in Nat
        BY Uint16IsNat
  <2> HIDE DEF d, u
  <2> QED BY <1>3, <2>1
<1>5. v.ip_hdr_len = i /\ v.ip_proto = Upper(x)
      BY <1>2, ValidIs
<1>6. CASE Upper(x) = TCP
  <2>1. d >= 5 /\ s >= i + 4 * d
        BY <1>6 DEF WellFormed, TCP, UDP
  <2>2. /\ ~(s < i + 20) /\ ~(d * 4 < 20) /\ ~(i + d * 4 > s) /\ d * 4 = 4 * d
        /\ i + 4 * d \in Nat /\ s >= i + 4 * d /\ s - (i + 4 * d) = s - i - 4 * d
    <3> HIDE DEF i, d, s
    <3> QED BY <1>1, <1>3, <1>4, <2>1
  <2>3. Fits(x)
        BY <1>2, <2>2 DEF Fits
  <2>4. h.len # 0 /\ h.proto = TCP
    <3> HIDE DEF h, i
    <3> QED BY <1>1, <1>2, <1>6
  <2>5. v.valid /\ v.tcp_hdr_len = d * 4
        BY <2>3, <2>4, ValidIs
  <2>6. payload_size(x) = IF v.valid /\ v.ip_proto = TCP /\ t >= v.ip_hdr_len + v.tcp_hdr_len
                          THEN t - (v.ip_hdr_len + v.tcp_hdr_len) ELSE 0
        BY Zenon DEF payload_size, payload_in
  <2>7. payload_size(x) = s - i - 4 * d
    <3> HIDE DEF v, i, d, s, t
    <3> QED BY <1>1, <1>5, <1>6, <2>2, <2>5, <2>6
  <2> QED BY <1>5, <1>6, <2>5, <2>7 DEF UDP, TCP
<1>7. CASE Upper(x) # TCP
  <2>1. h.len # 0 /\ h.proto # TCP
    <3> HIDE DEF h, i
    <3> QED BY <1>1, <1>2, <1>7
  <2>2. v = View(TRUE, h, 0)
    <3> HIDE DEF h
    <3> QED BY <2>1, ResetIs, Zenon DEF h
  <2>3. v.valid
        BY <2>2 DEF View
  <2>4. ASSUME Upper(x) = UDP PROVE udp_payload_size(x) = s - i - 8
    <3>1. u >= 8 /\ s = i + u
          BY <2>4 DEF WellFormed, UDP, TCP
    <3>2. udp_payload_size(x) =
            IF /\ v.valid /\ v.ip_proto = UDP /\ v.ip_hdr_len + 8 <= s
               /\ u >= 8 /\ t >= v.ip_hdr_len + u
            THEN u - 8 ELSE 0
          BY Zenon DEF udp_payload_size
    <3>3. i + 8 <= s /\ u >= 8 /\ s >= i + u /\ u - 8 = s - i - 8
      <4> HIDE DEF i, s, u
      <4> QED BY <1>1, <1>3, <1>4, <3>1
    <3> HIDE DEF v, i, s, u, t
    <3> QED BY <1>1, <1>5, <2>3, <2>4, <3>2, <3>3
  <2> QED BY <1>5, <1>7, <2>3, <2>4
<1> QED BY <1>6, <1>7

\* Every packet whose lengths agree is understood as it was built, for header lengths,
\* chains of up to seven extension headers and payloads of any size, and whatever its
\* fields claim, the headers the view takes were captured (packet.cpp:19-100, 169-192).
THEOREM PacketsAreUnderstood == InspectSpec => []PacketIsUnderstood
<1>1. InspectInv => PacketIsUnderstood
  <2> SUFFICES ASSUME InspectInv, packet # NoPacket PROVE PacketIsUnderstood
      BY DEF PacketIsUnderstood
  <2> DEFINE x == packet.ip
  <2>1. x \in Captured
        BY InspectionAssumption, PayloadIs
  <2> HIDE DEF x
  <2>2. WellFormed(x) /\ Len(x.chain) <= 8 =>
          /\ reset(x).valid /\ reset(x).ip_proto = Upper(x)
          /\ reset(x).ip_hdr_len = IpHeader(x)
          /\ Upper(x) = TCP => payload_size(x) = x.size - IpHeader(x) - 4 * x.doff
          /\ Upper(x) = UDP => udp_payload_size(x) = x.size - IpHeader(x) - 8
        BY <2>1, WellFormedIsUnderstood, Zenon
  <2>3. reset(x).valid => reset(x).ip_hdr_len + reset(x).tcp_hdr_len <= x.size
        BY <2>1, HeadersInside
  <2> QED BY <2>2, <2>3, Zenon DEF PacketIsUnderstood, x
<1> QED BY <1>1, InspectInvHolds, PTL

-----------------------------------------------------------------------------
(* The labels of a name *)

Name  == Seq(Char)
Parts == {l \in Seq(Name) : l # <<>>}

\* One character more: a dot begins a label, any other lengthens the last one.
Longer(l, c) == IF c = "." THEN Append(l, <<>>)
                ELSE [l EXCEPT ![Len(l)] = Append(@, c)]

LEMMA LongerIs ==
    ASSUME NEW l \in Parts, NEW c \in Char
    PROVE  /\ Longer(l, c) \in Parts
           /\ c = "." => /\ Len(Longer(l, c)) = Len(l) + 1
                         /\ Longer(l, c)[Len(l) + 1] = <<>>
                         /\ \A k \in 1 .. Len(l) : Longer(l, c)[k] = l[k]
           /\ c # "." => /\ Len(Longer(l, c)) = Len(l)
                         /\ Longer(l, c)[Len(l)] = Append(l[Len(l)], c)
                         /\ \A k \in 1 .. Len(l) - 1 : Longer(l, c)[k] = l[k]
<1>1. l \in Seq(Name) /\ Len(l) \in Nat /\ Len(l) >= 1
      BY DEF Parts
<1>2. CASE c = "."
  <2>1. Longer(l, c) = Append(l, <<>>) /\ <<>> \in Name
        BY <1>2 DEF Longer, Name
  <2> QED BY <1>1, <1>2, <2>1 DEF Parts
<1>3. CASE c # "."
  <2> DEFINE n == Len(l)
  <2>1. Longer(l, c) = [l EXCEPT ![n] = Append(l[n], c)]
        BY <1>3 DEF Longer
  <2>2. n \in 1 .. Len(l) /\ l[n] \in Name
        BY <1>1
  <2>3. Append(l[n], c) \in Name
        BY <2>2 DEF Name
  <2> QED BY <1>1, <1>3, <2>1, <2>2, <2>3 DEF Parts
<1> QED BY <1>2, <1>3

\* The function Labels defines.
IsLabels(s, l) ==
    l = [k \in 0 .. Len(s) |->
           IF k = 0 THEN << <<>> >>
           ELSE IF k \in {j \in DOMAIN s : s[j] = "."} THEN Append(l[k - 1], <<>>)
           ELSE [l[k - 1] EXCEPT ![Len(l[k - 1])] = Append(@, s[k])]]
LabelsOf(s) == CHOOSE l : IsLabels(s, l)

LEMMA LabelsAre == ASSUME NEW s PROVE Labels(s) = LabelsOf(s)[Len(s)]
BY DEF Labels, LabelsOf, IsLabels

LEMMA IsLabelsIs ==
    ASSUME NEW s \in Name, NEW l,
           l = [k \in 0 .. Len(s) |-> l[k]], l[0] = << <<>> >>,
           \A k \in 1 .. Len(s) : l[k] = Longer(l[k - 1], s[k])
    PROVE  IsLabels(s, l)
<1>1. s \in Seq(Char) /\ Len(s) \in Nat /\ DOMAIN s = 1 .. Len(s)
      BY DEF Name
<1>2. ASSUME NEW k \in 0 .. Len(s)
      PROVE  l[k] = IF k = 0 THEN << <<>> >>
                    ELSE IF k \in {j \in DOMAIN s : s[j] = "."} THEN Append(l[k - 1], <<>>)
                    ELSE [l[k - 1] EXCEPT ![Len(l[k - 1])] = Append(@, s[k])]
  <2>1. k # 0 => k \in 1 .. Len(s)
        BY <1>1
  <2> QED BY <1>1, <2>1 DEF Longer
<1> QED BY <1>2 DEF IsLabels

LEMMA LabelsExist ==
    ASSUME NEW s \in Name
    PROVE  \E l : IsLabels(s, l)
<1> DEFINE n == Len(s)
           G == [p \in Nat \X Parts |-> IF p[1] < n THEN Longer(p[2], s[p[1] + 1]) ELSE p[2]]
<1>1. n \in Nat /\ \A k \in 1 .. n : s[k] \in Char
      BY DEF Name
<1>2. G \in [Nat \X Parts -> Parts]
  <2>1. ASSUME NEW p \in Nat \X Parts
        PROVE  (IF p[1] < n THEN Longer(p[2], s[p[1] + 1]) ELSE p[2]) \in Parts
    <3>1. p[1] \in Nat /\ p[2] \in Parts
          OBVIOUS
    <3>2. p[1] < n => s[p[1] + 1] \in Char
      <4>1. p[1] < n => p[1] + 1 \in 1 .. n
            BY <1>1, <3>1
      <4> QED BY <1>1, <4>1
    <3> QED BY <3>1, <3>2, LongerIs
  <2> HIDE DEF n
  <2> QED BY <2>1
<1>3. << <<>> >> \in Parts
      BY DEF Parts, Name
<1> HIDE DEF n
<1>4. \A k \in Nat, l \in Parts : k < n => G[<<k, l>>] = Longer(l, s[k + 1])
      OBVIOUS
<1> HIDE DEF G
<1>5. PICK f : Recursion(f, Parts, << <<>> >>, G)
      BY <1>2, <1>3, RecursionExists
<1> DEFINE l == [k \in 0 .. n |-> f[k]]
<1>6. l = [k \in 0 .. n |-> l[k]] /\ l[0] = << <<>> >>
      BY <1>1, <1>5 DEF Recursion
<1>7. ASSUME NEW k \in 1 .. n PROVE l[k] = Longer(l[k - 1], s[k])
  <2>1. k - 1 \in Nat /\ k - 1 \in 0 .. n /\ k \in 0 .. n /\ k - 1 < n /\ (k - 1) + 1 = k
        BY <1>1
  <2>2. f[k - 1] \in Parts /\ f[(k - 1) + 1] = G[<<k - 1, f[k - 1]>>]
        BY <1>5, <2>1 DEF Recursion
  <2>3. G[<<k - 1, f[k - 1]>>] = Longer(f[k - 1], s[(k - 1) + 1])
        BY <1>4, <2>1, <2>2
  <2> QED BY <2>1, <2>2, <2>3
<1> HIDE DEF l
<1> QED BY <1>6, <1>7, IsLabelsIs DEF n

LEMMA LabelsOfIs ==
    ASSUME NEW s \in Name
    PROVE  /\ LabelsOf(s)[0] = << <<>> >>
           /\ \A k \in 1 .. Len(s) : LabelsOf(s)[k] = Longer(LabelsOf(s)[k - 1], s[k])
           /\ \A k \in 0 .. Len(s) : LabelsOf(s)[k] \in Parts
<1> DEFINE l == LabelsOf(s)
           n == Len(s)
<1>1. IsLabels(s, l)
      BY LabelsExist DEF LabelsOf
<1>2. n \in Nat /\ DOMAIN s = 1 .. n /\ \A k \in 1 .. n : s[k] \in Char
      BY DEF Name
<1> HIDE DEF l
<1>3. \A k \in 0 .. n : l[k] = IF k = 0 THEN << <<>> >>
                               ELSE IF k \in {j \in DOMAIN s : s[j] = "."}
                               THEN Append(l[k - 1], <<>>)
                               ELSE [l[k - 1] EXCEPT ![Len(l[k - 1])] = Append(@, s[k])]
      BY <1>1, Zenon DEF IsLabels
<1>4. l[0] = << <<>> >>
  <2>1. 0 \in 0 .. n
        BY <1>2
  <2> QED BY <1>3, <2>1
<1>5. ASSUME NEW k \in 1 .. n PROVE l[k] = Longer(l[k - 1], s[k])
  <2>1. k \in 0 .. n /\ k # 0 /\ k \in DOMAIN s
        BY <1>2
  <2> QED BY <1>3, <2>1 DEF Longer
<1> DEFINE I == {k \in Nat : k <= n => l[k] \in Parts}
<1>6. 0 \in I
  <2>1. << <<>> >> \in Parts
        BY DEF Parts, Name
  <2> QED BY <1>4, <2>1
<1>7. ASSUME NEW k \in I PROVE k + 1 \in I
  <2> SUFFICES ASSUME k + 1 <= n PROVE l[k + 1] \in Parts
      OBVIOUS
  <2>1. k \in Nat /\ k + 1 \in 1 .. n /\ (k + 1) - 1 = k /\ l[k] \in Parts
        BY <1>2
  <2>2. l[k + 1] = Longer(l[k], s[k + 1]) /\ s[k + 1] \in Char
        BY <1>2, <1>5, <2>1
  <2> QED BY <2>1, <2>2, LongerIs
<1>8. I \in SUBSET Nat
      OBVIOUS
<1> HIDE DEF I
<1>9. I = Nat
      BY <1>6, <1>7, <1>8, AllNaturals
<1>10. \A k \in 0 .. n : l[k] \in Parts
       BY <1>9 DEF I
<1> QED BY <1>4, <1>5, <1>10 DEF l

\* What a reader of Labels expects.
LEMMA LabelsIs ==
    /\ Labels(<<>>) = << <<>> >>
    /\ \A s \in Name : Labels(s) \in Parts
    /\ \A s \in Name, c \in Char : Labels(Append(s, c)) = Longer(Labels(s), c)
<1>1. Labels(<<>>) = << <<>> >>
  <2>1. <<>> \in Name /\ Len(<<>>) = 0
        BY DEF Name
  <2> QED BY <2>1, LabelsOfIs, LabelsAre
<1>2. ASSUME NEW s \in Name PROVE Labels(s) \in Parts
  <2>1. Len(s) \in 0 .. Len(s)
        BY DEF Name
  <2> QED BY <2>1, LabelsOfIs, LabelsAre
<1>3. ASSUME NEW s \in Name, NEW c \in Char
      PROVE  Labels(Append(s, c)) = Longer(Labels(s), c)
  <2> DEFINE t == Append(s, c)
             a == LabelsOf(s)
             b == LabelsOf(t)
             n == Len(s)
  <2>1. /\ t \in Name /\ n \in Nat /\ Len(t) = n + 1 /\ t[n + 1] = c
        /\ \A k \in 1 .. n : t[k] = s[k]
        BY DEF Name
  <2>2. a[0] = << <<>> >> /\ \A k \in 1 .. n : a[k] = Longer(a[k - 1], s[k])
        BY LabelsOfIs
  <2>3. b[0] = << <<>> >> /\ \A k \in 1 .. n + 1 : b[k] = Longer(b[k - 1], t[k])
        BY <2>1, LabelsOfIs
  <2>4. Labels(s) = a[n] /\ Labels(t) = b[n + 1]
        BY <2>1, LabelsAre
  <2> HIDE DEF a, b, t, n
  <2> DEFINE I == {k \in Nat : k <= n => a[k] = b[k]}
  <2>5. 0 \in I
        BY <2>2, <2>3
  <2>6. ASSUME NEW k \in I PROVE k + 1 \in I
    <3> SUFFICES ASSUME k + 1 <= n PROVE a[k + 1] = b[k + 1]
        OBVIOUS
    <3>1. /\ k \in Nat /\ k + 1 \in 1 .. n /\ k + 1 \in 1 .. n + 1 /\ (k + 1) - 1 = k
          /\ a[k] = b[k]
          BY <2>1
    <3> QED BY <2>1, <2>2, <2>3, <3>1
  <2>7. I \in SUBSET Nat
        OBVIOUS
  <2> HIDE DEF I
  <2>8. I = Nat
        BY <2>5, <2>6, <2>7, AllNaturals
  <2>9. a[n] = b[n]
        BY <2>1, <2>8 DEF I
  <2>10. b[n + 1] = Longer(b[n], c)
    <3>1. n + 1 \in 1 .. n + 1 /\ (n + 1) - 1 = n
          BY <2>1
    <3> QED BY <2>1, <2>3, <3>1
  <2>11. Labels(t) = Longer(Labels(s), c)
         BY <2>4, <2>9, <2>10
  <2> QED BY <2>11 DEF t
<1> QED BY <1>1, <1>2, <1>3

LEMMA LastOf ==
    ASSUME NEW S, NEW s \in Seq(S), s # <<>>
    PROVE  \E t \in Seq(S), c \in S : s = Append(t, c) /\ Len(s) = Len(t) + 1
<1> DEFINE n == Len(s)
           t == [k \in 1 .. n - 1 |-> s[k]]
<1>1. n \in Nat /\ n # 0 /\ DOMAIN s = 1 .. n /\ \A k \in 1 .. n : s[k] \in S
      OBVIOUS
<1>2. t \in Seq(S) /\ Len(t) = n - 1 /\ s[n] \in S
  <2>1. n - 1 \in Nat /\ n \in 1 .. n /\ \A k \in 1 .. n - 1 : s[k] \in S
        BY <1>1
  <2> HIDE DEF n
  <2> QED BY <1>1, <2>1
<1>3. s = Append(t, s[n])
  <2>1. Append(t, s[n]) \in Seq(S) /\ Len(Append(t, s[n])) = n
        BY <1>1, <1>2
  <2>2. ASSUME NEW k \in 1 .. n PROVE Append(t, s[n])[k] = s[k]
    <3> HIDE DEF n
    <3>1. k # n => k \in 1 .. n - 1
          BY <1>1
    <3>2. k # n => t[k] = s[k]
          BY <3>1
    <3>3. Len(t) = n - 1 /\ (n - 1) + 1 = n
          BY <1>1, <1>2
    <3> HIDE DEF t
    <3>4. k # n => Append(t, s[n])[k] = t[k]
          BY <1>1, <1>2, <3>1, <3>3
    <3>5. Append(t, s[n])[n] = s[n]
          BY <1>1, <1>2, <3>3
    <3> QED BY <3>2, <3>4, <3>5
  <2>3. Len(s) = n
        OBVIOUS
  <2> HIDE DEF t, n
  <2> QED BY <2>1, <2>2, <2>3
<1>4. Len(s) = Len(t) + 1
  <2>1. Len(s) = n
        OBVIOUS
  <2> HIDE DEF n, t
  <2> QED BY <1>1, <1>2, <2>1
<1> HIDE DEF n, t
<1> QED BY <1>2, <1>3, <1>4

\* s is the end of t, and t is longer.
StrictEnd(s, t) == /\ Len(s) < Len(t)
                   /\ \A k \in 1 .. Len(s) : s[k] = t[Len(t) - Len(s) + k]

LEMMA SuffixIs ==
    ASSUME NEW S, NEW s \in Seq(S), NEW t \in Seq(S), Len(s) <= Len(t)
    PROVE  IsSuffix(s, t) <=> \A k \in 1 .. Len(s) : s[k] = t[Len(t) - Len(s) + k]
<1> DEFINE m == Len(s)
           n == Len(t)
           u == Reverse(s)
           v == Reverse(t)
<1>1. m \in Nat /\ n \in Nat /\ m <= n
      OBVIOUS
<1>2. /\ u \in Seq(S) /\ Len(u) = m /\ \A k \in 1 .. m : u[k] = s[(m - k) + 1]
      /\ v \in Seq(S) /\ Len(v) = n /\ \A k \in 1 .. n : v[k] = t[(n - k) + 1]
      BY DEF Reverse
<1> HIDE DEF u, v
<1>3. IsSuffix(s, t) <=> SubSeq(u, 1, m) = SubSeq(v, 1, m)
      BY <1>1, <1>2 DEF IsSuffix, IsPrefix, u, v
<1>4. SubSeq(u, 1, m) = SubSeq(v, 1, m) <=> \A k \in 1 .. m : u[k] = v[k]
  <2>1. /\ SubSeq(u, 1, m) \in Seq(S) /\ Len(SubSeq(u, 1, m)) = m
        /\ \A k \in 1 .. m : SubSeq(u, 1, m)[k] = u[k]
        BY <1>1, <1>2
  <2>2. /\ SubSeq(v, 1, m) \in Seq(S) /\ Len(SubSeq(v, 1, m)) = m
        /\ \A k \in 1 .. m : SubSeq(v, 1, m)[k] = v[k]
        BY <1>1, <1>2
  <2> QED BY <2>1, <2>2
<1> HIDE DEF m, n
<1>5. ASSUME \A k \in 1 .. m : u[k] = v[k], NEW k \in 1 .. m PROVE s[k] = t[(n - m) + k]
  <2>1. /\ (m - k) + 1 \in 1 .. m /\ (m - k) + 1 \in 1 .. n
        /\ (m - ((m - k) + 1)) + 1 = k /\ (n - ((m - k) + 1)) + 1 = (n - m) + k
        BY <1>1
  <2>2. u[(m - k) + 1] = s[k] /\ v[(m - k) + 1] = t[(n - m) + k]
        BY <1>2, <2>1
  <2> QED BY <1>5, <2>1, <2>2
<1>6. ASSUME \A k \in 1 .. m : s[k] = t[(n - m) + k], NEW k \in 1 .. m PROVE u[k] = v[k]
  <2>1. /\ (m - k) + 1 \in 1 .. m /\ k \in 1 .. n
        /\ (n - m) + ((m - k) + 1) = (n - k) + 1
        BY <1>1
  <2>2. u[k] = s[(m - k) + 1] /\ v[k] = t[(n - k) + 1]
        BY <1>2, <2>1
  <2>3. s[(m - k) + 1] = t[(n - m) + ((m - k) + 1)]
        BY <1>6, <2>1
  <2> QED BY <2>1, <2>2, <2>3
<1>7. (\A k \in 1 .. m : u[k] = v[k]) <=> (\A k \in 1 .. m : s[k] = t[(n - m) + k])
      BY <1>5, <1>6
<1> QED BY <1>3, <1>4, <1>7 DEF m, n

\* To end with a last element of one's own.
LEMMA StrictEndLonger ==
    ASSUME NEW S, NEW s \in Seq(S), NEW t \in Seq(S), NEW c \in S, NEW d \in S
    PROVE  StrictEnd(Append(s, c), Append(t, d)) <=> c = d /\ StrictEnd(s, t)
<1> DEFINE m == Len(s)
           n == Len(t)
           u == Append(s, c)
           v == Append(t, d)
<1>1. /\ m \in Nat /\ n \in Nat
      /\ Len(u) = m + 1 /\ u[m + 1] = c /\ \A k \in 1 .. m : u[k] = s[k]
      /\ Len(v) = n + 1 /\ v[n + 1] = d /\ \A k \in 1 .. n : v[k] = t[k]
      OBVIOUS
<1> HIDE DEF u, v
<1>2. StrictEnd(u, v) <=> m + 1 < n + 1 /\ \A k \in 1 .. m + 1 : u[k] = v[(n + 1) - (m + 1) + k]
      BY <1>1 DEF StrictEnd
<1>3. StrictEnd(s, t) <=> m < n /\ \A k \in 1 .. m : s[k] = t[n - m + k]
      BY DEF StrictEnd
<1> HIDE DEF m, n
<1>4. ASSUME m < n, NEW k \in 1 .. m
      PROVE  u[k] = s[k] /\ v[(n + 1) - (m + 1) + k] = t[n - m + k]
  <2>1. (n + 1) - (m + 1) + k = n - m + k /\ n - m + k \in 1 .. n
        BY <1>1, <1>4
  <2> QED BY <1>1, <2>1
<1>5. (n + 1) - (m + 1) + (m + 1) = n + 1
      BY <1>1
<1>6. \A k : k \in 1 .. m + 1 <=> k = m + 1 \/ k \in 1 .. m
      BY <1>1
<1>7. m + 1 < n + 1 <=> m < n
      BY <1>1
<1> QED
  <2>1. ASSUME StrictEnd(u, v) PROVE c = d /\ StrictEnd(s, t)
    <3>1. u[m + 1] = v[(n + 1) - (m + 1) + (m + 1)]
          BY <1>2, <1>6, <2>1
    <3>2. \A k \in 1 .. m : u[k] = v[(n + 1) - (m + 1) + k]
          BY <1>2, <1>6, <2>1
    <3> QED BY <1>1, <1>2, <1>3, <1>4, <1>5, <1>7, <2>1, <3>1, <3>2
  <2>2. ASSUME c = d, StrictEnd(s, t) PROVE StrictEnd(u, v)
    <3>1. u[m + 1] = v[(n + 1) - (m + 1) + (m + 1)]
          BY <1>1, <1>5, <2>2
    <3>2. \A k \in 1 .. m : u[k] = v[(n + 1) - (m + 1) + k]
          BY <1>3, <1>4, <2>2
    <3> QED BY <1>2, <1>3, <1>6, <1>7, <2>2, <3>1, <3>2
  <2> QED BY <2>1, <2>2 DEF u, v

\* On two names that grow by a character each, labels agree to the end as they did.
LEMMA LabelsLonger ==
    ASSUME NEW l \in Parts, NEW m \in Parts, NEW c \in Char, NEW d \in Char
    PROVE  StrictEnd(Longer(l, c), Longer(m, d)) <=> c = d /\ StrictEnd(l, m)
<1> DEFINE i == Len(l)
           j == Len(m)
           u == Longer(l, c)
           v == Longer(m, d)
<1>1. /\ i \in Nat /\ i >= 1 /\ j \in Nat /\ j >= 1
      /\ l \in Seq(Name) /\ m \in Seq(Name) /\ l[i] \in Seq(Char) /\ m[j] \in Seq(Char)
      BY DEF Parts, Name
<1>2. ASSUME NEW s \in Seq(Char), NEW e \in Char PROVE Append(s, e) # <<>>
  <2>1. Len(Append(s, e)) = Len(s) + 1 /\ Len(s) \in Nat /\ Len(<<>>) = 0
        OBVIOUS
  <2> QED BY <2>1
<1>3. CASE c = "." /\ d = "."
  <2>1. u = Append(l, <<>>) /\ v = Append(m, <<>>) /\ <<>> \in Name
        BY <1>3 DEF Longer, Name
  <2>2. StrictEnd(Append(l, <<>>), Append(m, <<>>)) <=> <<>> = <<>> /\ StrictEnd(l, m)
        BY <1>1, <2>1, StrictEndLonger
  <2> QED BY <1>3, <2>1, <2>2
<1>4. CASE c = "." /\ d # "."
  <2>1. /\ Len(u) = i + 1 /\ u[i + 1] = <<>>
        /\ Len(v) = j /\ v[j] = Append(m[j], d)
        BY <1>4, LongerIs
  <2>2. ASSUME StrictEnd(u, v) PROVE FALSE
    <3>1. u[i + 1] = v[j - (i + 1) + (i + 1)] /\ j - (i + 1) + (i + 1) = j
          BY <1>1, <2>1, <2>2 DEF StrictEnd
    <3> HIDE DEF u, v, i, j
    <3> QED BY <1>1, <1>2, <2>1, <3>1
  <2> QED BY <1>4, <2>2
<1>5. CASE c # "." /\ d = "."
  <2>1. /\ Len(v) = j + 1 /\ v[j + 1] = <<>>
        /\ Len(u) = i /\ u[i] = Append(l[i], c)
        BY <1>5, LongerIs
  <2>2. ASSUME StrictEnd(u, v) PROVE FALSE
    <3>1. u[i] = v[(j + 1) - i + i] /\ (j + 1) - i + i = j + 1
          BY <1>1, <2>1, <2>2 DEF StrictEnd
    <3> HIDE DEF u, v, i, j
    <3> QED BY <1>1, <1>2, <2>1, <3>1
  <2> QED BY <1>5, <2>2
<1>6. CASE c # "." /\ d # "."
  <2>1. /\ Len(u) = i /\ u[i] = Append(l[i], c) /\ \A k \in 1 .. i - 1 : u[k] = l[k]
        /\ Len(v) = j /\ v[j] = Append(m[j], d) /\ \A k \in 1 .. j - 1 : v[k] = m[k]
        BY <1>6, LongerIs
  <2>2. StrictEnd(u, v) <=> i < j /\ \A k \in 1 .. i : u[k] = v[j - i + k]
        BY <2>1 DEF StrictEnd
  <2>3. StrictEnd(l, m) <=> i < j /\ \A k \in 1 .. i : l[k] = m[j - i + k]
        BY DEF StrictEnd
  <2> HIDE DEF u, v, i, j
  <2>4. u[i] = v[j] <=> c = d /\ l[i] = m[j]
    <3>1. ASSUME NEW s \in Seq(Char), NEW t \in Seq(Char), Append(s, c) = Append(t, d)
          PROVE  c = d /\ s = t
      <4>1. Len(s) + 1 = Len(t) + 1
            BY <3>1
      <4>2. Append(s, c)[Len(s) + 1] = c /\ Append(t, d)[Len(t) + 1] = d
            OBVIOUS
      <4>3. Len(s) = Len(t)
            BY <4>1
      <4>4. ASSUME NEW k \in 1 .. Len(s) PROVE s[k] = t[k]
        <5>1. Append(s, c)[k] = s[k] /\ Append(t, d)[k] = t[k]
              BY <4>3
        <5> QED BY <3>1, <5>1
      <4> QED BY <3>1, <4>2, <4>3, <4>4
    <3> QED BY <1>1, <2>1, <3>1
  <2>5. ASSUME i < j, NEW k \in 1 .. i - 1
        PROVE  u[k] = l[k] /\ v[j - i + k] = m[j - i + k]
    <3>1. j - i + k \in 1 .. j - 1
          BY <1>1, <2>5
    <3> QED BY <2>1, <3>1
  <2>6. (\A k : k \in 1 .. i <=> k = i \/ k \in 1 .. i - 1) /\ j - i + i = j
        BY <1>1
  <2> QED BY <1>6, <2>2, <2>3, <2>4, <2>5, <2>6 DEF u, v
<1> QED BY <1>3, <1>4, <1>5, <1>6

\* What should_apply compares byte by byte, the rules say on labels.
LEMMA BelowIs ==
    ASSUME NEW g \in Name, NEW y \in Name
    PROVE  /\ dot_suffix_match(g, y) <=> /\ Len(g) > Len(y) /\ g[Len(g) - Len(y)] = "."
                                         /\ StrictEnd(y, g)
           /\ Below(g, y) <=> StrictEnd(Labels(y), Labels(g))
<1>1. g \in Seq(Char) /\ y \in Seq(Char)
      BY DEF Name
<1>2. Labels(g) \in Seq(Name) /\ Labels(y) \in Seq(Name)
      BY LabelsIs DEF Parts
<1>3. \A a, b \in Nat : a > b <=> b < a
      OBVIOUS
<1>4. \A a, b \in Nat : a > b => b <= a
      OBVIOUS
<1>5. Len(g) > Len(y) => (IsSuffix(y, g) <=> StrictEnd(y, g))
      BY <1>1, SuffixIs DEF StrictEnd
<1>6. Len(Labels(g)) > Len(Labels(y)) =>
        (IsSuffix(Labels(y), Labels(g)) <=> StrictEnd(Labels(y), Labels(g)))
      BY <1>2, SuffixIs DEF StrictEnd
<1>7. StrictEnd(Labels(y), Labels(g)) => Len(Labels(g)) > Len(Labels(y))
      BY <1>2 DEF StrictEnd
<1> QED BY <1>5, <1>6, <1>7 DEF dot_suffix_match, Below

LEMMA DotMatchLonger ==
    ASSUME NEW g \in Name, NEW y \in Name, NEW c \in Char, NEW d \in Char
    PROVE  dot_suffix_match(Append(g, d), Append(y, c)) <=> c = d /\ dot_suffix_match(g, y)
<1> DEFINE n == Len(g)
           m == Len(y)
           u == Append(g, d)
           v == Append(y, c)
<1>1. g \in Seq(Char) /\ y \in Seq(Char)
      BY DEF Name
<1>2. /\ n \in Nat /\ m \in Nat /\ u \in Name /\ v \in Name
      /\ Len(u) = n + 1 /\ Len(v) = m + 1 /\ \A k \in 1 .. n : u[k] = g[k]
      BY <1>1 DEF Name
<1>3. StrictEnd(v, u) <=> c = d /\ StrictEnd(y, g)
      BY <1>1, StrictEndLonger
<1>4. dot_suffix_match(u, v) <=> Len(u) > Len(v) /\ u[Len(u) - Len(v)] = "." /\ StrictEnd(v, u)
      BY <1>2, BelowIs
<1>5. dot_suffix_match(g, y) <=> n > m /\ g[n - m] = "." /\ StrictEnd(y, g)
      BY BelowIs
<1> HIDE DEF u, v, n, m
<1>6. n + 1 > m + 1 <=> n > m
      BY <1>2
<1>7. ASSUME n > m PROVE u[(n + 1) - (m + 1)] = g[n - m]
  <2>1. (n + 1) - (m + 1) = n - m /\ n - m \in 1 .. n
        BY <1>2, <1>7
  <2> QED BY <1>2, <2>1
<1>8. dot_suffix_match(u, v) <=> c = d /\ dot_suffix_match(g, y)
      BY <1>2, <1>3, <1>4, <1>5, <1>6, <1>7
<1> QED BY <1>8 DEF u, v

LEMMA BelowLonger ==
    ASSUME NEW g \in Name, NEW y \in Name, NEW c \in Char, NEW d \in Char
    PROVE  Below(Append(g, d), Append(y, c)) <=> c = d /\ Below(g, y)
<1>1. Append(g, d) \in Name /\ Append(y, c) \in Name
      BY DEF Name
<1>2. Below(Append(g, d), Append(y, c))
        <=> StrictEnd(Labels(Append(y, c)), Labels(Append(g, d)))
      BY <1>1, BelowIs
<1>3. Below(g, y) <=> StrictEnd(Labels(y), Labels(g))
      BY BelowIs
<1>4. /\ Labels(Append(y, c)) = Longer(Labels(y), c)
      /\ Labels(Append(g, d)) = Longer(Labels(g), d)
      /\ Labels(y) \in Parts /\ Labels(g) \in Parts
      BY LabelsIs
<1>5. StrictEnd(Longer(Labels(y), c), Longer(Labels(g), d))
        <=> c = d /\ StrictEnd(Labels(y), Labels(g))
      BY <1>4, LabelsLonger
<1> QED BY <1>2, <1>3, <1>4, <1>5

LEMMA DotMatchIsBelow ==
    ASSUME NEW g \in Name, NEW y \in Name
    PROVE  dot_suffix_match(g, y) <=> Below(g, y)
<1> DEFINE I == {n \in Nat : \A h, z \in Name :
                               Len(z) = n => (dot_suffix_match(h, z) <=> Below(h, z))}
<1>1. ASSUME NEW s \in Name
      PROVE  /\ Len(s) \in Nat /\ (Len(s) = 0 => s = <<>>)
             /\ s # <<>> => \E t \in Name, c \in Char : s = Append(t, c) /\ Len(s) = Len(t) + 1
      BY LastOf DEF Name
<1>2. <<>> \in Name /\ Len(<<>>) = 0 /\ Labels(<<>>) = << <<>> >>
      BY LabelsIs DEF Name
<1>3. 0 \in I
  <2> SUFFICES ASSUME NEW h \in Name PROVE dot_suffix_match(h, <<>>) <=> Below(h, <<>>)
      BY <1>1
  <2>1. dot_suffix_match(h, <<>>) <=> Len(h) > 0 /\ h[Len(h)] = "."
    <3>1. Len(h) - 0 = Len(h) /\ (Len(h) > 0 => 0 < Len(h)) /\ 1 .. 0 = {}
          BY <1>1
    <3>2. Len(h) > 0 => StrictEnd(<<>>, h)
          BY <1>2, <3>1 DEF StrictEnd
    <3>3. dot_suffix_match(h, <<>>)
            <=> Len(h) > Len(<<>>) /\ h[Len(h) - Len(<<>>)] = "." /\ StrictEnd(<<>>, h)
          BY <1>2, BelowIs
    <3> QED BY <1>2, <3>1, <3>2, <3>3
  <2>2. Below(h, <<>>) <=> 1 < Len(Labels(h)) /\ Labels(h)[Len(Labels(h))] = <<>>
    <3> DEFINE m == Labels(h)
    <3>1. Len(m) \in Nat /\ Len(m) - 1 + 1 = Len(m)
          BY LabelsIs DEF Parts
    <3>2. Below(h, <<>>) <=> StrictEnd(<< <<>> >>, m)
          BY <1>2, BelowIs
    <3>3. Len(<< <<>> >>) = 1 /\ << <<>> >>[1] = <<>> /\ \A k : k \in 1 .. 1 <=> k = 1
          OBVIOUS
    <3> HIDE DEF m
    <3>4. StrictEnd(<< <<>> >>, m) <=> 1 < Len(m) /\ <<>> = m[Len(m) - 1 + 1]
          BY <3>3 DEF StrictEnd
    <3> QED BY <3>1, <3>2, <3>4 DEF m
  <2>3. CASE h = <<>>
        BY <1>2, <2>1, <2>2, <2>3
  <2>4. CASE h # <<>>
    <3>1. PICK t \in Name, c \in Char : h = Append(t, c) /\ Len(h) = Len(t) + 1
          BY <1>1, <2>4
    <3> DEFINE l == Labels(t)
    <3>2. /\ Labels(h) = Longer(l, c) /\ l \in Parts /\ l \in Seq(Name)
          /\ Len(l) \in Nat /\ Len(l) >= 1 /\ l[Len(l)] \in Seq(Char)
      <4>1. Labels(h) = Longer(l, c) /\ l \in Parts
            BY <3>1, LabelsIs
      <4> HIDE DEF l
      <4> QED BY <4>1 DEF Parts, Name
    <3>3. h[Len(h)] = c /\ Len(h) > 0
          BY <1>1, <3>1 DEF Name
    <3> HIDE DEF l
    <3>4. CASE c = "."
      <4>1. Len(Longer(l, c)) = Len(l) + 1 /\ Longer(l, c)[Len(l) + 1] = <<>>
            BY <3>2, <3>4, LongerIs
      <4>2. 1 < Len(l) + 1
            BY <3>2
      <4> QED BY <2>1, <2>2, <3>2, <3>3, <3>4, <4>1, <4>2
    <3>5. CASE c # "."
      <4>1. Len(Longer(l, c)) = Len(l) /\ Longer(l, c)[Len(l)] = Append(l[Len(l)], c)
            BY <3>2, <3>5, LongerIs
      <4>2. Append(l[Len(l)], c) # <<>>
        <5>1. \A s \in Seq(Char) : Append(s, c) # <<>>
          <6> TAKE s \in Seq(Char)
          <6>1. Len(Append(s, c)) = Len(s) + 1 /\ Len(s) \in Nat
                OBVIOUS
          <6> QED BY <1>2, <6>1
        <5> QED BY <3>2, <5>1
      <4> QED BY <2>1, <2>2, <3>2, <3>3, <3>5, <4>1, <4>2
    <3> QED BY <3>4, <3>5
  <2> QED BY <2>3, <2>4
<1>4. ASSUME NEW n \in I PROVE n + 1 \in I
  <2> SUFFICES ASSUME NEW h \in Name, NEW z \in Name, Len(z) = n + 1
               PROVE  dot_suffix_match(h, z) <=> Below(h, z)
      OBVIOUS
  <2>1. n \in Nat /\ z # <<>> /\ \A a, b \in Nat : a + 1 = b + 1 => a = b
        BY <1>2
  <2>2. PICK x \in Name, c \in Char : z = Append(x, c) /\ Len(z) = Len(x) + 1
        BY <1>1, <2>1
  <2>3. Len(x) = n
        BY <1>1, <2>1, <2>2
  <2>4. CASE h = <<>>
    <3>1. ~dot_suffix_match(h, z)
      <4>1. ~(0 > n + 1)
            BY <2>1
      <4> QED BY <1>2, <2>4, <4>1, BelowIs
    <3>2. ~Below(h, z)
      <4>1. Len(Labels(z)) \in Nat /\ Len(Labels(z)) >= 1 /\ Len(Labels(h)) = 1
        <5>1. Labels(z) \in Parts /\ Labels(h) = << <<>> >>
              BY <1>2, <2>4, LabelsIs
        <5> QED BY <5>1 DEF Parts
      <4>2. ~(Len(Labels(z)) < Len(Labels(h)))
            BY <4>1
      <4> QED BY <4>2, BelowIs DEF StrictEnd
    <3> QED BY <3>1, <3>2
  <2>5. CASE h # <<>>
    <3>1. PICK t \in Name, d \in Char : h = Append(t, d)
          BY <1>1, <2>5
    <3>2. dot_suffix_match(h, z) <=> c = d /\ dot_suffix_match(t, x)
          BY <2>2, <3>1, DotMatchLonger
    <3>3. Below(h, z) <=> c = d /\ Below(t, x)
          BY <2>2, <3>1, BelowLonger
    <3>4. dot_suffix_match(t, x) <=> Below(t, x)
          BY <2>3
    <3> QED BY <3>2, <3>3, <3>4
  <2> QED BY <2>4, <2>5
<1>5. I \in SUBSET Nat
      OBVIOUS
<1> HIDE DEF I
<1>6. I = Nat
      BY <1>3, <1>4, <1>5, AllNaturals
<1>7. Len(y) \in I
      BY <1>1, <1>6
<1> QED BY <1>7 DEF I

-----------------------------------------------------------------------------
(* The list of domains *)

LEMMA MaxIs ==
    ASSUME NEW n \in Nat, NEW I \in SUBSET (0 .. n), I # {}
    PROVE  Max(I) \in I /\ \A k \in I : k <= Max(I)
<1> DEFINE J == {n - k : k \in I}
<1>1. J \in SUBSET Nat /\ J # {}
  <2>1. \A k \in I : k \in 0 .. n /\ n - k \in Nat
        OBVIOUS
  <2> QED BY <2>1
<1>2. PICK j \in J : \A k \in J : j <= k
      BY <1>1, LeastNatural
<1>3. PICK m \in I : j = n - m
      BY <1>2
<1>4. ASSUME NEW k \in I PROVE m >= k
  <2>1. n - m <= n - k /\ m \in Nat /\ k \in Nat
        BY <1>2, <1>3
  <2> QED BY <2>1
<1>5. Max(I) \in I /\ \A k \in I : Max(I) >= k
      BY <1>3, <1>4 DEF Max
<1> QED BY <1>5

LEMMA UpToIs ==
    ASSUME NEW s \in Name, NEW c
    PROVE  UpTo(s, c) \in Name
<1> DEFINE at == {k \in DOMAIN s : s[k] = c}
<1>1. s \in Seq(Char) /\ DOMAIN s = 1 .. Len(s) /\ Len(s) \in Nat
      BY DEF Name
<1>2. CASE at = {}
  <2>1. UpTo(s, c) = s
        BY <1>2 DEF UpTo
  <2> QED BY <2>1
<1>3. CASE at # {}
  <2>1. Min(at) \in at
    <3>1. at \in SUBSET Nat
          BY <1>1
    <3> QED BY <1>3, <3>1, MinIs
  <2>2. UpTo(s, c) = SubSeq(s, 1, Min(at) - 1)
        BY <1>3 DEF UpTo
  <2> HIDE DEF at
  <2>3. Min(at) \in 1 .. Len(s)
        BY <1>1, <2>1 DEF at
  <2> QED BY <1>1, <2>2, <2>3 DEF Name
<1> QED BY <1>2, <1>3

LEMMA trimIs ==
    ASSUME NEW s \in Name
    PROVE  trim(s) \in Name
<1> DEFINE dark == {k \in DOMAIN s : s[k] # " "}
<1>1. s \in Seq(Char) /\ DOMAIN s = 1 .. Len(s) /\ Len(s) \in Nat
      BY DEF Name
<1>2. CASE dark = {}
  <2>1. trim(s) = <<>>
        BY <1>2 DEF trim
  <2> QED BY <2>1 DEF Name
<1>3. CASE dark # {}
  <2>1. Min(dark) \in dark /\ Max(dark) \in dark
    <3>1. dark \in SUBSET Nat /\ dark \in SUBSET (0 .. Len(s))
      <4>1. \A k \in dark : k \in 1 .. Len(s)
            BY <1>1
      <4> HIDE DEF dark
      <4>2. \A k \in dark : k \in Nat /\ k \in 0 .. Len(s)
            BY <1>1, <4>1
      <4> QED BY <4>2
    <3> HIDE DEF dark
    <3> QED BY <1>1, <1>3, <3>1, MinIs, MaxIs
  <2>2. trim(s) = SubSeq(s, Min(dark), Max(dark))
        BY <1>3 DEF trim
  <2> HIDE DEF dark
  <2>3. Min(dark) \in 1 .. Len(s) /\ Max(dark) \in 1 .. Len(s)
        BY <1>1, <2>1 DEF dark
  <2> QED BY <1>1, <2>2, <2>3 DEF Name
<1> QED BY <1>2, <1>3

LEMMA lowerIs ==
    ASSUME DomainFilterAssumption, NEW s \in Name
    PROVE  /\ lower(s) \in Name /\ Len(lower(s)) = Len(s)
           /\ \A k \in 1 .. Len(s) : lower(s)[k] = Lower[s[k]]
           /\ \A k \in 1 .. Len(s) + 1 : /\ From(s, k) \in Name
                                         /\ lower(From(s, k)) = From(lower(s), k)
<1>1. s \in Seq(Char) /\ Len(s) \in Nat /\ \A k \in 1 .. Len(s) : s[k] \in Char
      BY DEF Name
<1>2. \A c \in Char : Lower[c] \in Char
      BY DEF DomainFilterAssumption
<1>3. /\ lower(s) \in Seq(Char) /\ Len(lower(s)) = Len(s)
      /\ \A k \in 1 .. Len(s) : lower(s)[k] = Lower[s[k]]
      BY <1>1, <1>2 DEF lower
<1>4. ASSUME NEW k \in 1 .. Len(s) + 1
      PROVE  From(s, k) \in Name /\ lower(From(s, k)) = From(lower(s), k)
  <2> DEFINE n == Len(s)
             u == SubSeq(s, k, n)
             v == SubSeq(lower(s), k, n)
  <2>1. /\ u \in Seq(Char) /\ Len(u) = n - k + 1
        /\ \A j \in 1 .. n - k + 1 : u[j] = s[k + j - 1]
        BY <1>1
  <2>2. /\ v \in Seq(Char) /\ Len(v) = n - k + 1
        /\ \A j \in 1 .. n - k + 1 : v[j] = lower(s)[k + j - 1]
        BY <1>1, <1>3
  <2>3. From(s, k) = u /\ From(lower(s), k) = v
        BY <1>3 DEF From
  <2> HIDE DEF u, v
  <2>4. /\ lower(u) \in Seq(Char) /\ Len(lower(u)) = n - k + 1
        /\ \A j \in 1 .. n - k + 1 : lower(u)[j] = Lower[u[j]]
    <3>1. DOMAIN u = 1 .. n - k + 1 /\ n - k + 1 \in Nat
          BY <1>1, <2>1
    <3>2. \A j \in 1 .. n - k + 1 : u[j] \in Char
          BY <2>1
    <3> DEFINE m == n - k + 1
    <3> HIDE DEF m
    <3>3. lower(u) = [j \in 1 .. m |-> Lower[u[j]]]
          BY <3>1 DEF lower, m
    <3>4. m \in Nat /\ \A j \in 1 .. m : Lower[u[j]] \in Char
          BY <1>2, <3>1, <3>2 DEF m
    <3>5. lower(u) \in Seq(Char) /\ Len(lower(u)) = m /\ \A j \in 1 .. m : lower(u)[j] = Lower[u[j]]
          BY <3>3, <3>4
    <3> QED BY <3>5 DEF m
  <2>5. ASSUME NEW j \in 1 .. n - k + 1 PROVE lower(u)[j] = v[j]
    <3>1. k + j - 1 \in 1 .. n
          BY <1>1
    <3> QED BY <1>3, <2>1, <2>2, <2>4, <3>1
  <2>6. lower(u) = v
        BY <2>2, <2>4, <2>5
  <2> QED BY <2>1, <2>3, <2>6 DEF Name
<1> QED BY <1>3, <1>4 DEF Name

\* The patterns that were added, and the three kinds of them.
Pattern(line) == trim(UpTo(line, "#"))
Added == {Pattern(rules[k]) : k \in DOMAIN rules}
Wild(p)  == Len(p) >= 2 /\ p[1] = "*" /\ p[2] = "."
Root(p)  == p # <<>> /\ p[1] = "."
Plain(p) == p # <<>> /\ p[1] # "." /\ ~Wild(p)

\* Each container has the patterns of its kind and nothing else.
ListInv ==
    /\ mode_ \in {"Off", "Allowlist", "Blocklist"}
    /\ rules \in Seq(Lines)
    /\ suffix_ = {lower(From(p, 3)) : p \in {q \in Added : Wild(q)}}
    /\ root_suffix_ = {lower(From(p, 2)) : p \in {q \in Added : Root(q)}}
    /\ exact_ = {lower(p) : p \in {q \in Added : Plain(q)}}

LEMMA PatternIs ==
    ASSUME DomainFilterAssumption, NEW line \in Lines
    PROVE  Pattern(line) \in Name
<1>1. line \in Name
      BY DEF DomainFilterAssumption, Name
<1> QED BY <1>1, UpToIs, trimIs DEF Pattern

LEMMA ListInvHolds == InspectSpec => []ListInv
<1> USE DomainFilterAssumption
<1>1. InspectInit => ListInv
  <2> SUFFICES ASSUME InspectInit PROVE ListInv
      OBVIOUS
  <2>1. /\ mode_ \in {"Off", "Allowlist", "Blocklist"}
        /\ exact_ = {} /\ suffix_ = {} /\ root_suffix_ = {} /\ rules = <<>>
        BY DEF InspectInit, Init
  <2>2. Added = {}
        BY <2>1 DEF Added
  <2> QED BY <2>1, <2>2 DEF ListInv
<1>2. ListInv /\ [InspectNext]_allVars => ListInv'
  <2> SUFFICES ASSUME ListInv, [InspectNext]_allVars PROVE ListInv'
      OBVIOUS
  <2>1. CASE \E line \in Lines : LoadLine(line)
    <3>1. PICK line \in Lines : load_line(line)
          BY <2>1 DEF LoadLine
    <3> DEFINE pat == Pattern(line)
    <3>2. add_pattern(pat) /\ rules' = Append(rules, line) /\ mode_' = mode_
          BY <3>1 DEF load_line, Pattern
    <3>3. pat \in Seq(Char)
          BY PatternIs DEF Name
    <3>4. rules' \in Seq(Lines)
          BY <3>2 DEF ListInv
    <3>5. Added' = Added \cup {pat}
      <4>1. /\ rules \in Seq(Lines) /\ Len(rules) \in Nat /\ DOMAIN rules = 1 .. Len(rules)
            /\ DOMAIN rules' = 1 .. Len(rules) + 1 /\ rules'[Len(rules) + 1] = line
            /\ \A k \in 1 .. Len(rules) : rules'[k] = rules[k]
            BY <3>2 DEF ListInv
      <4>2. \A k : k \in DOMAIN rules' <=> k = Len(rules) + 1 \/ k \in DOMAIN rules
            BY <4>1
      <4>3. Added' = {Pattern(rules'[k]) : k \in DOMAIN rules'}
            BY DEF Added, Pattern, trim, UpTo
      <4> QED BY <4>1, <4>2, <4>3, SMTT(60) DEF Added
    <3> HIDE DEF pat
    <3>6. /\ Wild(pat) => ~Root(pat) /\ ~Plain(pat)
          /\ Root(pat) => ~Wild(pat) /\ ~Plain(pat)
          /\ pat = <<>> => ~Wild(pat) /\ ~Root(pat) /\ ~Plain(pat)
          BY <3>3 DEF Wild, Root, Plain
    <3>7. \/ pat = <<>> /\ UNCHANGED <<exact_, suffix_, root_suffix_>>
          \/ /\ Wild(pat) /\ suffix_' = suffix_ \cup {lower(From(pat, 3))}
             /\ UNCHANGED <<exact_, root_suffix_>>
          \/ /\ Root(pat) /\ root_suffix_' = root_suffix_ \cup {lower(From(pat, 2))}
             /\ UNCHANGED <<exact_, suffix_>>
          \/ /\ Plain(pat) /\ exact_' = exact_ \cup {lower(pat)}
             /\ UNCHANGED <<suffix_, root_suffix_>>
          BY <3>2, Zenon DEF add_pattern, Wild, Root, Plain
    <3>8. suffix_' = {lower(From(p, 3)) : p \in {q \in Added' : Wild(q)}}
          BY <3>5, <3>6, <3>7 DEF ListInv
    <3>9. root_suffix_' = {lower(From(p, 2)) : p \in {q \in Added' : Root(q)}}
          BY <3>5, <3>6, <3>7 DEF ListInv
    <3>10. exact_' = {lower(p) : p \in {q \in Added' : Plain(q)}}
           BY <3>5, <3>6, <3>7 DEF ListInv
    <3>11. mode_' \in {"Off", "Allowlist", "Blocklist"}
           BY <3>2 DEF ListInv
    <3> QED BY <3>4, <3>8, <3>9, <3>10, <3>11 DEF ListInv, lower, From, Wild, Root, Plain
  <2>2. CASE UNCHANGED vars
    <3>1. /\ rules' = rules /\ mode_' = mode_ /\ exact_' = exact_ /\ suffix_' = suffix_
          /\ root_suffix_' = root_suffix_
          BY <2>2 DEF vars
    <3>2. Added' = Added
          BY <3>1 DEF Added, Pattern, trim, UpTo
    <3> QED BY <3>1, <3>2 DEF ListInv, lower, From, Wild, Root, Plain
  <2>3. CASE recv \/ PassUnparsed \/ DropReset \/ PassInboundOrEmpty \/ Inspect
    <3>1. UNCHANGED vars
          BY <2>3 DEF recv, PassUnparsed, DropReset, PassInboundOrEmpty, Inspect, Decide
    <3> QED BY <2>2, <3>1
  <2>4. CASE UNCHANGED allVars
        BY <2>2, <2>4 DEF allVars
  <2> QED BY <2>1, <2>3, <2>4 DEF InspectNext
<1> QED BY <1>1, <1>2, PTL DEF InspectSpec

\* A rule on labels is one of the three comparisons of should_apply.
LEMMA RuleIs ==
    ASSUME DomainFilterAssumption, NEW line \in Lines, NEW h \in Name
    PROVE  LET p == Pattern(line)
           IN  Rule(line, h) <=> \/ Wild(p) /\ dot_suffix_match(h, lower(From(p, 3)))
                                 \/ /\ Root(p)
                                    /\ \/ h = lower(From(p, 2))
                                       \/ dot_suffix_match(h, lower(From(p, 2)))
                                 \/ Plain(p) /\ h = lower(p)
<1> DEFINE p == Pattern(line)
           u == lower(p)
<1>1. p \in Seq(Char) /\ p \in Name
      BY PatternIs DEF Name
<1>2. /\ u \in Name /\ Len(u) = Len(p) /\ Len(p) \in Nat
      /\ \A k \in 1 .. Len(p) : u[k] = Lower[p[k]] /\ p[k] \in Char
      /\ \A k \in 1 .. Len(p) + 1 : From(p, k) \in Name /\ lower(From(p, k)) = From(u, k)
      BY <1>1, lowerIs
<1>3. Rule(line, h) <=> /\ u # <<>>
                        /\ IF Len(u) >= 2 /\ u[1] = "*" /\ u[2] = "."
                           THEN Below(h, From(u, 3))
                           ELSE IF u[1] = "." THEN h = From(u, 2) \/ Below(h, From(u, 2))
                           ELSE h = u
      BY DEF Rule, Pattern
<1>4. u = <<>> <=> p = <<>>
  <2>1. u \in Seq(Char)
        BY <1>2 DEF Name
  <2> HIDE DEF u, p
  <2> QED BY <1>1, <1>2, <2>1
<1> HIDE DEF u, p
<1>5. \A c \in Char : (Lower[c] = "." <=> c = ".") /\ (Lower[c] = "*" <=> c = "*")
      BY DEF DomainFilterAssumption
<1>6. Wild(p) <=> Len(u) >= 2 /\ u[1] = "*" /\ u[2] = "."
      BY <1>2, <1>5 DEF Wild
<1>7. p # <<>> => 1 \in 1 .. Len(p)
      BY <1>1
<1>8. Root(p) <=> u # <<>> /\ u[1] = "."
      BY <1>2, <1>4, <1>5, <1>7 DEF Root
<1>9. Wild(p) => /\ From(u, 3) \in Name /\ From(u, 3) = lower(From(p, 3))
                 /\ u # <<>> /\ u[1] # "."
  <2> SUFFICES ASSUME Wild(p) PROVE /\ From(u, 3) \in Name /\ From(u, 3) = lower(From(p, 3))
                                    /\ u # <<>> /\ u[1] # "."
      OBVIOUS
  <2>1. Len(p) >= 2 /\ u[1] = "*" /\ p # <<>>
        BY <1>1, <1>6 DEF Wild
  <2>2. 3 \in 1 .. Len(p) + 1
        BY <1>2, <2>1
  <2>3. From(p, 3) \in Name /\ lower(From(p, 3)) = From(u, 3)
        BY <1>2, <2>2
  <2>4. lower(From(p, 3)) \in Name
        BY <2>3, lowerIs
  <2> QED BY <1>4, <2>1, <2>3, <2>4
<1>10. Root(p) => From(u, 2) \in Name /\ From(u, 2) = lower(From(p, 2))
  <2> SUFFICES ASSUME Root(p) PROVE From(u, 2) \in Name /\ From(u, 2) = lower(From(p, 2))
      OBVIOUS
  <2>1. p # <<>>
        BY DEF Root
  <2>2. 2 \in 1 .. Len(p) + 1
        BY <1>1, <2>1
  <2>3. From(p, 2) \in Name /\ lower(From(p, 2)) = From(u, 2)
        BY <1>2, <2>2
  <2>4. lower(From(p, 2)) \in Name
        BY <2>3, lowerIs
  <2> QED BY <2>3, <2>4
<1>11. CASE Wild(p)
  <2>1. dot_suffix_match(h, From(u, 3)) <=> Below(h, From(u, 3))
        BY <1>9, <1>11, DotMatchIsBelow
  <2>2. ~Root(p) /\ ~Plain(p)
        BY <1>8, <1>9, <1>11 DEF Plain
  <2>3. Rule(line, h) <=> dot_suffix_match(h, lower(From(p, 3)))
        BY <1>3, <1>6, <1>9, <1>11, <2>1
  <2> QED BY <1>11, <2>2, <2>3 DEF p
<1>12. CASE ~Wild(p) /\ Root(p)
  <2>1. dot_suffix_match(h, From(u, 2)) <=> Below(h, From(u, 2))
        BY <1>10, <1>12, DotMatchIsBelow
  <2>2. ~Plain(p)
        BY <1>12 DEF Plain, Root
  <2>3. Rule(line, h) <=> h = lower(From(p, 2)) \/ dot_suffix_match(h, lower(From(p, 2)))
        BY <1>3, <1>6, <1>8, <1>10, <1>12, <2>1
  <2> QED BY <1>12, <2>2, <2>3 DEF p
<1>13. CASE ~Wild(p) /\ ~Root(p)
  <2>1. Plain(p) <=> p # <<>>
        BY <1>13 DEF Plain, Root
  <2>2. Rule(line, h) <=> u # <<>> /\ h = u
        BY <1>3, <1>6, <1>8, <1>13
  <2> QED BY <1>4, <1>13, <2>1, <2>2 DEF p, u
<1> QED BY <1>11, <1>12, <1>13

LEMMA ListDecides ==
    ASSUME DomainFilterAssumption, ListInv, NEW name \in Name,
           OneColon(name) \/ rules = <<>>
    PROVE  should_apply(name) <=> Decision(NoPort(name))
<1>1. ASSUME NEW s \in Name PROVE strip_port(s) \in Name
  <2> DEFINE I == {k \in DOMAIN s : s[k] = ":"}
  <2>1. s \in Seq(Char) /\ Len(s) \in Nat /\ DOMAIN s = 1 .. Len(s)
        BY DEF Name
  <2>2. CASE I = {}
        BY <2>2, Zenon DEF strip_port
  <2>3. CASE I # {}
    <3>1. strip_port(s) = SubSeq(s, 1, Max(I) - 1)
          BY <2>3 DEF strip_port
    <3>2. \A k \in I : k \in 1 .. Len(s)
          BY <2>1
    <3> HIDE DEF I
    <3>3. I \in SUBSET (0 .. Len(s))
          BY <2>1, <3>2
    <3>4. Max(I) \in 1 .. Len(s)
          BY <2>1, <2>3, <3>2, <3>3, MaxIs
    <3> QED BY <2>1, <3>1, <3>4 DEF Name
  <2> QED BY <2>2, <2>3
<1>2. CASE rules = <<>>
  <2>1. Added = {}
        BY <1>2 DEF Added
  <2>2. exact_ = {} /\ suffix_ = {} /\ root_suffix_ = {}
        BY <2>1 DEF ListInv
  <2>3. ~matched(name)
        BY <2>2, Zenon DEF matched
  <2>4. ~Listed(NoPort(name))
        BY <1>2 DEF Listed
  <2> QED BY <2>3, <2>4 DEF ListInv, should_apply, Decision
<1>3. CASE OneColon(name)
  <2> DEFINE I == {k \in DOMAIN name : name[k] = ":"}
             bare == NoPort(name)
  <2>1. strip_port(name) = UpTo(name, ":")
    <3>1. CASE I = {}
          BY <3>1 DEF strip_port, UpTo
    <3>2. CASE I # {}
      <4>1. PICK k \in I : I = {k}
            BY <1>3, <3>2 DEF OneColon
      <4>2. name \in Seq(Char) /\ k \in 1 .. Len(name)
            BY <4>1 DEF Name
      <4>3. I \in SUBSET Nat /\ I \in SUBSET (0 .. k) /\ k \in Nat
            BY <4>1, <4>2
      <4>4. strip_port(name) = SubSeq(name, 1, Max(I) - 1)
            BY <3>2 DEF strip_port
      <4>5. UpTo(name, ":") = SubSeq(name, 1, Min(I) - 1)
            BY <3>2 DEF UpTo
      <4> HIDE DEF I
      <4>6. Min(I) = k /\ Max(I) = k
            BY <3>2, <4>1, <4>3, MinIs, MaxIs
      <4> QED BY <4>4, <4>5, <4>6
    <3> QED BY <3>1, <3>2
  <2>2. bare = lower(strip_port(name)) /\ bare \in Name
        BY <1>1, <2>1, lowerIs DEF NoPort
  <2> HIDE DEF bare
  <2>3. matched(name) <=> \/ bare \in exact_
                          \/ \E x \in suffix_ : dot_suffix_match(bare, x)
                          \/ \E x \in root_suffix_ : bare = x \/ dot_suffix_match(bare, x)
        BY <2>2 DEF matched
  <2>4. matched(name) <=> \E p \in Added :
                            \/ Wild(p) /\ dot_suffix_match(bare, lower(From(p, 3)))
                            \/ /\ Root(p)
                               /\ \/ bare = lower(From(p, 2))
                                  \/ dot_suffix_match(bare, lower(From(p, 2)))
                            \/ Plain(p) /\ bare = lower(p)
    <3>1. bare \in exact_ <=> \E p \in Added : Plain(p) /\ bare = lower(p)
          BY DEF ListInv
    <3>2. (\E x \in suffix_ : dot_suffix_match(bare, x))
            <=> \E p \in Added : Wild(p) /\ dot_suffix_match(bare, lower(From(p, 3)))
      <4>1. ASSUME NEW x \in suffix_, dot_suffix_match(bare, x)
            PROVE  \E p \in Added : Wild(p) /\ (dot_suffix_match(bare, lower(From(p, 3))))
        <5>1. PICK p \in Added : Wild(p) /\ x = lower(From(p, 3))
              BY DEF ListInv
        <5> QED BY <4>1, <5>1
      <4>2. ASSUME NEW p \in Added, Wild(p) PROVE lower(From(p, 3)) \in suffix_
            BY <4>2 DEF ListInv
      <4> QED BY <4>1, <4>2
    <3>3. (\E x \in root_suffix_ : bare = x \/ dot_suffix_match(bare, x))
            <=> \E p \in Added : /\ Root(p)
                                 /\ \/ bare = lower(From(p, 2))
                                    \/ dot_suffix_match(bare, lower(From(p, 2)))
      <4>1. ASSUME NEW x \in root_suffix_, bare = x \/ dot_suffix_match(bare, x)
            PROVE  \E p \in Added : Root(p) /\ (bare = lower(From(p, 2)) \/ dot_suffix_match(bare, lower(From(p, 2))))
        <5>1. PICK p \in Added : Root(p) /\ x = lower(From(p, 2))
              BY DEF ListInv
        <5> QED BY <4>1, <5>1
      <4>2. ASSUME NEW p \in Added, Root(p) PROVE lower(From(p, 2)) \in root_suffix_
            BY <4>2 DEF ListInv
      <4> QED BY <4>1, <4>2
    <3> QED BY <2>3, <3>1, <3>2, <3>3
  <2>5. \A k \in DOMAIN rules : rules[k] \in Lines
        BY DEF ListInv
  <2>6. Listed(bare) <=> matched(name)
    <3>1. Listed(bare) <=> \E k \in DOMAIN rules : Rule(rules[k], bare)
          BY DEF Listed
    <3> QED BY <2>2, <2>4, <2>5, <3>1, RuleIs DEF Added
  <2> QED BY <2>6 DEF ListInv, should_apply, Decision, bare
<1> QED BY <1>2, <1>3

\* TLC checks ListMatchesByLabels; here for every list of lines and every name, and not
\* only while the list is loaded: the containers of the filter decide, character by
\* character, what the rules of the header say on labels (domain_filter.cpp:46-114).
THEOREM ListsMatchByLabels == InspectSpec => [](ListMatchesByLabels /\ MatchesByLabels)
<1> USE DomainFilterAssumption
<1>1. ListInv => MatchesByLabels
  <2> SUFFICES ASSUME ListInv, NEW name \in Hosts, OneColon(name)
               PROVE  should_apply(name) <=> Decision(NoPort(name))
      BY DEF MatchesByLabels
  <2>1. name \in Name
        BY DEF DomainFilterAssumption, Name
  <2> QED BY <2>1, ListDecides
<1>2. MatchesByLabels => ListMatchesByLabels /\ MatchesByLabels
      BY DEF ListMatchesByLabels
<1> QED BY <1>1, <1>2, ListInvHolds, PTL

-----------------------------------------------------------------------------
(* The Host line of a request *)

\* What Find gives, on the places where its test holds.
LEMMA FirstIs ==
    ASSUME NEW n \in Nat, NEW k \in 0 .. n + 1, NEW at \in SUBSET (k .. n), NEW first,
           first = IF at = {} THEN n + 1 ELSE Min(at)
    PROVE  /\ first \in k .. n + 1 /\ first \in Nat
           /\ first <= n => first \in at
           /\ \A i \in at : first <= i
<1>1. CASE at = {}
      BY <1>1
<1>2. CASE at # {}
  <2>1. at \in SUBSET Nat
        OBVIOUS
  <2>2. Min(at) \in at /\ \A i \in at : Min(at) <= i
        BY <1>2, <2>1, MinIs
  <2>3. first \in k .. n
        BY <1>2, <2>2
  <2> QED BY <1>2, <2>2, <2>3
<1> QED BY <1>1, <1>2

Colon(v, p) == Find(v, p, LAMBDA i : ~is_token_char(v[i]))
Value(v, p) == Find(v, Colon(v, p) + 1, LAMBDA i : v[i] \notin OWS)
Eol(v, p)   == find_crlf(v, Value(v, p))

LEMMA find_crlfIs ==
    ASSUME NEW v \in Seq(Char), NEW k \in 0 .. Len(v) + 1
    PROVE  /\ find_crlf(v, k) \in k .. Len(v) + 1 /\ find_crlf(v, k) \in Nat
           /\ find_crlf(v, k) <= Len(v) => line_ends(v, find_crlf(v, k))
           /\ \A i \in k .. Len(v) : line_ends(v, i) => find_crlf(v, k) <= i
<1> DEFINE at == {i \in k .. Len(v) : line_ends(v, i)}
<1>1. Len(v) \in Nat /\ at \in SUBSET (k .. Len(v))
      OBVIOUS
<1>2. find_crlf(v, k) = IF at = {} THEN Len(v) + 1 ELSE Min(at)
      BY DEF find_crlf, Find
<1> HIDE DEF at
<1>3. /\ find_crlf(v, k) \in k .. Len(v) + 1 /\ find_crlf(v, k) \in Nat
      /\ find_crlf(v, k) <= Len(v) => find_crlf(v, k) \in at
      /\ \A i \in at : find_crlf(v, k) <= i
      BY <1>1, <1>2, FirstIs
<1> QED BY <1>3 DEF at

LEMMA ColonIs ==
    ASSUME NEW v \in Seq(Char), NEW k \in 0 .. Len(v) + 1
    PROVE  /\ Colon(v, k) \in k .. Len(v) + 1 /\ Colon(v, k) \in Nat
           /\ Colon(v, k) <= Len(v) => ~is_token_char(v[Colon(v, k)])
           /\ \A i \in k .. Len(v) : ~is_token_char(v[i]) => Colon(v, k) <= i
<1> DEFINE at == {i \in k .. Len(v) : ~is_token_char(v[i])}
<1>1. Len(v) \in Nat /\ at \in SUBSET (k .. Len(v))
      OBVIOUS
<1>2. Colon(v, k) = IF at = {} THEN Len(v) + 1 ELSE Min(at)
      BY DEF Colon, Find
<1> DEFINE c == Colon(v, k)
<1> HIDE DEF at, c
<1>3. /\ Colon(v, k) \in k .. Len(v) + 1 /\ Colon(v, k) \in Nat
      /\ Colon(v, k) <= Len(v) => Colon(v, k) \in at
      /\ \A i \in at : Colon(v, k) <= i
      BY <1>1, <1>2, FirstIs
<1> QED BY <1>3 DEF at

LEMMA ValueIs ==
    ASSUME NEW v \in Seq(Char), NEW k \in 0 .. Len(v) + 1, Colon(v, k) <= Len(v)
    PROVE  /\ Value(v, k) \in Colon(v, k) + 1 .. Len(v) + 1 /\ Value(v, k) \in Nat
           /\ Value(v, k) <= Len(v) => v[Value(v, k)] # " "
           /\ \A i \in Colon(v, k) + 1 .. Len(v) : v[i] # " " => Value(v, k) <= i
<1> DEFINE c == Colon(v, k)
           at == {i \in c + 1 .. Len(v) : v[i] \notin OWS}
<1>1. /\ Len(v) \in Nat /\ at \in SUBSET (c + 1 .. Len(v)) /\ c \in Nat
      /\ c + 1 \in 0 .. Len(v) + 1
      BY ColonIs
<1>2. Value(v, k) = IF at = {} THEN Len(v) + 1 ELSE Min(at)
      BY DEF Value, Find
<1> DEFINE d == c + 1
           w == Value(v, k)
<1> HIDE DEF at, c, d, w
<1>3. /\ w \in d .. Len(v) + 1 /\ w \in Nat
      /\ w <= Len(v) => w \in at
      /\ \A i \in at : w <= i
  <2>1. at \in SUBSET (d .. Len(v)) /\ d \in 0 .. Len(v) + 1
        BY <1>1 DEF d
  <2>2. w = IF at = {} THEN Len(v) + 1 ELSE Min(at)
        BY <1>2 DEF w
  <2> QED BY <1>1, <2>1, <2>2, FirstIs
<1> QED BY <1>3 DEF at, c, d, w, OWS

\* One step of the scan, f being what it gives for the places behind.
Scan(f, v, p) ==
    IF p > Len(v) \/ line_ends(v, p) THEN [NoRequest EXCEPT !.present = TRUE]
    ELSE IF Colon(v, p) > Len(v) \/ v[Colon(v, p)] # ":" THEN f[next_line(v, Colon(v, p))]
    ELSE IF Eol(v, p) > Len(v) THEN NoRequest
    ELSE IF SubSeq(v, p, Colon(v, p) - 1) = <<"Host">>
         THEN host(v, p, Colon(v, p), Value(v, p), Eol(v, p))
    ELSE f[Eol(v, p) + 2]
IsScan(v, f) == f = [p \in Nat |-> Scan(f, v, p)]
ScanOf(v) == CHOOSE f : IsScan(v, f)

LEMMA ScansAre == ASSUME NEW v, NEW start PROVE parse_headers(v, start) = ScanOf(v)[start]
BY DEF parse_headers, ScanOf, IsScan, Scan, Colon, Value, Eol

\* The scan goes forward.
LEMMA ScanGoesOn ==
    ASSUME NEW v \in Seq(Char), NEW p \in Nat, p <= Len(v)
    PROVE  /\ next_line(v, Colon(v, p)) \in Nat /\ next_line(v, Colon(v, p)) > p
           /\ Colon(v, p) <= Len(v) => Eol(v, p) + 2 \in Nat /\ Eol(v, p) + 2 > p
<1> DEFINE n == Len(v)
           c == Colon(v, p)
           e == find_crlf(v, c)
           w == Value(v, p)
           l == Eol(v, p)
<1>1. n \in Nat /\ p \in 0 .. n + 1
      OBVIOUS
<1>2. c \in p .. n + 1 /\ c \in 0 .. n + 1
      BY <1>1, ColonIs
<1>3. e \in c .. n + 1 /\ next_line(v, c) = e + 2
      BY <1>2, find_crlfIs DEF next_line
<1>4. c <= n => w \in c + 1 .. n + 1 /\ w \in 0 .. n + 1
  <2> SUFFICES ASSUME c <= n PROVE w \in c + 1 .. n + 1 /\ w \in 0 .. n + 1
      OBVIOUS
  <2>1. w \in c + 1 .. n + 1
        BY <1>1, ValueIs
  <2> HIDE DEF c, w, n
  <2> QED BY <1>1, <1>2, <2>1
<1>5. c <= n => l \in w .. n + 1
      BY <1>4, find_crlfIs DEF Eol
<1> HIDE DEF n, c, e, w, l
<1>6. e + 2 \in Nat /\ e + 2 > p
      BY <1>1, <1>2, <1>3
<1>7. c <= n => l + 2 \in Nat /\ l + 2 > p
      BY <1>1, <1>2, <1>4, <1>5
<1> QED BY <1>3, <1>6, <1>7 DEF n, c, l

LEMMA SameScan ==
    ASSUME NEW v \in Seq(Char), NEW p \in Nat, NEW f, NEW g,
           \A q \in Nat : q > p => f[q] = g[q]
    PROVE  Scan(f, v, p) = Scan(g, v, p)
<1>1. CASE p > Len(v)
      BY <1>1 DEF Scan
<1>2. CASE p <= Len(v)
  <2>1. f[next_line(v, Colon(v, p))] = g[next_line(v, Colon(v, p))]
        BY <1>2, ScanGoesOn
  <2>2. Colon(v, p) <= Len(v) => f[Eol(v, p) + 2] = g[Eol(v, p) + 2]
        BY <1>2, ScanGoesOn
  <2>3. Colon(v, p) <= Len(v) \/ Colon(v, p) > Len(v)
    <3>1. p \in 0 .. Len(v) + 1
          BY <1>2
    <3> QED BY <3>1, ColonIs
  <2> QED BY <2>1, <2>2, <2>3, Zenon DEF Scan
<1> QED BY <1>1, <1>2

LEMMA ScanExists ==
    ASSUME NEW v \in Seq(Char)
    PROVE  \E f : IsScan(v, f)
<1> DEFINE n == Len(v)
           Right(f, m) == f = [p \in Nat |-> f[p]]
                          /\ \A p \in Nat : p + m > n => f[p] = Scan(f, v, p)
           I == {m \in Nat : \E f : Right(f, m)}
<1>1. n \in Nat
      OBVIOUS
<1>2. 0 \in I
  <2> DEFINE f == [p \in Nat |-> [NoRequest EXCEPT !.present = TRUE]]
  <2>1. f = [p \in Nat |-> f[p]]
        OBVIOUS
  <2>2. ASSUME NEW p \in Nat, p + 0 > n PROVE f[p] = Scan(f, v, p)
    <3>1. p > n
          BY <1>1, <2>2
    <3> QED BY <3>1 DEF Scan
  <2> HIDE DEF f
  <2>3. Right(f, 0)
        BY <2>1, <2>2
  <2> QED BY <2>3
<1>3. ASSUME NEW m \in I PROVE m + 1 \in I
  <2>1. PICK f : Right(f, m)
        OBVIOUS
  <2>2. m \in Nat
        OBVIOUS
  <2> HIDE DEF n, I
  <2>3. CASE m > n
    <3>1. ASSUME NEW p \in Nat PROVE p + m > n
          BY <1>1, <2>2, <2>3
    <3>2. \E h : Right(h, m + 1)
      <4>1. Right(f, m + 1)
            BY <2>1, <3>1
      <4> QED BY <4>1
    <3>3. m + 1 \in Nat
          BY <2>2
    <3> HIDE DEF Right
    <3> QED BY <3>2, <3>3 DEF I
  <2>4. CASE m <= n
    <3> DEFINE q == n - m
               g == [p \in Nat |-> IF p = q THEN Scan(f, v, q) ELSE f[p]]
    <3>1. q \in Nat /\ g = [p \in Nat |-> g[p]]
          BY <1>1, <2>2, <2>4
    <3>2. ASSUME NEW p \in Nat, p > q PROVE g[p] = f[p]
          BY <3>1, <3>2
    <3>3. g[q] = Scan(f, v, q)
          BY <3>1
    <3> HIDE DEF g
    <3>4. ASSUME NEW p \in Nat, p + (m + 1) > n PROVE g[p] = Scan(g, v, p)
      <4>1. p = q \/ (p > q /\ p + m > n)
            BY <1>1, <2>2, <3>4
      <4>2. \A r \in Nat : r > p => g[r] = f[r]
            BY <3>1, <3>2, <4>1
      <4>3. Scan(g, v, p) = Scan(f, v, p)
            BY <4>2, SameScan
      <4>4. CASE p = q
            BY <3>3, <4>3, <4>4
      <4>5. CASE p > q /\ p + m > n
            BY <2>1, <3>2, <4>3, <4>5
      <4> QED BY <4>1, <4>4, <4>5
    <3>5. \E h : Right(h, m + 1)
      <4>1. Right(g, m + 1)
            BY <3>1, <3>4
      <4> QED BY <4>1
    <3>6. m + 1 \in Nat
          BY <2>2
    <3> HIDE DEF Right
    <3> QED BY <3>5, <3>6 DEF I
  <2> QED BY <1>1, <2>2, <2>3, <2>4
<1>4. I \in SUBSET Nat
      OBVIOUS
<1> HIDE DEF I
<1>5. I = Nat
      BY <1>2, <1>3, <1>4, AllNaturals
<1>6. n + 1 \in I
      BY <1>1, <1>5
<1>7. PICK f : Right(f, n + 1)
      BY <1>6 DEF I
<1> HIDE DEF n
<1>8. ASSUME NEW p \in Nat PROVE f[p] = Scan(f, v, p)
  <2>1. p + (n + 1) > n
        BY <1>1
  <2> QED BY <1>7, <2>1
<1>9. f = [p \in Nat |-> Scan(f, v, p)]
      BY <1>7, <1>8
<1> QED BY <1>9 DEF IsScan

LEMMA ScanIs ==
    ASSUME NEW v \in Seq(Char), NEW p \in Nat
    PROVE  ScanOf(v)[p] = Scan(ScanOf(v), v, p)
<1>1. IsScan(v, ScanOf(v))
      BY ScanExists DEF ScanOf
<1> DEFINE f == ScanOf(v)
<1> HIDE DEF f
<1>2. f = [q \in Nat |-> Scan(f, v, q)]
      BY <1>1 DEF IsScan, f
<1>3. f[p] = Scan(f, v, p)
      BY <1>2
<1> QED BY <1>3 DEF f

\* The scan is at the beginning of a line, and no blank line lies behind it.
AtLine(v, p) == p \in Starts(v) /\ \A b \in Blank(v) : p <= b

LEMMA EndsIs ==
    ASSUME NEW v \in Seq(Char)
    PROVE  /\ Ends(v) \in SUBSET (1 .. Len(v)) /\ Len(v) \in Nat
           /\ \A i \in Ends(v) : i < Len(v) /\ v[i] = "CR" /\ v[i + 1] = "LF"
           /\ \A i, j \in Ends(v) : i < j => i + 2 <= j
           /\ \A p \in Starts(v) : p \in Nat /\ p >= 3 /\ p - 2 \in Ends(v)
<1>1. Len(v) \in Nat /\ \A i \in Ends(v) : i \in 1 .. Len(v) /\ line_ends(v, i)
      BY DEF Ends
<1>2. \A i \in Ends(v) : i < Len(v) /\ v[i] = "CR" /\ v[i + 1] = "LF"
      BY <1>1 DEF line_ends
<1>3. ASSUME NEW i \in Ends(v), NEW j \in Ends(v), i < j PROVE i + 2 <= j
  <2>1. j # i + 1
        BY <1>2
  <2>2. i \in Nat /\ j \in Nat
        BY <1>1
  <2> QED BY <1>3, <2>1, <2>2
<1>4. ASSUME NEW p \in Starts(v) PROVE p \in Nat /\ p >= 3 /\ p - 2 \in Ends(v)
  <2>1. PICK i \in Ends(v) : p = i + 2
        BY DEF Starts
  <2>2. i \in Nat /\ i >= 1 /\ p - 2 = i
        BY <1>1, <2>1
  <2> QED BY <2>1, <2>2
<1> QED BY <1>1, <1>2, <1>3, <1>4

\* The first line end from p on, as far as there is one.
FirstOf(v, p, e) == /\ \A i \in Ends(v) : i >= p => e <= i
                    /\ e <= Len(v) => e \in Ends(v) /\ e >= p

LEMMA NextLine ==
    ASSUME NEW v \in Seq(Char), NEW p, AtLine(v, p), p \notin Ends(v),
           NEW e \in Nat, FirstOf(v, p, e)
    PROVE  /\ InHead(v, p)
           /\ e <= Len(v) => /\ AtLine(v, e + 2)
                             /\ \A s \in Starts(v) : s >= p => s = p \/ s >= e + 2
           /\ e > Len(v) => \A s \in Starts(v) : s = p \/ Complete(v, s)
<1>1. /\ p \in Starts(v) /\ \A b \in Blank(v) : p <= b
      /\ p \in Nat /\ p >= 3 /\ p - 2 \in Ends(v)
      BY EndsIs DEF AtLine
<1>2. /\ \A i \in Ends(v) : i \in Nat /\ i <= Len(v) /\ i >= 1
      /\ Len(v) \in Nat
      BY EndsIs
<1>3. \A b \in Blank(v) : b \in Starts(v) /\ b \in Ends(v) /\ b \in Nat
      BY <1>2 DEF Blank
<1>4. InHead(v, p)
  <2>1. ASSUME NEW b \in Blank(v) PROVE p < b
    <3>1. p <= b /\ p # b
          BY <1>1, <1>3
    <3> QED BY <1>1, <1>3, <3>1
  <2> QED BY <1>1, <2>1 DEF InHead
<1>5. ASSUME NEW s \in Starts(v), s > p PROVE s - 2 \in Ends(v) /\ s - 2 >= p /\ s \in Nat
  <2>1. s - 2 \in Ends(v) /\ s \in Nat
        BY EndsIs
  <2>2. p - 2 < s - 2
        BY <1>1, <1>5, <2>1
  <2>3. (p - 2) + 2 <= s - 2
        BY <1>1, <2>1, <2>2, EndsIs
  <2> QED BY <1>1, <2>1, <2>3
<1>6. ASSUME e <= Len(v)
      PROVE  /\ AtLine(v, e + 2)
             /\ \A s \in Starts(v) : s >= p => s = p \/ s >= e + 2
  <2>1. /\ e \in Ends(v) /\ e >= p /\ \A i \in Ends(v) : i >= p => e <= i
        BY <1>6 DEF FirstOf
  <2>2. e + 2 \in Starts(v)
        BY <2>1 DEF Starts
  <2>3. ASSUME NEW s \in Starts(v), s >= p PROVE s = p \/ s >= e + 2
    <3>1. s \in Nat
          BY EndsIs
    <3>2. CASE s > p
      <4>1. s - 2 \in Ends(v) /\ e <= s - 2
            BY <1>5, <2>1, <3>2
      <4> QED BY <3>1, <4>1
    <3> QED BY <1>1, <2>3, <3>1, <3>2
  <2>4. ASSUME NEW b \in Blank(v) PROVE e + 2 <= b
    <3>1. b \in Starts(v) /\ b \in Ends(v) /\ b >= p /\ b # p /\ b \in Nat
          BY <1>1, <1>3
    <3>2. b >= e + 2
          BY <2>3, <3>1
    <3> QED BY <3>1, <3>2
  <2> QED BY <2>2, <2>3, <2>4 DEF AtLine
<1>7. ASSUME e > Len(v), NEW s \in Starts(v), s # p PROVE Complete(v, s)
  <2>1. s - 2 \in Ends(v) /\ s \in Nat
        BY EndsIs
  <2>2. ~(s > p)
    <3> SUFFICES ASSUME s > p PROVE FALSE
        OBVIOUS
    <3>1. e <= s - 2 /\ s - 2 <= Len(v)
          BY <1>2, <1>5 DEF FirstOf
    <3> QED BY <1>2, <1>7, <2>1, <3>1
  <2>3. s - 2 < p - 2
        BY <1>1, <1>7, <2>1, <2>2
  <2>4. (s - 2) + 2 <= p - 2
        BY <1>1, <2>1, <2>3, EndsIs
  <2>5. p - 2 >= s
        BY <1>1, <2>1, <2>4
  <2> QED BY <1>1, <2>5 DEF Complete
<1> QED BY <1>4, <1>6, <1>7

\* Where the parts of a line are.
LEMMA FieldIs ==
    ASSUME NEW v \in Seq(Char), NEW p \in Starts(v), p <= Len(v)
    PROVE  /\ \A i \in p .. Colon(v, p) - 1 : is_token_char(v[i])
           /\ \A i \in Ends(v) : i >= p => Colon(v, p) <= i
           /\ FirstOf(v, p, find_crlf(v, Colon(v, p)))
           /\ Colon(v, p) <= Len(v) /\ v[Colon(v, p)] = ":" =>
                /\ FirstOf(v, p, Eol(v, p)) /\ Eol(v, p) \in Nat
                /\ Eol(v, p) >= Value(v, p)
<1> DEFINE n == Len(v)
           c == Colon(v, p)
           w == Value(v, p)
           e == find_crlf(v, c)
           l == Eol(v, p)
<1>1. /\ p \in Nat /\ p >= 3 /\ n \in Nat /\ p \in 0 .. n + 1
      /\ \A i \in Ends(v) : i \in 1 .. n /\ i < n /\ v[i] = "CR"
      BY EndsIs
<1>2. \A i : i \in Ends(v) <=> i \in 1 .. n /\ line_ends(v, i)
      BY DEF Ends
<1>3. ~is_token_char("CR") /\ ~is_token_char(":")
      BY DEF is_token_char, Separator
<1>4. /\ c \in p .. n + 1 /\ c \in Nat
      /\ c <= n => ~is_token_char(v[c])
      /\ \A i \in p .. n : ~is_token_char(v[i]) => c <= i
      BY <1>1, ColonIs
<1>5. /\ e \in c .. n + 1 /\ e \in Nat /\ (e <= n => line_ends(v, e))
      /\ \A i \in c .. n : line_ends(v, i) => e <= i
  <2>1. c \in 0 .. n + 1
    <3> HIDE DEF c, n
    <3> QED BY <1>1, <1>4
  <2> QED BY <2>1, find_crlfIs
<1> HIDE DEF n, c, w, e, l
<1>6. ASSUME NEW i \in p .. c - 1 PROVE is_token_char(v[i])
  <2>1. i \in p .. n /\ ~(c <= i)
        BY <1>1, <1>4
  <2> QED BY <1>4, <2>1
<1>7. ASSUME NEW i \in Ends(v), i >= p PROVE c <= i /\ i \in c .. n
  <2>1. i \in p .. n /\ ~is_token_char(v[i])
        BY <1>1, <1>3, <1>7
  <2>2. c <= i
        BY <1>4, <2>1
  <2> QED BY <1>1, <1>4, <2>1, <2>2
<1>8. FirstOf(v, p, e)
  <2>1. ASSUME NEW i \in Ends(v), i >= p PROVE e <= i
        BY <1>2, <1>5, <1>7, <2>1
  <2>2. ASSUME e <= n PROVE e \in Ends(v) /\ e >= p
    <3>1. e >= p /\ e \in 1 .. n
          BY <1>1, <1>4, <1>5, <2>2
    <3> QED BY <1>2, <1>5, <2>2, <3>1
  <2> QED BY <2>1, <2>2 DEF FirstOf, n
<1>9. ASSUME c <= n, v[c] = ":" PROVE FirstOf(v, p, l) /\ l \in Nat /\ l >= w
  <2>1. w \in c + 1 .. n + 1 /\ w \in Nat
        BY <1>1, <1>9, ValueIs DEF c, w, n
  <2>2. \A i \in c + 1 .. n : v[i] # " " => w <= i
        BY <1>1, <1>9, ValueIs DEF c, w, n
  <2>3. p \in Nat /\ p >= 3 /\ n \in Nat /\ c \in p .. n + 1 /\ c \in Nat
        BY <1>1, <1>4
  <2>4. w \in 0 .. n + 1
        BY <2>1, <2>3
  <2>5. l = find_crlf(v, w)
        BY DEF Eol, l, w
  <2>6. l \in w .. n + 1 /\ l \in Nat
        BY <2>4, <2>5, find_crlfIs DEF n
  <2>7. (l <= n => line_ends(v, l)) /\ \A i \in w .. n : line_ends(v, i) => l <= i
        BY <2>4, <2>5, find_crlfIs DEF n
  <2>8. ASSUME NEW i \in Ends(v), i >= p PROVE l <= i
    <3>1. i \in c .. n /\ v[i] # " "
          BY <1>1, <1>7, <2>8
    <3>2. i \in c + 1 .. n
      <4>1. i # c
            BY <1>1, <1>9
      <4>2. i \in c .. n
            BY <3>1
      <4> QED BY <2>3, <4>1, <4>2
    <3>3. w <= i
          BY <2>2, <3>1, <3>2
    <3>4. i \in w .. n
          BY <2>1, <2>3, <3>2, <3>3
    <3> QED BY <1>2, <2>7, <3>4
  <2>9. ASSUME l <= n PROVE l \in Ends(v) /\ l >= p
    <3>1. l >= p /\ l \in 1 .. n
          BY <2>1, <2>3, <2>6, <2>9
    <3> QED BY <1>2, <2>7, <2>9, <3>1
  <2>10. l >= w
         BY <2>1, <2>6
  <2> QED BY <2>6, <2>8, <2>9, <2>10 DEF FirstOf, n
<1> QED BY <1>6, <1>7, <1>8, <1>9 DEF n, c, w, e, l

\* (A name for it: the provers should not meet the character itself.)
Dark(s, k) == s[k] # " "

\* The value of a field without the white space around it: trim, in two scans.
LEMMA ValueIsTrimmed ==
    ASSUME NEW v \in Seq(Char), NEW a \in Nat, a >= 1, NEW e \in Nat, a <= e, e <= Len(v),
           Dark(v, e),
           NEW w \in Nat, a <= w, w <= Len(v) => Dark(v, w),
           \A i \in a .. Len(v) : Dark(v, i) => w <= i
    PROVE  /\ SubSeq(v, w, value_end(v, w, e)) = trim(SubSeq(v, a, e - 1))
           /\ value_end(v, w, e) \in Nat /\ value_end(v, w, e) + 1 >= w
           /\ value_end(v, w, e) <= Len(v)
<1> DEFINE n == Len(v)
           u == SubSeq(v, a, e - 1)
           dark == {k \in DOMAIN u : Dark(u, k)}
           Z == {w - 1} \cup {i \in w .. e - 1 : v[i] \notin OWS}
           z == value_end(v, w, e)
<1>1. n \in Nat /\ e <= n /\ \A i \in 1 .. n : v[i] \in Char
      OBVIOUS
<1>2. /\ u \in Seq(Char) /\ Len(u) = e - a /\ DOMAIN u = 1 .. e - a
      /\ \A k \in 1 .. e - a : u[k] = v[a + k - 1]
  <2>1. Len(u) = e - a /\ u \in Seq(Char)
        BY <1>1
  <2>2. \A k \in 1 .. e - a : u[k] = v[a + k - 1]
        BY <1>1
  <2> QED BY <2>1, <2>2
<1>3. w <= e
      BY <1>1
<1> HIDE DEF u
<1>4. \A k : k \in dark <=> k \in 1 .. e - a /\ Dark(v, a + k - 1)
  <2>1. ASSUME NEW k \in 1 .. e - a PROVE Dark(u, k) <=> Dark(v, a + k - 1)
        BY <1>2, Zenon DEF Dark
  <2> QED BY <1>2, <2>1
<1>5. \A i : i \in Z <=> i = w - 1 \/ (i \in w .. e - 1 /\ Dark(v, i))
      BY Zenon DEF OWS, Dark
<1>6. trim(u) = IF dark = {} THEN <<>> ELSE SubSeq(u, Min(dark), Max(dark))
      BY Zenon DEF trim, Dark
<1>7. z = Max(Z)
      BY Zenon DEF value_end
<1> HIDE DEF n, dark, Z, z
<1>8. ASSUME w < e PROVE w - a + 1 \in dark
  <2>1. w - a + 1 \in 1 .. e - a /\ a + (w - a + 1) - 1 = w
        BY <1>8
  <2>2. Dark(v, w)
        BY <1>1, <1>8 DEF n
  <2> QED BY <1>4, <2>1, <2>2
<1>9. ASSUME NEW k \in dark
      PROVE  k \in Nat /\ k >= 1 /\ a + k - 1 \in w .. e - 1 /\ a + k - 1 \in Z
  <2>1. k \in 1 .. e - a /\ Dark(v, a + k - 1)
        BY <1>4
  <2>2. a + k - 1 \in a .. n /\ a + k - 1 <= e - 1
        BY <1>1, <2>1
  <2>3. w <= a + k - 1
        BY <2>1, <2>2 DEF n
  <2>4. a + k - 1 \in w .. e - 1
        BY <2>1, <2>2, <2>3
  <2> QED BY <1>5, <2>1, <2>4
<1>10. z \in Z /\ \A i \in Z : i <= z
  <2>1. w - 1 \in Z
        BY <1>5
  <2>2. Z \in SUBSET (0 .. n)
    <3>1. ASSUME NEW i \in Z PROVE i \in 0 .. n
          BY <1>1, <1>3, <1>5
    <3> QED BY <3>1
  <2> QED BY <1>1, <1>7, <2>1, <2>2, MaxIs
<1>11. z \in Nat /\ z + 1 >= w /\ z <= n
       BY <1>1, <1>3, <1>5, <1>10
<1>12. CASE dark = {}
  <2>1. w = e
        BY <1>3, <1>8, <1>12
  <2>2. z = w - 1
        BY <1>5, <1>10, <2>1
  <2>3. SubSeq(v, w, w - 1) = <<>>
        BY <1>1
  <2> QED BY <1>6, <1>11, <1>12, <2>2, <2>3 DEF u, n, z
<1>13. CASE dark # {}
  <2> DEFINE lo == Min(dark)
             hi == Max(dark)
  <2>1. dark \in SUBSET Nat /\ dark \in SUBSET (0 .. e - a) /\ e - a \in Nat
    <3>1. ASSUME NEW k \in dark PROVE k \in Nat /\ k \in 0 .. e - a
          BY <1>4
    <3> QED BY <3>1
  <2>2. lo \in dark /\ hi \in dark /\ (\A k \in dark : lo <= k) /\ \A k \in dark : k <= hi
        BY <1>13, <2>1, MinIs, MaxIs
  <2> HIDE DEF lo, hi
  <2>3. /\ lo \in Nat /\ lo >= 1 /\ a + lo - 1 \in w .. e - 1
        /\ hi \in Nat /\ hi >= 1 /\ a + hi - 1 \in w .. e - 1 /\ a + hi - 1 \in Z
        BY <1>9, <2>2
  <2>4. lo = w - a + 1
    <3>1. w < e
          BY <2>3
    <3>2. lo <= w - a + 1
          BY <1>8, <2>2, <3>1
    <3> QED BY <2>3, <3>2
  <2>5. z = a + hi - 1
    <3>1. a + hi - 1 <= z
          BY <1>10, <2>3
    <3>2. z # w - 1
          BY <1>11, <2>3, <3>1
    <3>3. z \in w .. e - 1 /\ Dark(v, z)
          BY <1>5, <1>10, <3>2
    <3>4. z - a + 1 \in 1 .. e - a /\ a + (z - a + 1) - 1 = z
          BY <3>3
    <3>5. z - a + 1 <= hi
          BY <1>4, <2>2, <3>3, <3>4
    <3> QED BY <1>11, <2>3, <3>1, <3>5
  <2>6. hi <= e - a /\ z <= e - 1 /\ w >= 1
        BY <1>4, <2>2, <2>3, <2>5
  <2>7. /\ SubSeq(u, lo, hi) \in Seq(Char) /\ Len(SubSeq(u, lo, hi)) = hi - lo + 1
        /\ \A k \in 1 .. hi - lo + 1 : SubSeq(u, lo, hi)[k] = u[lo + k - 1]
        BY <1>2, <2>3, <2>4, <2>6
  <2>8. /\ SubSeq(v, w, z) \in Seq(Char) /\ Len(SubSeq(v, w, z)) = z - w + 1
        /\ \A k \in 1 .. z - w + 1 : SubSeq(v, w, z)[k] = v[w + k - 1]
        BY <1>1, <1>11, <2>6 DEF n
  <2>9. hi - lo + 1 = z - w + 1
        BY <2>3, <2>4, <2>5
  <2>10. ASSUME NEW k \in 1 .. z - w + 1 PROVE u[lo + k - 1] = v[w + k - 1]
    <3>1. lo + k - 1 \in 1 .. e - a /\ a + (lo + k - 1) - 1 = w + k - 1
          BY <1>11, <2>3, <2>4, <2>5, <2>6
    <3> QED BY <1>2, <3>1
  <2>11. SubSeq(u, lo, hi) = SubSeq(v, w, z)
    <3> DEFINE x == SubSeq(u, lo, hi)
               y == SubSeq(v, w, z)
    <3>1. x \in Seq(Char) /\ y \in Seq(Char) /\ Len(x) = Len(y)
          BY <2>7, <2>8, <2>9
    <3>2. ASSUME NEW k \in 1 .. Len(y) PROVE x[k] = y[k]
          BY <2>7, <2>8, <2>9, <2>10
    <3> HIDE DEF x, y
    <3>3. x = y
          BY <3>1, <3>2
    <3> QED BY <3>3 DEF x, y
  <2> QED BY <1>6, <1>11, <1>13, <2>11 DEF u, n, z, lo, hi
<1> QED BY <1>12, <1>13

\* What the scan gives from a place on: the first Host line from there, or none.
HostsFrom(v, p) == {s \in HostLines(v) : s >= p}
Gives(v, p, r) ==
    IF HostsFrom(v, p) = {}
    THEN r.present = ~OpenField(v) /\ r.header_len = 0 /\ r.hostname = <<>>
    ELSE LET s == Min(HostsFrom(v, p))
         IN  r = host(v, s, s + 1, Value(v, s), FirstEnd(v, s))

LEMMA HostLineIs ==
    ASSUME NEW v \in Seq(Char), NEW s \in HostLines(v)
    PROVE  /\ InHead(v, s) /\ s \in Starts(v) /\ s \in Nat /\ s >= 3 /\ s < Len(v)
           /\ Complete(v, s) /\ Colon(v, s) = s + 1 /\ v[s] = "Host" /\ v[s + 1] = ":"
<1>1. /\ s \in DOMAIN v /\ InHead(v, s) /\ Complete(v, s) /\ v[s] = "Host" /\ v[s + 1] = ":"
      BY DEF HostLines
<1>2. s \in Starts(v) /\ s \in Nat /\ s >= 3 /\ s <= Len(v)
      BY <1>1, EndsIs DEF InHead
<1>3. PICK e \in Ends(v) : e >= s
      BY <1>1 DEF Complete
<1>4. e \in 1 .. Len(v) /\ e < Len(v) /\ v[e] = "CR"
      BY EndsIs
<1>5. s < Len(v)
      BY <1>2, <1>3, <1>4
<1>6. is_token_char(v[s]) /\ ~is_token_char(v[s + 1])
      BY <1>1 DEF is_token_char, Separator
<1> DEFINE c == Colon(v, s)
<1>7. /\ c \in s .. Len(v) + 1 /\ (c <= Len(v) => ~is_token_char(v[c]))
      /\ \A i \in s .. Len(v) : ~is_token_char(v[i]) => c <= i
  <2>1. s \in 0 .. Len(v) + 1
        BY <1>2
  <2> QED BY <2>1, ColonIs
<1> HIDE DEF c
<1>8. c = s + 1
  <2>1. s + 1 \in s .. Len(v)
        BY <1>2, <1>5
  <2>2. c <= s + 1
        BY <1>6, <1>7, <2>1
  <2>3. c # s
        BY <1>2, <1>6, <1>7
  <2> QED BY <1>2, <1>7, <2>2, <2>3
<1> QED BY <1>1, <1>2, <1>5, <1>8 DEF c

LEMMA HostFieldIs ==
    ASSUME NEW v \in Seq(Char), NEW p \in Nat, p >= 1, NEW c \in Nat, c >= p, c <= Len(v)
    PROVE  SubSeq(v, p, c - 1) = <<"Host">> <=> c = p + 1 /\ v[p] = "Host"
<1> DEFINE u == SubSeq(v, p, c - 1)
<1>1. /\ u \in Seq(Char) /\ Len(u) = c - p /\ \A k \in 1 .. c - p : u[k] = v[p + k - 1]
      /\ v[p] \in Char
  <2>1. u \in Seq(Char) /\ Len(u) = c - p
        OBVIOUS
  <2>2. \A k \in 1 .. c - p : u[k] = v[p + k - 1]
        OBVIOUS
  <2>3. v[p] \in Char
        OBVIOUS
  <2> QED BY <2>1, <2>2, <2>3
<1> HIDE DEF u
<1>2. ASSUME u = <<"Host">> PROVE c = p + 1 /\ v[p] = "Host"
  <2>1. Len(<<"Host">>) = 1 /\ <<"Host">>[1] = "Host"
        OBVIOUS
  <2>2. c - p = 1
        BY <1>1, <1>2, <2>1
  <2>3. u[1] = v[p + 1 - 1] /\ p + 1 - 1 = p
        BY <1>1, <2>2
  <2> QED BY <1>2, <2>1, <2>2, <2>3
<1>3. ASSUME c = p + 1, v[p] = "Host" PROVE u = <<"Host">>
  <2>1. c - p = 1 /\ p + 1 - 1 = p
        BY <1>3
  <2>2. Len(u) = 1 /\ u[1] = "Host"
        BY <1>1, <1>3, <2>1
  <2> QED BY <1>1, <2>2
<1> QED BY <1>2, <1>3 DEF u

LEMMA ScanGives ==
    ASSUME NEW v \in Seq(Char), NEW f, NEW p, AtLine(v, p),
           p <= Len(v) => \A q \in Nat : q > p /\ AtLine(v, q) => Gives(v, q, f[q]),
           \A q \in Nat : q > Len(v) => f[q] = [NoRequest EXCEPT !.present = TRUE]
    PROVE  Gives(v, p, Scan(f, v, p))
<1> DEFINE n == Len(v)
           c == Colon(v, p)
           w == Value(v, p)
           e == find_crlf(v, c)
           l == Eol(v, p)
           r == Scan(f, v, p)
           none == [NoRequest EXCEPT !.present = TRUE]
<1>1. /\ p \in Starts(v) /\ p \in Nat /\ p >= 3 /\ n \in Nat /\ p - 2 \in Ends(v)
      /\ \A b \in Blank(v) : p <= b
      BY EndsIs DEF AtLine
<1>2. /\ NoRequest.present = FALSE /\ NoRequest.header_len = 0 /\ NoRequest.hostname = <<>>
      /\ none.present = TRUE /\ none.header_len = 0 /\ none.hostname = <<>>
      BY DEF NoRequest
<1>3. Ends(v) \in SUBSET (1 .. n) /\ \A i : i \in Ends(v) <=> i \in 1 .. n /\ line_ends(v, i)
      BY DEF Ends
<1>4. \A s \in HostLines(v) : s \in Nat /\ s < n /\ InHead(v, s) /\ Complete(v, s)
      BY HostLineIs
<1>5. ASSUME p > n \/ p \in Ends(v) PROVE Gives(v, p, r)
  <2>1. r = none
    <3>1. p > n \/ line_ends(v, p)
          BY <1>3, <1>5
    <3> QED BY <3>1, Zenon DEF Scan
  <2>2. HostsFrom(v, p) = {}
    <3>1. ASSUME NEW s \in HostLines(v), s >= p PROVE FALSE
      <4>1. p \in Ends(v)
            BY <1>1, <1>4, <1>5, <3>1
      <4>2. p \in Blank(v)
            BY <1>1, <4>1 DEF Blank
      <4>3. s < p
            BY <1>4, <4>2 DEF InHead
      <4> QED BY <1>1, <1>4, <3>1, <4>3
    <3> QED BY <3>1 DEF HostsFrom
  <2>3. ~OpenField(v)
    <3> SUFFICES ASSUME NEW s \in DOMAIN v, InHead(v, s), ~Complete(v, s) PROVE FALSE
        BY DEF OpenField
    <3>1. s \in Starts(v) /\ s \in Nat /\ s - 2 \in Ends(v) /\ s <= n
          BY EndsIs DEF InHead
    <3>2. CASE p > n
      <4>1. s - 2 < p - 2
            BY <1>1, <3>1, <3>2
      <4>2. (s - 2) + 2 <= p - 2
            BY <1>1, <3>1, <4>1, EndsIs
      <4>3. p - 2 >= s
            BY <1>1, <3>1, <4>2
      <4> QED BY <1>1, <4>3 DEF Complete
    <3>3. CASE p \in Ends(v)
      <4>1. p \in Blank(v)
            BY <1>1, <3>3 DEF Blank
      <4>2. s < p
            BY <4>1 DEF InHead
      <4>3. p >= s
            BY <1>1, <3>1, <4>2
      <4> QED BY <3>3, <4>3 DEF Complete
    <3> QED BY <1>5, <3>2, <3>3
  <2> HIDE DEF r, none
  <2> QED BY <1>2, <2>1, <2>2, <2>3 DEF Gives
<1> SUFFICES ASSUME p <= n, p \notin Ends(v) PROVE Gives(v, p, r)
    BY <1>1, <1>5
<1>6. /\ \A i \in Ends(v) : i >= p => c <= i
      /\ \A i \in p .. c - 1 : is_token_char(v[i])
      /\ FirstOf(v, p, e)
      /\ c <= n /\ v[c] = ":" => FirstOf(v, p, l) /\ l \in Nat /\ l >= w
      BY <1>1, FieldIs
<1>7. /\ c \in Nat /\ c >= p /\ (c <= n => ~is_token_char(v[c]))
      /\ \A i \in p .. n : ~is_token_char(v[i]) => c <= i
      /\ e \in Nat /\ e >= c
  <2>1. p \in 0 .. n + 1
        BY <1>1
  <2>2. /\ c \in p .. n + 1 /\ c \in Nat /\ (c <= n => ~is_token_char(v[c]))
        /\ \A i \in p .. n : ~is_token_char(v[i]) => c <= i
        BY <2>1, ColonIs
  <2>3. c >= p /\ c \in 0 .. n + 1
    <3> HIDE DEF c, n
    <3> QED BY <1>1, <2>2
  <2>4. e \in c .. n + 1 /\ e \in Nat
        BY <2>3, find_crlfIs
  <2>5. e >= c
    <3> HIDE DEF c, n, e
    <3> QED BY <2>2, <2>4
  <2> QED BY <2>2, <2>3, <2>4, <2>5
<1>8. InHead(v, p) /\ p \in DOMAIN v
  <2>1. p \in 1 .. n
        BY <1>1
  <2> QED BY <1>6, <1>7, <2>1, NextLine
<1>9. r = IF c > n \/ v[c] # ":" THEN f[e + 2]
          ELSE IF l > n THEN NoRequest
          ELSE IF SubSeq(v, p, c - 1) = <<"Host">> THEN host(v, p, c, w, l)
          ELSE f[l + 2]
  <2>1. ~(p > n) /\ ~line_ends(v, p)
    <3>1. p \in 1 .. n
          BY <1>1
    <3> QED BY <1>1, <1>3, <3>1
  <2> QED BY <2>1, Zenon DEF Scan, next_line
<1> HIDE DEF c, w, e, l, r, none, n
\* The scan goes on behind the line: nothing in it is a Host line.
<1>10. ASSUME NEW z \in Nat, FirstOf(v, p, z), z >= p, z <= n, p \notin HostLines(v),
              r = f[z + 2]
       PROVE  Gives(v, p, r)
  <2>1. AtLine(v, z + 2) /\ \A s \in Starts(v) : s >= p => s = p \/ s >= z + 2
        BY <1>10, NextLine DEF n
  <2>2. z + 2 \in Nat /\ z + 2 > p
        BY <1>1, <1>10
  <2>3. Gives(v, z + 2, r)
        BY <1>10, <2>1, <2>2 DEF n
  <2>4. HostsFrom(v, p) = HostsFrom(v, z + 2)
    <3>1. ASSUME NEW s \in HostLines(v) PROVE s >= p <=> s >= z + 2
      <4>1. s \in Starts(v) /\ s \in Nat /\ s # p
            BY <1>4, <1>10, HostLineIs
      <4>2. s >= p => s >= z + 2
            BY <2>1, <4>1
      <4>3. s >= z + 2 => s >= p
            BY <1>1, <2>2, <4>1
      <4> QED BY <4>2, <4>3
    <3> QED BY <3>1 DEF HostsFrom
  <2> QED BY <2>3, <2>4 DEF Gives
\* The line is the last one and open.
<1>11. ASSUME NEW z \in Nat, FirstOf(v, p, z), z > n
       PROVE  /\ HostsFrom(v, p) = {}
              /\ OpenField(v) <=> c <= n /\ v[c] = ":"
  <2>1. \A i \in Ends(v) : ~(i >= p)
    <3>1. ASSUME NEW i \in Ends(v), i >= p PROVE FALSE
      <4>1. z <= i /\ i \in 1 .. n
            BY <1>3, <1>11, <3>1 DEF FirstOf
      <4> QED BY <1>1, <1>11, <4>1
    <3> QED BY <3>1
  <2>2. ~Complete(v, p)
        BY <2>1 DEF Complete
  <2>3. \A s \in Starts(v) : s = p \/ Complete(v, s)
        BY <1>11, NextLine DEF n
  <2>4. HostsFrom(v, p) = {}
    <3>1. ASSUME NEW s \in HostLines(v), s >= p PROVE FALSE
      <4>1. PICK i \in Ends(v) : i >= s
            BY <1>4 DEF Complete
      <4>2. i \in Nat /\ s \in Nat
            BY <1>3, <1>4
      <4>3. i >= p
            BY <1>1, <3>1, <4>1, <4>2
      <4> QED BY <2>1, <4>3
    <3> QED BY <3>1 DEF HostsFrom
  <2>5. ASSUME OpenField(v) PROVE c <= n /\ v[c] = ":"
    <3>1. PICK s \in DOMAIN v, k \in DOMAIN v :
            /\ InHead(v, s) /\ ~Complete(v, s)
            /\ k >= s /\ v[k] = ":" /\ \A i \in s .. k - 1 : is_token_char(v[i])
          BY <2>5 DEF OpenField
    <3>2. s = p
          BY <2>3, <3>1 DEF InHead
    <3>3. k \in p .. n
          BY <1>1, <3>1, <3>2 DEF n
    <3>4. ~is_token_char(v[k])
          BY <3>1 DEF is_token_char, Separator
    <3>5. c <= k
          BY <1>7, <3>3, <3>4
    <3>6. ~(c < k)
      <4> SUFFICES ASSUME c < k PROVE FALSE
          OBVIOUS
      <4>1. c \in s .. k - 1 /\ c <= n
            BY <1>1, <1>7, <3>2, <3>3
      <4> QED BY <1>7, <3>1, <4>1
    <3>7. c = k
          BY <1>7, <3>3, <3>5, <3>6
    <3> QED BY <3>1, <3>3, <3>7
  <2>6. ASSUME c <= n, v[c] = ":" PROVE OpenField(v)
    <3>1. c \in DOMAIN v
      <4>1. c \in 1 .. n
            BY <1>1, <1>7, <2>6
      <4> QED BY <4>1 DEF n
    <3> QED BY <1>6, <1>7, <1>8, <2>2, <2>6, <3>1 DEF OpenField
  <2> QED BY <2>4, <2>5, <2>6
<1>12. CASE c > n \/ v[c] # ":"
  <2>1. r = f[e + 2]
        BY <1>9, <1>12
  <2>2. p \notin HostLines(v)
    <3> SUFFICES ASSUME p \in HostLines(v) PROVE FALSE
        OBVIOUS
    <3>1. c = p + 1 /\ v[p + 1] = ":" /\ p < n
          BY HostLineIs DEF c, n
    <3> QED BY <1>1, <1>12, <3>1
  <2>3. CASE e <= n
    <3>1. e >= p
          BY <1>1, <1>7
    <3> QED BY <1>6, <1>7, <1>10, <2>1, <2>2, <2>3, <3>1
  <2>4. CASE e > n
    <3>1. e + 2 \in Nat /\ e + 2 > Len(v)
          BY <1>1, <1>7, <2>4 DEF n
    <3>2. r = none
          BY <2>1, <3>1 DEF none
    <3>3. HostsFrom(v, p) = {} /\ ~OpenField(v)
          BY <1>1, <1>6, <1>7, <1>11, <1>12, <2>4
    <3> QED BY <1>2, <3>2, <3>3 DEF Gives
  <2> QED BY <1>1, <1>7, <2>3, <2>4
<1>13. CASE c <= n /\ v[c] = ":"
  <2>1. FirstOf(v, p, l) /\ l \in Nat /\ l >= p /\ l >= w
    <3>1. FirstOf(v, p, l) /\ l \in Nat /\ l >= w
          BY <1>6, <1>13
    <3>2. w \in c + 1 .. n + 1 /\ w \in Nat
      <4>1. p \in 0 .. n + 1
            BY <1>1
      <4> QED BY <1>13, <4>1, ValueIs DEF c, w, n
    <3> QED BY <1>1, <1>7, <3>1, <3>2
  <2>2. CASE l > n
    <3>1. r = NoRequest
          BY <1>1, <1>7, <1>9, <1>13, <2>2
    <3>2. HostsFrom(v, p) = {} /\ OpenField(v)
          BY <1>11, <1>13, <2>1, <2>2
    <3> QED BY <1>2, <3>1, <3>2 DEF Gives
  <2>3. CASE l <= n /\ SubSeq(v, p, c - 1) = <<"Host">>
    <3>1. r = host(v, p, c, w, l)
          BY <1>1, <1>7, <1>9, <1>13, <2>1, <2>3
    <3>2. c = p + 1 /\ v[p] = "Host"
      <4>1. p >= 1 /\ c <= Len(v)
            BY <1>1, <1>13 DEF n
      <4> QED BY <1>1, <1>7, <2>3, <4>1, HostFieldIs
    <3>3. l \in Ends(v) /\ l >= p /\ \A i \in Ends(v) : i >= p => l <= i
          BY <2>1, <2>3 DEF FirstOf, n
    <3>4. p \in HostLines(v)
          BY <1>8, <1>13, <3>2, <3>3 DEF HostLines, Complete
    <3>5. Min(HostsFrom(v, p)) = p
      <4> DEFINE H == HostsFrom(v, p)
      <4>1. p \in H /\ H \in SUBSET Nat /\ \A s \in H : s >= p
            BY <1>1, <1>4, <3>4 DEF HostsFrom
      <4> HIDE DEF H
      <4>2. Min(H) \in H /\ Min(H) <= p
            BY <4>1, MinIs
      <4>3. Min(H) = p
            BY <1>1, <4>1, <4>2
      <4> QED BY <4>3 DEF H
    <3>6. FirstEnd(v, p) = l
      <4> DEFINE E == {i \in Ends(v) : i >= p}
      <4>1. l \in E /\ E \in SUBSET Nat /\ \A i \in E : l <= i
            BY <1>3, <3>3
      <4>2. FirstEnd(v, p) = Min(E)
            BY DEF FirstEnd
      <4> HIDE DEF E
      <4>3. Min(E) \in E /\ Min(E) <= l
            BY <4>1, MinIs
      <4> QED BY <4>1, <4>2, <4>3
    <3>7. HostsFrom(v, p) # {}
      <4>1. p >= p
            BY <1>1
      <4> QED BY <3>4, <4>1 DEF HostsFrom
    <3>8. r = host(v, p, p + 1, Value(v, p), FirstEnd(v, p))
          BY <3>1, <3>2, <3>6 DEF w
    <3> HIDE DEF HostsFrom
    <3> QED BY <3>5, <3>7, <3>8 DEF Gives
  <2>4. CASE l <= n /\ SubSeq(v, p, c - 1) # <<"Host">>
    <3>1. r = f[l + 2]
          BY <1>1, <1>7, <1>9, <1>13, <2>1, <2>4
    <3>2. p \notin HostLines(v)
      <4> SUFFICES ASSUME p \in HostLines(v) PROVE FALSE
          OBVIOUS
      <4>1. c = p + 1 /\ v[p] = "Host"
            BY HostLineIs DEF c
      <4>2. p >= 1 /\ c <= Len(v)
            BY <1>1, <1>13 DEF n
      <4> QED BY <1>1, <1>7, <2>4, <4>1, <4>2, HostFieldIs
    <3> QED BY <1>10, <2>1, <2>4, <3>1, <3>2
  <2> QED BY <1>1, <2>1, <2>2, <2>3, <2>4
<1>14. Gives(v, p, r)
       BY <1>1, <1>7, <1>12, <1>13
<1> QED BY <1>14 DEF r

LEMMA ParseGives ==
    ASSUME NEW v \in Seq(Char), NEW p, AtLine(v, p)
    PROVE  Gives(v, p, parse_headers(v, p))
<1> DEFINE n == Len(v)
           f == ScanOf(v)
           I == {m \in Nat : \A q \in Nat : q + m > n /\ AtLine(v, q) => Gives(v, q, f[q])}
<1>1. p \in Nat /\ n \in Nat
      BY EndsIs DEF AtLine
<1>2. \A q \in Nat : f[q] = Scan(f, v, q)
      BY ScanIs
<1>3. \A q \in Nat : q > n => f[q] = [NoRequest EXCEPT !.present = TRUE]
      BY <1>2, Zenon DEF Scan
<1> HIDE DEF f, n
<1>4. ASSUME NEW m \in I PROVE m + 1 \in I
  <2> SUFFICES ASSUME NEW q \in Nat, q + (m + 1) > n, AtLine(v, q) PROVE Gives(v, q, f[q])
      OBVIOUS
  <2>1. ASSUME NEW j \in Nat, j > q, AtLine(v, j) PROVE Gives(v, j, f[j])
    <3>1. m \in Nat /\ j + m > n
          BY <1>1, <2>1
    <3> QED BY <2>1, <3>1
  <2>2. Gives(v, q, Scan(f, v, q))
        BY <1>3, <2>1, ScanGives DEF n
  <2> QED BY <1>2, <2>2
<1>5. 0 \in I
  <2> SUFFICES ASSUME NEW q \in Nat, q + 0 > n, AtLine(v, q) PROVE Gives(v, q, f[q])
      OBVIOUS
  <2>1. ~(q <= n)
        BY <1>1
  <2>2. Gives(v, q, Scan(f, v, q))
        BY <1>3, <2>1, ScanGives DEF n
  <2> QED BY <1>2, <2>2
<1>6. I \in SUBSET Nat
      OBVIOUS
<1> HIDE DEF I
<1>7. I = Nat
      BY <1>4, <1>5, <1>6, AllNaturals
<1>8. n + 1 \in I /\ p + (n + 1) > n
      BY <1>1, <1>7
<1>9. Gives(v, p, f[p])
      BY <1>1, <1>8 DEF I
<1> QED BY <1>9, ScansAre DEF f

\* The request line: two spaces before the first line end.
Light(s, k) == s[k] = " "
Space(v, k) == Find(v, k, LAMBDA i : v[i] = " ")

LEMMA SpaceIs ==
    ASSUME NEW v \in Seq(Char), NEW k \in 0 .. Len(v) + 1
    PROVE  /\ Space(v, k) \in k .. Len(v) + 1 /\ Space(v, k) \in Nat
           /\ Space(v, k) <= Len(v) => Light(v, Space(v, k))
           /\ \A i \in k .. Len(v) : Light(v, i) => Space(v, k) <= i
<1> DEFINE at == {i \in k .. Len(v) : Light(v, i)}
           f == Space(v, k)
<1>1. Len(v) \in Nat /\ at \in SUBSET (k .. Len(v))
      OBVIOUS
<1>2. f = IF at = {} THEN Len(v) + 1 ELSE Min(at)
      BY Zenon DEF Space, Find, Light
<1> HIDE DEF at, f
<1>3. /\ f \in k .. Len(v) + 1 /\ f \in Nat
      /\ f <= Len(v) => f \in at
      /\ \A i \in at : f <= i
      BY <1>1, <1>2, FirstIs, SMTT(60)
<1> QED BY <1>3 DEF at, f

LEMMA RequestIs ==
    ASSUME NEW v \in Seq(Char), RequestLine(v)
    PROVE  /\ Len(v) >= 2
           /\ \E p : /\ AtLine(v, p) /\ HostsFrom(v, p) = HostLines(v)
                     /\ parse_request(v) = parse_headers(v, p)
<1> DEFINE n == Len(v)
           m == Min(Ends(v))
           g == Space(v, 3)
           e == find_crlf(v, g)
<1>1. /\ n \in Nat /\ n >= 2 /\ Ends(v) # {} /\ looks_like_http(v)
  <2>1. Len(v) >= 2 /\ Ends(v) # {} /\ looks_like_http(v)
        BY Zenon DEF RequestLine, looks_like_http
  <2> QED BY <2>1
<1>2. Light(v, 2) /\ ~Light(v, 1)
  <2>1. v[1] = "GET" /\ v[2] = " "
        BY <1>1, Zenon DEF looks_like_http
  <2>2. "GET" # " "
        OBVIOUS
  <2> QED BY <2>1, <2>2, Zenon DEF Light
<1>3. PICK i \in 3 .. m - 1 : Light(v, i)
      BY Zenon DEF RequestLine, Light
<1>4. /\ Ends(v) \in SUBSET (1 .. n) /\ m \in Ends(v) /\ \A j \in Ends(v) : m <= j
      /\ \A j : j \in Ends(v) <=> j \in 1 .. n /\ line_ends(v, j)
  <2>1. Ends(v) \in SUBSET (1 .. n) /\ \A j : j \in Ends(v) <=> j \in 1 .. n /\ line_ends(v, j)
        BY DEF Ends
  <2>2. Ends(v) \in SUBSET Nat
        BY <2>1
  <2> QED BY <1>1, <2>1, <2>2, MinIs
<1>5. Space(v, 1) = 2
  <2> DEFINE f == Space(v, 1)
  <2>1. 1 \in 0 .. n + 1 /\ 2 \in 1 .. n
        BY <1>1
  <2>2. f \in 1 .. n + 1 /\ (f <= n => Light(v, f)) /\ \A j \in 1 .. n : Light(v, j) => f <= j
        BY <2>1, SpaceIs
  <2>3. f <= 2
        BY <1>2, <2>1, <2>2
  <2> HIDE DEF f
  <2>4. f # 1
        BY <1>1, <1>2, <2>2
  <2>5. f = 2
        BY <1>1, <2>2, <2>3, <2>4
  <2> QED BY <2>5 DEF f
<1>6. g \in 3 .. n + 1 /\ g \in Nat /\ g <= i
  <2>1. 3 \in 0 .. n + 1 /\ i \in 3 .. n
        BY <1>1, <1>3, <1>4
  <2> QED BY <1>3, <2>1, SpaceIs
<1>7. /\ e \in g .. n + 1 /\ e \in Nat /\ (e <= n => line_ends(v, e))
      /\ \A j \in g .. n : line_ends(v, j) => e <= j
  <2>1. g \in 0 .. n + 1
    <3> HIDE DEF g, n
    <3> QED BY <1>1, <1>6
  <2> QED BY <2>1, find_crlfIs
<1>8. parse_request(v) = IF ~looks_like_http(v) \/ e > n THEN NoRequest
                         ELSE parse_headers(v, e + 2)
  <2>1. parse_request(v) =
          IF ~looks_like_http(v) \/ find_crlf(v, Space(v, Space(v, 1) + 1)) > n
          THEN NoRequest
          ELSE parse_headers(v, find_crlf(v, Space(v, Space(v, 1) + 1)) + 2)
        BY Zenon DEF parse_request, Space
  <2>2. 2 + 1 = 3
        OBVIOUS
  <2> QED BY <1>5, <2>1, <2>2, Zenon
<1> HIDE DEF n, m, g, e
<1>9. e = m
  <2>1. m \in g .. n /\ line_ends(v, m)
        BY <1>3, <1>4, <1>6
  <2>2. e <= m
        BY <1>7, <2>1
  <2>3. e \in Ends(v)
    <3>1. e <= n /\ e \in 1 .. n
          BY <1>1, <1>6, <1>7, <2>1, <2>2
    <3> QED BY <1>4, <1>7, <3>1
  <2> QED BY <1>4, <1>7, <2>1, <2>2, <2>3
<1>10. parse_request(v) = parse_headers(v, m + 2)
  <2>1. ~(e > n)
        BY <1>1, <1>4, <1>9
  <2> QED BY <1>1, <1>8, <1>9, <2>1
<1>11. ASSUME NEW s \in Starts(v) PROVE s \in Nat /\ m + 2 <= s
  <2>1. s \in Nat /\ s - 2 \in Ends(v)
        BY EndsIs
  <2>2. m <= s - 2 /\ m \in Nat
        BY <1>4, <2>1
  <2> QED BY <2>1, <2>2
<1>12. AtLine(v, m + 2)
       BY <1>4, <1>11 DEF AtLine, Starts, Blank
<1>13. HostsFrom(v, m + 2) = HostLines(v)
  <2>1. ASSUME NEW s \in HostLines(v) PROVE s >= m + 2
    <3>1. s \in Starts(v)
          BY HostLineIs
    <3>2. m \in Nat
          BY <1>4
    <3> QED BY <1>11, <3>1, <3>2
  <2> QED BY <2>1 DEF HostsFrom
<1> QED BY <1>1, <1>10, <1>12, <1>13 DEF n

LEMMA RequestGives ==
    ASSUME NEW v \in Seq(Char), RequestLine(v)
    PROVE  LET r == parse_request(v)
               s == Min(HostLines(v))
               value == trim(SubSeq(v, s + 2, FirstEnd(v, s) - 1))
           IN  IF HostLines(v) = {}
               THEN r.present = ~OpenField(v) /\ r.header_len = 0 /\ r.hostname = <<>>
               ELSE /\ r.present /\ r.header_off = s - 1 /\ r.hostname = value
                    /\ value # <<>> =>
                         value = SubSeq(v, r.value_off + 1, r.value_off + Len(value))
<1> DEFINE n == Len(v)
           r == parse_request(v)
           s == Min(HostLines(v))
           e == FirstEnd(v, s)
           w == Value(v, s)
           z == value_end(v, w, e)
           value == trim(SubSeq(v, s + 2, e - 1))
<1>1. PICK p : /\ AtLine(v, p) /\ HostsFrom(v, p) = HostLines(v)
               /\ r = parse_headers(v, p)
      BY RequestIs
<1>2. Gives(v, p, r)
      BY <1>1, ParseGives
<1>3. CASE HostLines(v) = {}
      BY <1>1, <1>2, <1>3 DEF Gives
<1>4. CASE HostLines(v) # {}
  <2>1. r = host(v, s, s + 1, w, e)
        BY <1>1, <1>2, <1>4, Zenon DEF Gives
  <2>2. s \in HostLines(v)
    <3>1. HostLines(v) \in SUBSET Nat
          BY HostLineIs
    <3> QED BY <1>4, <3>1, MinIs
  <2> HIDE DEF s
  <2>3. /\ s \in Nat /\ s >= 3 /\ s < n /\ Complete(v, s) /\ Colon(v, s) = s + 1
        /\ v[s] = "Host" /\ v[s + 1] = ":" /\ n \in Nat
        BY <2>2, HostLineIs
  <2>4. e \in Ends(v) /\ e >= s
    <3> DEFINE E == {i \in Ends(v) : i >= s}
    <3>1. E # {}
          BY <2>3 DEF Complete
    <3>2. E \in SUBSET Nat
          BY EndsIs
    <3>3. e = Min(E)
          BY DEF FirstEnd
    <3>4. e \in E
      <4> HIDE DEF E, e
      <4> QED BY <3>1, <3>2, <3>3, MinIs
    <3> QED BY <3>4
  <2>5. e \in Nat /\ e < n /\ v[e] = "CR"
        BY <2>4, EndsIs
  <2>6. e >= s + 2
    <3>1. e # s /\ e # s + 1
          BY <2>3, <2>5
    <3> HIDE DEF e
    <3> QED BY <2>3, <2>4, <2>5, <3>1
  <2>7. Dark(v, e)
    <3>1. "CR" # " "
          OBVIOUS
    <3> QED BY <2>5, <3>1, Zenon DEF Dark
  <2>8. s \in 0 .. n + 1 /\ Colon(v, s) <= n
        BY <2>3
  <2>9. /\ w \in Colon(v, s) + 1 .. n + 1 /\ w \in Nat
        /\ w <= n => Dark(v, w)
        /\ \A i \in Colon(v, s) + 1 .. n : Dark(v, i) => w <= i
    <3>1. /\ w \in Colon(v, s) + 1 .. n + 1 /\ w \in Nat
          /\ w <= n => v[w] # " "
          /\ \A i \in Colon(v, s) + 1 .. n : v[i] # " " => w <= i
          BY <2>8, ValueIs
    <3> HIDE DEF w, n
    <3> QED BY <3>1, Zenon DEF Dark
  <2> HIDE DEF e, w
  <2>10. s + 2 \in Nat /\ s + 2 >= 1 /\ s + 2 <= e /\ e <= n /\ s + 2 <= w
    <3> HIDE DEF n
    <3>1. w \in Colon(v, s) + 1 .. n + 1
          BY <2>9
    <3> QED BY <2>3, <2>5, <2>6, <2>9, <3>1
  <2>11. \A i \in s + 2 .. n : Dark(v, i) => w <= i
    <3>1. Colon(v, s) + 1 = s + 2
          BY <2>3
    <3> QED BY <2>9, <3>1
  <2>12. /\ SubSeq(v, w, z) = value /\ z \in Nat /\ z + 1 >= w /\ z <= n
         BY <2>5, <2>7, <2>9, <2>10, <2>11, ValueIsTrimmed
  <2>13. /\ r.present /\ r.header_off = s - 1 /\ r.value_off = w - 1
         /\ r.hostname = SubSeq(v, w, z)
    <3>1. ASSUME NEW q, q = host(v, s, s + 1, w, e)
          PROVE  q.present /\ q.header_off = s - 1 /\ q.value_off = w - 1
                 /\ q.hostname = SubSeq(v, w, z)
          BY <3>1 DEF host
    <3> QED BY <2>1, <3>1
  <2>14. ASSUME value # <<>>
         PROVE  value = SubSeq(v, r.value_off + 1, r.value_off + Len(value))
    <3> HIDE DEF value, z, n, r
    <3>1. z >= w
      <4> SUFFICES ASSUME z + 1 = w PROVE FALSE
          BY <2>9, <2>12
      <4>1. SubSeq(v, w, z) = <<>>
            BY <2>9, <2>12, <2>10 DEF n
      <4> QED BY <2>12, <2>14, <4>1
    <3>2. Len(SubSeq(v, w, z)) = z - w + 1
          BY <2>9, <2>10, <2>12, <3>1 DEF n
    <3>3. r.value_off + 1 = w /\ r.value_off + Len(value) = z
          BY <2>9, <2>12, <2>13, <3>2
    <3> QED BY <2>12, <3>3
  <2> HIDE DEF value, z
  <2> QED BY <1>4, <2>12, <2>13, <2>14 DEF value, e, s
<1> QED BY <1>3, <1>4

\* What is found of a request in a packet that was inspected.
LEMMA RequestRead ==
    ASSUME InspectionAssumption, InspectInv, Inspected, packet.payload.type = "text",
           RequestLine(text)
    PROVE  text \in Seq(Char) /\ Examined /\ http = parse_request(text)
<1>1. /\ packet # NoPacket /\ verdict # "none" /\ is_tcp(packet.ip) /\ packet.outbound
      BY DEF Inspected
<1>2. text \in Seq(Char) /\ SizeOf(packet.payload) = payload_size(packet.ip)
      BY <1>1, PayloadIs DEF NoPayload, text
<1>3. SizeOf(packet.payload) = Len(text)
      BY DEF SizeOf, text
<1>4. Len(text) >= 2 /\ Len(text) # 0
      BY <1>2, RequestIs
<1>5. Examined
      BY <1>1, <1>2, <1>3, <1>4 DEF Examined
<1>6. http = ParsedHttp(packet.payload)
      BY <1>1, <1>5 DEF InspectInv
<1>7. http = parse_request(text)
      BY <1>6 DEF ParsedHttp, text
<1> QED BY <1>2, <1>5, <1>7

\* TLC checks HostIsFound on a few thousand texts; here for a text of any length: the
\* scan of the head goes from line to line, whatever is in the lines, and stops at the
\* first Host line, at the blank line or at an open one (http.cpp:51-125).
THEOREM HostsAreFound == InspectSpec => []HostIsFound
<1>1. InspectInv => HostIsFound
  <2> SUFFICES ASSUME InspectInv, Inspected, packet.payload.type = "text", RequestLine(text)
               PROVE  LET s == Min(HostLines(text))
                          value == trim(SubSeq(text, s + 2, FirstEnd(text, s) - 1))
                      IN  IF HostLines(text) = {}
                          THEN http.present = ~OpenField(text) /\ http.header_len = 0
                          ELSE /\ http.present /\ http.header_off = s - 1
                               /\ http.hostname = value
                               /\ value # <<>> =>
                                    value = SubSeq(text, http.value_off + 1,
                                                   http.value_off + Len(value))
      BY Zenon DEF HostIsFound
  <2>1. text \in Seq(Char) /\ http = parse_request(text)
        BY InspectionAssumption, RequestRead
  <2> QED BY <2>1, RequestGives
<1> QED BY <1>1, InspectInvHolds, PTL

-----------------------------------------------------------------------------
(* From the bytes to the verdict *)

LEMMA NameOfIs ==
    ASSUME NEW h \in AnyHello
    PROVE  NameOf(h) \in Name
<1> DEFINE K == Named(h)
<1>1. CASE K = {}
      BY <1>1 DEF NameOf, Name
<1>2. CASE K # {}
  <2>1. h.exts \in Seq(Extension(Seq(Char)))
        BY HelloTypes
  <2>2. K \in SUBSET Nat /\ \A k \in K : h.exts[k] \in Extension(Seq(Char))
        BY <2>1 DEF Named
  <2>3. Min(K) \in K
        BY <1>2, <2>2, MinIs
  <2>4. h.exts[Min(K)].host \in Seq(Char)
        BY <2>2, <2>3 DEF Extension
  <2> QED BY <1>2, <2>4 DEF NameOf, Name
<1> QED BY <1>1, <1>2

\* The worker decides by the name on the wire.
LEMMA NameOnTheWire ==
    ASSUME InspectionAssumption, InspectInv, Inspected, packet.payload # NoPayload,
           packet.payload.type = "tls" => Written(hello),
           packet.payload.type = "text" => RequestLine(text)
    PROVE  /\ Examined /\ verdict = Judged
           /\ TrueHost(packet.payload) \in Name
           /\ host_name(ParsedTls(packet.payload), ParsedHttp(packet.payload))
                = TrueHost(packet.payload)
<1> DEFINE y == packet.payload
           t == ParsedTls(y)
           r == ParsedHttp(y)
           N == TrueHost(y)
<1>1. /\ packet # NoPacket /\ verdict # "none" /\ is_tcp(packet.ip) /\ packet.outbound
      BY DEF Inspected
<1>2. /\ SizeOf(y) = payload_size(packet.ip)
      /\ \/ y.type = "tls" /\ y.hello \in AnyHello
         \/ y.type = "text" /\ y.text \in Seq(Char)
      BY <1>1, PayloadIs
<1>3. NoTls.present = FALSE /\ NoRequest.present = FALSE /\ NoRequest.hostname = <<>>
      BY DEF NoTls, Info, NoRequest
<1>4. CASE y.type = "tls"
  <2>1. hello \in AnyHello /\ Written(hello)
        BY <1>2, <1>4 DEF hello
  <2> DEFINE p == parse_client_hello(hello)
  <2>2. /\ hello.size >= 9 /\ sniff_tls(Tls(hello)) /\ p.present = TRUE
        /\ p.hostname = NameOf(hello)
        BY <2>1, WrittenIsRead
  <2>3. Examined
    <3>1. SizeOf(y) = hello.size
          BY <1>4 DEF SizeOf, hello
    <3>2. hello.size # 0
          BY <2>1, <2>2, HelloTypes
    <3> QED BY <1>1, <1>2, <3>1, <3>2 DEF Examined
  <2>4. sniff_tls(y)
        BY <1>4, <2>2 DEF sniff_tls, Tls, hello
  <2>5. t = p /\ r = NoRequest
        BY <1>4, <2>4 DEF ParsedTls, ParsedHttp, hello
  <2>6. N = NameOf(hello)
        BY <1>4, <2>1 DEF TrueHost, hello
  <2> HIDE DEF y, t, r, N, p
  <2>7. host_name(t, r) = NameOf(hello)
        BY <1>3, <2>2, <2>5 DEF host_name
  <2>8. verdict = Judged
        BY <1>1, <2>3 DEF InspectInv
  <2> QED BY <2>1, <2>3, <2>6, <2>7, <2>8, NameOfIs DEF N, t, r, y
<1>5. CASE y.type = "text"
  <2>1. text \in Seq(Char) /\ RequestLine(text) /\ Examined /\ http = parse_request(text)
        BY <1>5, RequestRead
  <2>2. verdict = Judged
        BY <1>1, <2>1 DEF InspectInv
  <2> DEFINE q == parse_request(text)
             s == Min(HostLines(text))
             value == trim(SubSeq(text, s + 2, FirstEnd(text, s) - 1))
  <2>3. t = NoTls /\ r = q
        BY <1>5 DEF ParsedTls, ParsedHttp, sniff_tls, text
  <2>4. /\ HostLines(text) = {} => q.hostname = <<>>
        /\ HostLines(text) # {} => q.present /\ q.hostname = value
        BY <2>1, RequestGives
  <2>5. N = IF HostLines(text) # {} THEN value ELSE <<>>
        BY <1>5, <2>1 DEF TrueHost, text
  <2>6. N \in Name
    <3>1. HostLines(text) # {} => value \in Name
      <4> SUFFICES ASSUME HostLines(text) # {} PROVE value \in Name
          OBVIOUS
      <4>1. HostLines(text) \in SUBSET Nat
            BY <2>1, HostLineIs
      <4>2. s \in HostLines(text)
            BY <4>1, MinIs
      <4>3. s \in Nat /\ s >= 3 /\ s < Len(text) /\ Complete(text, s)
            BY <2>1, <4>2, HostLineIs
      <4> DEFINE E == {i \in Ends(text) : i >= s}
                 e == FirstEnd(text, s)
      <4>4. E # {} /\ E \in SUBSET Nat /\ e = Min(E)
            BY <2>1, <4>3, EndsIs DEF Complete, FirstEnd
      <4> HIDE DEF e
      <4>5. e \in E
        <5> HIDE DEF E
        <5> QED BY <4>4, MinIs
      <4>6. e \in Nat /\ e < Len(text)
            BY <2>1, <4>5, EndsIs
      <4> HIDE DEF s, E
      <4>7. SubSeq(text, s + 2, e - 1) \in Name
            BY <2>1, <4>3, <4>6 DEF Name
      <4> QED BY <4>7, trimIs DEF e, s
    <3> QED BY <2>5, <3>1 DEF Name
  <2> HIDE DEF y, t, r, N, q, value
  <2>7. host_name(t, r) = N
        BY <1>3, <2>3, <2>4, <2>5 DEF host_name
  <2> QED BY <2>1, <2>2, <2>6, <2>7 DEF N, t, r, y
<1> QED BY <1>2, <1>4, <1>5

\* From the bytes of a packet to its verdict: the two parsers, the choice between what
\* they found, the list of domains and its mode together decide as the rules say of the
\* name on the wire, for every list and every packet (engine.cpp:126-146).
THEOREM RulesDecide == InspectSpec => []StrategiesMeetTheRules
<1>1. InspectInv /\ ListInv => StrategiesMeetTheRules
  <2> DEFINE N == TrueHost(packet.payload)
  <2> SUFFICES ASSUME InspectInv, ListInv, Inspected, packet.payload # NoPayload,
                      packet.payload.type = "tls" => Written(hello),
                      packet.payload.type = "text" => RequestLine(text),
                      OneColon(N) \/ rules = <<>>
               PROVE  verdict = "pipeline" <=> \/ mode_ = "Off"
                                               \/ N = <<>> /\ mode_ = "Blocklist"
                                               \/ N # <<>> /\ Decision(NoPort(N))
      BY Zenon DEF StrategiesMeetTheRules
  <2>1. /\ verdict = Judged /\ N \in Name
        /\ host_name(ParsedTls(packet.payload), ParsedHttp(packet.payload)) = N
        BY InspectionAssumption, NameOnTheWire
  <2>2. verdict = IF allowed(N) THEN "pipeline" ELSE "passed"
        BY <2>1, Zenon DEF Judged
  <2>3. verdict = "pipeline" <=> allowed(N)
        BY <2>2
  <2>4. should_apply(N) <=> Decision(NoPort(N))
        BY <2>1, DomainFilterAssumption, ListDecides
  <2> HIDE DEF N
  <2> QED BY <2>3, <2>4, Zenon DEF allowed
<1> QED BY <1>1, InspectInvHolds, ListInvHolds, PTL

=============================================================================
