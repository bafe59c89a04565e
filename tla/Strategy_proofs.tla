-------------------------- MODULE Strategy_proofs --------------------------
(***************************************************************************)
(* What holds of Strategy for every set of segments, parameters, pipelines *)
(* and lengths of the next segment, and any number of losses.              *)
(***************************************************************************)
EXTENDS Strategy, FiniteSetTheorems, WellFoundedInduction, TLAPS

-----------------------------------------------------------------------------
(* Sums: the recursive function of SumUpTo exists, and is what it says *)

LEMMA LeastNatural ==
    ASSUME NEW I \in SUBSET Nat, I # {}
    PROVE  \E m \in I : \A k \in I : m <= k
<1> DEFINE R == {r \in Nat \X Nat : r[1] < r[2]}
<1>1. IsWellFoundedOn(R, Nat)
      BY NatLessThanWellFounded DEF OpToRel
<1>2. PICK m \in I : \A k \in I : ~(<<k, m>> \in R)
      BY <1>1, WFMin
<1>3. \A k \in I : ~(k < m)
      BY <1>2
<1> QED BY <1>3

\* A set of numbers that has 0 and the successor of each of its members is Nat.
LEMMA AllNaturals ==
    ASSUME NEW I \in SUBSET Nat, 0 \in I, \A n \in I : n + 1 \in I
    PROVE  I = Nat
<1> SUFFICES ASSUME Nat \ I # {} PROVE FALSE
    OBVIOUS
<1>1. PICK m \in Nat \ I : \A k \in Nat \ I : m <= k
      BY LeastNatural
<1>2. m - 1 \in Nat /\ m - 1 \in I /\ m = (m - 1) + 1
      BY <1>1
<1> QED BY <1>1, <1>2

\* s has the sums of the first 0, 1, ..., n numbers of g.
Upto(g, s, n) == /\ s \in [0 .. n -> Nat] /\ s[0] = 0
                 /\ \A k \in 1 .. n : s[k] = s[k - 1] + g[k]

LEMMA UptoLonger ==
    ASSUME NEW g \in [Nat -> Nat], NEW m \in Nat, NEW s, Upto(g, s, m)
    PROVE  \E t : Upto(g, t, m + 1)
<1> DEFINE z == [k \in 0 .. m + 1 |-> IF k = m + 1 THEN s[m] + g[m + 1] ELSE s[k]]
<1>1. s \in [0 .. m -> Nat] /\ s[m] \in Nat /\ g[m + 1] \in Nat
      BY DEF Upto
<1>2. z \in [0 .. m + 1 -> Nat]
  <2>1. ASSUME NEW k \in 0 .. m + 1
        PROVE  (IF k = m + 1 THEN s[m] + g[m + 1] ELSE s[k]) \in Nat
    <3>1. CASE k = m + 1
      <4> DEFINE v == s[m]
                 w == g[m + 1]
      <4>1. v \in Nat /\ w \in Nat
            BY <1>1
      <4> HIDE DEF v, w
      <4>2. v + w \in Nat
            BY <4>1
      <4> QED BY <3>1, <4>2 DEF v, w
    <3>2. CASE k # m + 1
      <4>1. k \in 0 .. m
            BY <3>2
      <4>2. s[k] \in Nat
            BY <1>1, <4>1
      <4> QED BY <3>2, <4>2
    <3> QED BY <3>1, <3>2
  <2> QED BY <2>1
<1>3. z[0] = 0
      BY <1>1 DEF Upto
<1>4. ASSUME NEW k \in 1 .. m + 1 PROVE z[k] = z[k - 1] + g[k]
  <2>1. /\ k - 1 \in 0 .. m /\ k - 1 \in 0 .. m + 1 /\ k - 1 # m + 1
        /\ k \in 0 .. m + 1
        OBVIOUS
  <2>2. z[k - 1] = s[k - 1]
        BY <2>1
  <2>3. CASE k = m + 1
        BY <1>1, <2>1, <2>2, <2>3
  <2>4. CASE k # m + 1
    <3>1. k \in 1 .. m
          BY <2>4
    <3> QED BY <1>1, <2>1, <2>2, <2>4, <3>1 DEF Upto
  <2> QED BY <2>3, <2>4
<1> HIDE DEF z
<1> QED BY <1>2, <1>3, <1>4 DEF Upto

LEMMA UptoExists ==
    ASSUME NEW g \in [Nat -> Nat], NEW n \in Nat
    PROVE  \E s : Upto(g, s, n)
<1> DEFINE I == {m \in Nat : \E s : Upto(g, s, m)}
<1>1. 0 \in I
  <2>1. Upto(g, [k \in 0 .. 0 |-> 0], 0)
        BY DEF Upto
  <2> QED BY <2>1
<1>2. \A m \in I : m + 1 \in I
      BY UptoLonger
<1>3. I \in SUBSET Nat
      OBVIOUS
<1> HIDE DEF I
<1>4. I = Nat
      BY <1>1, <1>2, <1>3, AllNaturals
<1> QED BY <1>4 DEF I

LEMMA UptoUnique ==
    ASSUME NEW g, NEW m \in Nat, NEW n \in Nat, NEW s, NEW t,
           Upto(g, s, m), Upto(g, t, n), NEW k \in Nat, k <= m, k <= n
    PROVE  s[k] = t[k]
<1> DEFINE I == {j \in Nat : j <= m /\ j <= n => s[j] = t[j]}
<1>1. 0 \in I
      BY DEF Upto
<1>2. ASSUME NEW j \in I PROVE j + 1 \in I
      BY DEF Upto
<1>3. I \in SUBSET Nat
      OBVIOUS
<1> HIDE DEF I
<1>4. I = Nat
      BY <1>1, <1>2, <1>3, AllNaturals
<1> QED BY <1>4 DEF I

\* What a reader of SumUpTo expects.
LEMMA SumUpToIs ==
    ASSUME NEW g \in [Nat -> Nat]
    PROVE  /\ SumUpTo(g, 0) = 0
           /\ \A n \in Nat : /\ SumUpTo(g, n) \in Nat
                             /\ SumUpTo(g, n + 1) = SumUpTo(g, n) + g[n + 1]
<1> DEFINE P(n) == CHOOSE s : Upto(g, s, n)
           f == [n \in Nat |-> P(n)[n]]
           IsSum(h) == h = [n \in Nat |-> IF n = 0 THEN 0 ELSE h[n - 1] + g[n]]
           S == CHOOSE h : IsSum(h)
<1>1. ASSUME NEW n \in Nat PROVE Upto(g, P(n), n)
      BY UptoExists
<1> HIDE DEF P
<1>2. ASSUME NEW n \in Nat PROVE f[n] = IF n = 0 THEN 0 ELSE f[n - 1] + g[n]
  <2>1. CASE n = 0
        BY <1>1, <2>1 DEF Upto
  <2>2. CASE n # 0
    <3>1. n - 1 \in Nat
          BY <2>2
    <3>2. P(n)[n] = P(n)[n - 1] + g[n]
      <4>1. n \in 1 .. n
            BY <2>2
      <4>2. \A k \in 1 .. n : P(n)[k] = P(n)[k - 1] + g[k]
            BY <1>1 DEF Upto
      <4> QED BY <4>1, <4>2
    <3>3. P(n)[n - 1] = P(n - 1)[n - 1]
          BY <1>1, <3>1, UptoUnique
    <3> QED BY <2>2, <3>1, <3>2, <3>3
  <2> QED BY <2>1, <2>2
<1>3. IsSum(f)
      BY <1>2
<1> HIDE DEF f
<1>4. IsSum(S)
      BY <1>3
<1>5. \A n : SumUpTo(g, n) = S[n]
      BY DEF SumUpTo
<1> HIDE DEF S
<1>6. S[0] = 0 /\ \A n \in Nat : S[n + 1] = S[n] + g[n + 1]
      BY <1>4
<1> DEFINE I == {n \in Nat : S[n] \in Nat}
<1>7. 0 \in I /\ \A n \in I : n + 1 \in I
      BY <1>6
<1>8. I \in SUBSET Nat
      OBVIOUS
<1> HIDE DEF I
<1>9. I = Nat
      BY <1>7, <1>8, AllNaturals
<1>10. \A n \in Nat : S[n] \in Nat
      BY <1>9 DEF I
<1> QED BY <1>5, <1>6, <1>10

\* A sum of more numbers is not smaller.
LEMMA SumGrows ==
    ASSUME NEW g \in [Nat -> Nat], NEW m \in Nat, NEW n \in Nat, m <= n
    PROVE  SumUpTo(g, m) <= SumUpTo(g, n)
<1> DEFINE I == {j \in Nat : SumUpTo(g, m) <= SumUpTo(g, m + j)}
<1>1. 0 \in I
      BY SumUpToIs
<1>2. ASSUME NEW j \in I PROVE j + 1 \in I
  <2>1. j \in Nat /\ SumUpTo(g, m) <= SumUpTo(g, m + j)
        OBVIOUS
  <2>2. m + j \in Nat /\ m + (j + 1) = (m + j) + 1 /\ g[(m + j) + 1] \in Nat
        BY <2>1
  <2>3. SumUpTo(g, m + (j + 1)) = SumUpTo(g, m + j) + g[(m + j) + 1]
        BY <2>2, SumUpToIs
  <2>4. SumUpTo(g, m) <= SumUpTo(g, m + (j + 1))
        BY <2>1, <2>2, <2>3, SumUpToIs
  <2> QED BY <2>1, <2>4
<1>3. I \in SUBSET Nat
      OBVIOUS
<1> HIDE DEF I
<1>4. I = Nat
      BY <1>1, <1>2, <1>3, AllNaturals
<1>5. n - m \in Nat /\ m + (n - m) = n
      OBVIOUS
<1>6. n - m \in I
      BY <1>4, <1>5
<1> QED BY <1>5, <1>6 DEF I
-----------------------------------------------------------------------------
(* Headers *)

LEMMA HeaderIs ==
    ASSUME NEW x, x.chain \in Seq(NextHeader), NEW k
    PROVE  /\ header(x, k).kind \in 0 .. 255 /\ header(x, k).len \in 0 .. 255
           /\ hlen(header(x, k)) \in Nat /\ hlen(header(x, k)) >= 8
<1>1. header(x, k) \in NextHeader
  <2>1. CASE k \in DOMAIN x.chain
        BY <2>1 DEF header
  <2>2. CASE k \notin DOMAIN x.chain
        BY <2>2 DEF header, NextHeader, NoNext
  <2> QED BY <2>1, <2>2
<1>2. header(x, k).kind \in 0 .. 255 /\ header(x, k).len \in 0 .. 255
      BY <1>1 DEF NextHeader
<1> DEFINE n == header(x, k).len
<1>3. n \in Nat /\ (n + 2) * 4 \in Nat /\ (n + 2) * 4 >= 8
      /\ (n + 1) * 8 \in Nat /\ (n + 1) * 8 >= 8
  <2>1. n \in 0 .. 255
        BY <1>2
  <2> HIDE DEF n
  <2> QED BY <2>1
<1>4. \/ hlen(header(x, k)) = (n + 2) * 4
      \/ hlen(header(x, k)) = (n + 1) * 8
      BY DEF hlen
<1> HIDE DEF n
<1> QED BY <1>2, <1>3, <1>4

\* The headers of a chain follow each other, each of eight bytes or more.
LEMMA ChainOffIs ==
    ASSUME NEW x, x.chain \in Seq(NextHeader), NEW k \in Nat \ {0}
    PROVE  /\ chain_off(x, k) \in Nat /\ chain_off(x, k) >= 40
           /\ chain_off(x, k + 1) = chain_off(x, k) + hlen(header(x, k))
           /\ \A n \in Nat : n >= k => chain_off(x, k) <= chain_off(x, n)
<1> DEFINE g == [j \in Nat |-> hlen(header(x, j))]
<1>1. g \in [Nat -> Nat]
      BY HeaderIs
<1>2. \A n : chain_off(x, n) = 40 + SumUpTo(g, n - 1)
      BY DEF chain_off
<1>3. k - 1 \in Nat /\ (k + 1) - 1 = (k - 1) + 1 /\ (k - 1) + 1 = k
      OBVIOUS
<1>4. g[k] = hlen(header(x, k)) /\ g[k] \in Nat
      BY <1>1
<1> HIDE DEF g
<1>5. SumUpTo(g, k - 1) \in Nat /\ SumUpTo(g, (k - 1) + 1) = SumUpTo(g, k - 1) + g[k]
      BY <1>1, <1>3, SumUpToIs
<1>6. ASSUME NEW n \in Nat, n >= k PROVE chain_off(x, k) <= chain_off(x, n)
  <2>1. n - 1 \in Nat /\ k - 1 <= n - 1
        BY <1>6
  <2>2. SumUpTo(g, k - 1) <= SumUpTo(g, n - 1) /\ SumUpTo(g, n - 1) \in Nat
        BY <1>1, <1>3, <2>1, SumGrows, SumUpToIs
  <2> QED BY <1>2, <1>5, <2>2
<1>7. chain_off(x, k) = 40 + SumUpTo(g, k - 1)
      BY <1>2
<1>8. chain_off(x, k + 1) = 40 + SumUpTo(g, (k - 1) + 1)
      BY <1>2, <1>3
<1>9. /\ chain_off(x, k) \in Nat /\ chain_off(x, k) >= 40
      /\ chain_off(x, k + 1) = chain_off(x, k) + hlen(header(x, k))
      BY <1>3, <1>4, <1>5, <1>7, <1>8
<1> QED BY <1>6, <1>9

\* Which headers the view takes, and which packet it calls valid.
ip_part(x) == CASE x.ver = 4 -> parse_ipv4(x)
                [] x.ver = 6 -> parse_ipv6_chain(x)
                [] OTHER     -> NoHeader

Fits(x) == ~(x.size < ip_part(x).len + 20 \/ x.doff * 4 < 20
               \/ ip_part(x).len + x.doff * 4 > x.size)

LEMMA ViewFields ==
    ASSUME NEW h, NEW n
    PROVE  \A b \in BOOLEAN :
             /\ View(b, h, n).valid = b /\ View(b, h, n).ip_hdr_len = h.len
             /\ View(b, h, n).ip_proto = h.proto /\ View(b, h, n).tcp_hdr_len = n
BY DEF View

LEMMA ResetIs ==
    ASSUME NEW x
    PROVE  reset(x) = IF ip_part(x).len = 0 THEN View(FALSE, ip_part(x), 0)
                      ELSE IF ip_part(x).proto # TCP THEN View(TRUE, ip_part(x), 0)
                      ELSE IF x.size < ip_part(x).len + 20 \/ x.doff * 4 < 20
                                \/ ip_part(x).len + x.doff * 4 > x.size
                      THEN View(FALSE, ip_part(x), 0)
                      ELSE View(TRUE, ip_part(x), x.doff * 4)
BY Zenon DEF reset, ip_part

\* A valid view of a TCP packet.
LEMMA ValidIs ==
    ASSUME NEW x
    PROVE  /\ reset(x).ip_hdr_len = ip_part(x).len /\ reset(x).ip_proto = ip_part(x).proto
           /\ reset(x).valid /\ reset(x).ip_proto = TCP =>
                /\ ip_part(x).len # 0 /\ Fits(x) /\ reset(x).tcp_hdr_len = x.doff * 4
           /\ ip_part(x).len # 0 /\ ip_part(x).proto = TCP /\ Fits(x) =>
                /\ reset(x).valid /\ reset(x).tcp_hdr_len = x.doff * 4
<1> DEFINE h == ip_part(x)
           fit == Fits(x)
<1>1. reset(x) = IF h.len = 0 THEN View(FALSE, h, 0)
                 ELSE IF h.proto # TCP THEN View(TRUE, h, 0)
                 ELSE IF fit THEN View(TRUE, h, x.doff * 4) ELSE View(FALSE, h, 0)
      BY ResetIs, Zenon DEF Fits
<1> DEFINE d == x.doff * 4
           r == reset(x)
<1> HIDE DEF h, fit, d, r
<1>2. /\ h.len = 0 => r = View(FALSE, h, 0)
      /\ h.len # 0 /\ h.proto # TCP => r = View(TRUE, h, 0)
      /\ h.len # 0 /\ h.proto = TCP /\ fit => r = View(TRUE, h, d)
      /\ h.len # 0 /\ h.proto = TCP /\ ~fit => r = View(FALSE, h, 0)
      BY <1>1 DEF d, r
<1> DEFINE Facts == /\ r.ip_hdr_len = h.len /\ r.ip_proto = h.proto
                    /\ r.valid = TRUE \/ r.valid = FALSE
                    /\ (r.valid = TRUE) /\ r.ip_proto = TCP =>
                         h.len # 0 /\ fit /\ r.tcp_hdr_len = d
                    /\ h.len # 0 /\ h.proto = TCP /\ fit =>
                         (r.valid = TRUE) /\ r.tcp_hdr_len = d
<1>3. ASSUME h.len = 0 PROVE Facts
  <2>1. View(FALSE, h, 0).valid = FALSE /\ View(FALSE, h, 0).ip_hdr_len = h.len
        /\ View(FALSE, h, 0).ip_proto = h.proto
        BY ViewFields, Zenon
  <2> QED BY <1>2, <1>3, <2>1
<1>4. ASSUME h.len # 0 /\ h.proto # TCP PROVE Facts
  <2>1. View(TRUE, h, 0).valid = TRUE /\ View(TRUE, h, 0).ip_hdr_len = h.len
        /\ View(TRUE, h, 0).ip_proto = h.proto
        BY ViewFields, Zenon
  <2> QED BY <1>2, <1>4, <2>1
<1>5. ASSUME h.len # 0 /\ h.proto = TCP /\ fit PROVE Facts
  <2>1. View(TRUE, h, d).valid = TRUE /\ View(TRUE, h, d).ip_hdr_len = h.len
        /\ View(TRUE, h, d).ip_proto = h.proto /\ View(TRUE, h, d).tcp_hdr_len = d
        BY DEF View
  <2> QED BY <1>2, <1>5, <2>1
<1>6. ASSUME h.len # 0 /\ h.proto = TCP /\ ~fit PROVE Facts
  <2>1. View(FALSE, h, 0).valid = FALSE /\ View(FALSE, h, 0).ip_hdr_len = h.len
        /\ View(FALSE, h, 0).ip_proto = h.proto
        BY ViewFields, Zenon
  <2> QED BY <1>2, <1>6, <2>1
<1>7. Facts
  <2> HIDE DEF Facts
  <2> QED BY <1>3, <1>4, <1>5, <1>6
<1> QED BY <1>7 DEF h, fit, d, r

\* What the view of a TCP packet knows.
LEMMA ViewIs ==
    ASSUME NEW x, x.chain \in Seq(NextHeader), x.ihl \in 0 .. 15, x.doff \in 0 .. 15,
           x.size \in Nat, reset(x).valid, reset(x).ip_proto = TCP
    PROVE  /\ x.ver \in {4, 6}
           /\ reset(x).tcp_hdr_len = 4 * x.doff /\ x.doff \in 5 .. 15
           /\ reset(x).ip_hdr_len \in Nat /\ reset(x).ip_hdr_len >= 20
           /\ x.ver = 6 => reset(x).ip_hdr_len >= 40
           /\ reset(x).ip_hdr_len + reset(x).tcp_hdr_len <= x.size
<1> DEFINE h == ip_part(x)
<1>1. /\ h.len # 0 /\ h.proto = TCP
      /\ reset(x).ip_hdr_len = h.len /\ reset(x).tcp_hdr_len = x.doff * 4
      /\ ~(x.size < h.len + 20) /\ ~(x.doff * 4 < 20) /\ ~(h.len + x.doff * 4 > x.size)
      BY ValidIs DEF Fits
<1>2. x.ver \in {4, 6}
      BY <1>1 DEF NoHeader, ip_part
<1>3. h.len \in Nat /\ h.len >= 20 /\ (x.ver = 6 => h.len >= 40)
  <2>1. CASE x.ver = 4
    <3>1. h.len = x.ihl * 4 /\ ~(x.ihl * 4 < 20)
          BY <1>1, <2>1 DEF parse_ipv4, NoHeader, ip_part
    <3> DEFINE w == x.ihl
    <3>2. w \in 0 .. 15
          OBVIOUS
    <3> HIDE DEF w, h
    <3>3. ~(w * 4 < 20) => w * 4 \in Nat /\ w * 4 >= 20
          BY <3>2
    <3> QED BY <2>1, <3>1, <3>3 DEF w
  <2>2. CASE x.ver = 6
    <3>1. PICK k \in 1 .. 8 : h.len = chain_off(x, k)
      <4> DEFINE ends == {k \in 1 .. 8 : ~(extends(header(x, k))
                            /\ chain_off(x, k) + 8 <= x.size /\ chain_off(x, k + 1) <= x.size)}
      <4>1. ends # {} /\ h.len = chain_off(x, Min(ends))
            BY <1>1, <2>2 DEF parse_ipv6_chain, NoHeader, ip_part
      <4>2. Min(ends) \in ends
        <5>1. ends \in SUBSET Nat
              OBVIOUS
        <5> HIDE DEF ends
        <5> QED BY <4>1, <5>1, LeastNatural DEF Min
      <4> QED BY <4>1, <4>2
    <3>2. k \in Nat \ {0}
          OBVIOUS
    <3>3. chain_off(x, k) \in Nat /\ chain_off(x, k) >= 40
          BY <3>2, ChainOffIs
    <3> HIDE DEF h
    <3> QED BY <3>1, <3>3
  <2> QED BY <1>2, <2>1, <2>2
<1> DEFINE n == h.len
           d == x.doff
           s == x.size
<1>4. n \in Nat /\ n >= 20 /\ d \in 0 .. 15 /\ s \in Nat
      BY <1>3
<1>5. ~(d * 4 < 20) /\ ~(n + d * 4 > s)
      BY <1>1
<1> HIDE DEF h, n, d, s
<1>6. d \in 5 .. 15 /\ n + 4 * d <= s /\ d * 4 = 4 * d
      BY <1>4, <1>5
<1> USE DEF n, d, s
<1> QED BY <1>1, <1>2, <1>3, <1>6

\* A packet with the headers of another, of which it may have more TCP options and
\* another payload, is read alike.
LEMMA ParsesAlike ==
    ASSUME NEW x, x.chain \in Seq(NextHeader), x.ihl \in 0 .. 15, x.doff \in 0 .. 15,
           x.size \in Nat, reset(x).valid, reset(x).ip_proto = TCP,
           NEW y, y.ver = x.ver, y.ihl = x.ihl, y.chain = x.chain, y.doff \in 5 .. 15,
           y.size \in Nat, y.size >= reset(x).ip_hdr_len + 4 * y.doff
    PROVE  /\ reset(y).valid /\ reset(y).ip_proto = TCP
           /\ reset(y).ip_hdr_len = reset(x).ip_hdr_len
           /\ reset(y).tcp_hdr_len = 4 * y.doff
<1>1. /\ x.ver \in {4, 6} /\ reset(x).ip_hdr_len \in Nat /\ reset(x).ip_hdr_len >= 20
      /\ x.ver = 6 => reset(x).ip_hdr_len >= 40
      BY ViewIs
<1>2. ip_part(x).len = reset(x).ip_hdr_len /\ ip_part(x).proto = TCP
      BY ValidIs
<1>3. header(y, 1) = header(x, 1)
      BY DEF header
<1>4. ASSUME ip_part(y).len = ip_part(x).len, ip_part(y).proto = TCP
      PROVE  /\ reset(y).valid /\ reset(y).ip_proto = TCP
             /\ reset(y).ip_hdr_len = reset(x).ip_hdr_len
             /\ reset(y).tcp_hdr_len = 4 * y.doff
  <2> DEFINE n == ip_part(x).len
             d == y.doff
             s == y.size
  <2>1. n \in Nat /\ n >= 20 /\ d \in 5 .. 15 /\ s \in Nat /\ s >= n + 4 * d
        BY <1>1, <1>2
  <2>2. ip_part(y).len = n
        BY <1>4
  <2> HIDE DEF n, d, s
  <2>3. ~(s < n + 20) /\ ~(d * 4 < 20) /\ ~(n + d * 4 > s) /\ n # 0 /\ d * 4 = 4 * d
        BY <2>1
  <2> USE DEF d, s
  <2>4. Fits(y) /\ ip_part(y).len # 0
        BY <2>2, <2>3 DEF Fits
  <2>5. y.doff * 4 = 4 * y.doff
        BY <2>3
  <2> QED BY <1>2, <1>4, <2>2, <2>4, <2>5, ValidIs DEF n
<1>6. CASE x.ver = 4
  <2>1. header(x, 1).kind = TCP /\ parse_ipv4(x) # NoHeader
        BY <1>1, <1>2, <1>6 DEF parse_ipv4, NoHeader, ip_part
  <2>2. ip_part(x).len = x.ihl * 4 /\ ~(x.ihl * 4 < 20)
        BY <1>6, <2>1 DEF parse_ipv4, ip_part
  <2>3. y.size >= x.ihl * 4 /\ ~(y.size < 20)
    <3> DEFINE n == reset(x).ip_hdr_len
               d == y.doff
               s == y.size
    <3>1. n \in Nat /\ n >= 20 /\ d \in 5 .. 15 /\ s \in Nat /\ s >= n + 4 * d
          BY <1>1
    <3>2. n = x.ihl * 4
          BY <1>2, <2>2
    <3> HIDE DEF n, d, s
    <3>3. s >= n /\ ~(s < 20)
          BY <3>1
    <3> QED BY <3>2, <3>3 DEF s
  <2>4. ip_part(y) = [len |-> y.ihl * 4, proto |-> header(y, 1).kind]
    <3>1. ~(y.size < 20) /\ ~(y.ihl * 4 < 20) /\ ~(y.ihl * 4 > y.size)
      <4>1. \A w \in 0 .. 15 : w * 4 \in Nat
            OBVIOUS
      <4>2. x.ihl * 4 \in Nat
            BY <4>1
      <4> QED BY <2>2, <2>3, <4>2
    <3> QED BY <1>6, <3>1 DEF parse_ipv4, ip_part
  <2> QED BY <1>3, <1>4, <2>1, <2>2, <2>4
<1>5. CASE x.ver = 6
  <2> DEFINE more(z, k) == /\ extends(header(z, k))
                           /\ chain_off(z, k) + 8 <= z.size
                           /\ chain_off(z, k + 1) <= z.size
             ends(z) == {k \in 1 .. 8 : ~more(z, k)}
  <2>1. /\ \A k : header(y, k) = header(x, k)
        /\ \A k : chain_off(y, k) = chain_off(x, k)
        BY DEF header, chain_off
  <2>2. /\ ends(x) # {}
        /\ ~extends(header(x, Min(ends(x)))) /\ header(x, Min(ends(x))).kind = TCP
        /\ ip_part(x).len = chain_off(x, Min(ends(x)))
        BY <1>1, <1>2, <1>5 DEF parse_ipv6_chain, NoHeader, ip_part
  <2>3. Min(ends(x)) \in ends(x) /\ \A k \in ends(x) : Min(ends(x)) <= k
    <3>1. ends(x) \in SUBSET Nat
          OBVIOUS
    <3> HIDE DEF ends
    <3> QED BY <2>2, <3>1, LeastNatural DEF Min
  <2> DEFINE K == Min(ends(x))
  <2>4. K \in ends(y)
        BY <2>1, <2>2, <2>3
  <2>5. ASSUME NEW k \in 1 .. 8, k < K PROVE k \notin ends(y)
    <3>1. k \notin ends(x)
          BY <2>3, <2>5
    <3>2. extends(header(x, k))
          BY <3>1
    <3> HIDE DEF ends, more
    <3>3. K \in 1 .. 8
          BY <2>3 DEF ends
    <3>4. k + 1 <= K /\ k + 1 \in Nat \ {0} /\ k \in Nat \ {0} /\ K \in Nat
          BY <2>5, <3>3
    <3>5. /\ chain_off(x, k + 1) <= chain_off(x, K)
          /\ chain_off(x, k) + 8 <= chain_off(x, k + 1)
          /\ chain_off(x, k) \in Nat /\ chain_off(x, k + 1) \in Nat
      <4>1. /\ chain_off(x, k) \in Nat
            /\ chain_off(x, k + 1) = chain_off(x, k) + hlen(header(x, k))
            BY <3>4, ChainOffIs
      <4>2. hlen(header(x, k)) \in Nat /\ hlen(header(x, k)) >= 8
            BY HeaderIs
      <4>3. chain_off(x, k + 1) <= chain_off(x, K)
            BY <3>4, ChainOffIs
      <4> QED BY <4>1, <4>2, <4>3
    <3>6. chain_off(x, K) <= y.size /\ chain_off(x, K) \in Nat
      <4>1. chain_off(x, K) = reset(x).ip_hdr_len
            BY <1>2, <2>2
      <4> DEFINE n == reset(x).ip_hdr_len
                 d == y.doff
                 s == y.size
      <4>2. n \in Nat /\ d \in 5 .. 15 /\ s \in Nat /\ s >= n + 4 * d
            BY <1>1
      <4> HIDE DEF n, d, s
      <4>3. s >= n
            BY <4>2
      <4> QED BY <4>1, <4>2, <4>3 DEF n, s
    <3>7. more(y, k)
      <4>1. chain_off(x, k) + 8 <= y.size /\ chain_off(x, k + 1) <= y.size
            BY <3>5, <3>6
      <4> QED BY <2>1, <3>2, <4>1 DEF more
    <3> QED BY <3>7 DEF ends
  <2>6. Min(ends(y)) = K
    <3>1. ends(y) \in SUBSET (1 .. 8) /\ K \in 1 .. 8
          BY <2>4
    <3> HIDE DEF ends, K
    <3>2. \A k \in ends(y) : K <= k
          BY <2>5, <3>1
    <3>3. \A m \in ends(y) : (\A k \in ends(y) : m <= k) => m = K
          BY <2>4, <3>1, <3>2
    <3> QED BY <2>4, <3>2, <3>3 DEF Min
  <2>7. ends(y) # {} /\ y.size >= 40
    <3>1. reset(x).ip_hdr_len >= 40
          BY <1>1, <1>5
    <3>2. y.size >= 40
      <4> DEFINE n == reset(x).ip_hdr_len
                 d == y.doff
                 s == y.size
      <4>2. n \in Nat /\ n >= 40 /\ d \in 5 .. 15 /\ s \in Nat /\ s >= n + 4 * d
            BY <1>1, <3>1
      <4> HIDE DEF n, d, s
      <4>3. s >= 40
            BY <4>2
      <4> QED BY <4>3 DEF s
    <3> QED BY <2>4, <3>2
  <2>8. ip_part(y).len = ip_part(x).len /\ ip_part(y).proto = TCP
    <3>1. ~extends(header(y, Min(ends(y)))) /\ header(y, Min(ends(y))).kind = TCP
          BY <2>1, <2>2, <2>6
    <3>2. TCP # FRAGMENT
          BY DEF TCP, FRAGMENT
    <3>3. parse_ipv6_chain(y) = [len |-> chain_off(y, Min(ends(y))), proto |-> TCP]
      <4>1. ~(y.size < 40)
            BY <2>7
      <4> QED BY <2>7, <3>1, <3>2, <4>1 DEF parse_ipv6_chain
    <3>4. ip_part(y) = parse_ipv6_chain(y)
          BY <1>5 DEF ip_part
    <3> QED BY <2>1, <2>2, <2>6, <3>3, <3>4
  <2> QED BY <1>4, <2>8
<1> QED BY <1>1, <1>5, <1>6
-----------------------------------------------------------------------------
(* The segment and the builders made of it *)

LEMMA Uint16 == MaxUint16 \in Nat /\ MaxUint16 >= 120
BY DEF MaxUint16

LEMMA Modulo ==
    ASSUME NEW m \in Nat, NEW n \in Nat
    PROVE  n % (m + 1) \in 0 .. m /\ (n <= m => n % (m + 1) = n)
OBVIOUS

Ctx == /\ seg \in Segments /\ view = reset(seg.ip) /\ p \in Params
       /\ pipeline \in Pipelines /\ nextLen \in NextLens

\* The headers of the segment, and the room they leave in the buffer.
Hdr  == view.ip_hdr_len + view.tcp_hdr_len


LEMMA SegmentIs ==
    ASSUME Ctx
    PROVE  /\ seg.ip.ver \in {4, 6} /\ seg.ip.ihl \in 0 .. 15 /\ seg.ip.doff \in 5 .. 15
           /\ seg.ip.chain \in Seq(NextHeader) /\ seg.ip.length \in 0 .. MaxUint16
           /\ seg.ip.size \in Nat
           /\ reset(seg.ip).valid /\ reset(seg.ip).ip_proto = TCP
           /\ view.ip_hdr_len \in Nat /\ view.ip_hdr_len >= 20
           /\ seg.ip.ver = 6 => view.ip_hdr_len >= 40
           /\ view.tcp_hdr_len = 4 * seg.ip.doff
           /\ Hdr \in 40 .. kMaxMtu - 1 /\ Room \in 1 .. kMaxMtu /\ kMaxMtu \in 1 .. MaxUint16
           /\ pl \in Nat \ {0} /\ pl <= MaxUint16 /\ Whole = Hdr + pl
<1> DEFINE x == seg.ip
<1>1. /\ x \in Captured /\ WellFormed(x) /\ payload_size(x) > 0
      /\ reset(x).ip_hdr_len + reset(x).tcp_hdr_len < kMaxMtu
      BY StrategyAssumption DEF Ctx, Segment
<1>2. /\ x.ihl \in 0 .. 15 /\ x.doff \in 0 .. 15 /\ x.length \in 0 .. MaxUint16
      /\ x.chain \in Seq(NextHeader) /\ x.size \in Nat
      BY <1>1 DEF Captured
<1>3. pl = payload_size(x) /\ view = reset(x)
      BY DEF Ctx, pl, payload_size
<1>4. /\ reset(x).valid /\ reset(x).ip_proto = TCP
      /\ ip_total_length(x) >= reset(x).ip_hdr_len + reset(x).tcp_hdr_len
      /\ pl = ip_total_length(x) - (reset(x).ip_hdr_len + reset(x).tcp_hdr_len)
      BY <1>1, <1>3 DEF payload_size, payload_in
<1>5. /\ x.ver \in {4, 6}
      /\ reset(x).tcp_hdr_len = 4 * x.doff /\ x.doff \in 5 .. 15
      /\ reset(x).ip_hdr_len \in Nat /\ reset(x).ip_hdr_len >= 20
      /\ x.ver = 6 => reset(x).ip_hdr_len >= 40
      BY <1>2, <1>4, ViewIs
<1>6. ip_total_length(x) \in Nat /\ ip_total_length(x) <= MaxUint16
  <2>1. x.size = x.length + (IF x.ver = 4 THEN 0 ELSE 40) /\ x.size <= MaxUint16
        BY <1>1 DEF WellFormed
  <2>2. CASE x.ver = 4
        BY <1>2, <2>2, Uint16 DEF ip_total_length
  <2>3. CASE x.ver # 4
    <3>1. ip_total_length(x) = (x.length + 40) % (MaxUint16 + 1)
          BY <2>3 DEF ip_total_length
    <3> DEFINE n == x.length
    <3>2. n \in 0 .. MaxUint16
          BY <1>2
    <3> HIDE DEF n
    <3>3. (n + 40) % (MaxUint16 + 1) \in 0 .. MaxUint16
          BY <3>2, Uint16, Modulo
    <3> QED BY <3>1, <3>3, Uint16 DEF n
  <2> QED BY <2>2, <2>3
<1> DEFINE h == reset(x).ip_hdr_len
           d == x.doff
           n == ip_total_length(x)
<1>7. h \in Nat /\ h >= 20 /\ d \in 5 .. 15 /\ n \in Nat /\ n <= MaxUint16
      BY <1>5, <1>6
<1>8. /\ Hdr = h + 4 * d /\ pl = n - (h + 4 * d) /\ h + 4 * d < kMaxMtu /\ n >= h + 4 * d
      /\ pl > 0 /\ Room = kMaxMtu - Hdr /\ Whole = Hdr + pl
      BY <1>1, <1>3, <1>4, <1>5 DEF Hdr, Room, Whole
<1> HIDE DEF h, d, n
<1>9. /\ Hdr \in 40 .. kMaxMtu - 1 /\ Room \in 1 .. kMaxMtu /\ kMaxMtu \in 1 .. MaxUint16
      /\ pl \in Nat \ {0} /\ pl <= MaxUint16
      BY <1>7, <1>8, MtuAssumption, Uint16
<1> QED BY <1>2, <1>3, <1>4, <1>5, <1>8, <1>9

\* A builder whose headers are the segment's, but for TCP options, and that fits into
\* the buffer.
Kin(b) == /\ b \in Builder /\ b.doff \in 5 .. 15 /\ b.tcp_hdr_len = 4 * b.doff
          /\ b.ver = seg.ip.ver /\ b.ihl = seg.ip.ihl /\ b.chain = seg.ip.chain
          /\ b.ip_hdr_len = view.ip_hdr_len
          /\ size(b) <= kMaxMtu
LengthsAgree(b) == b.length = IF b.ver = 4 THEN size(b) ELSE size(b) - 40

\* What EmittedParsesBack says of one packet.
ParsesBack(b) ==
    LET v == reset(parsed(b))
    IN  /\ v.valid /\ v.ip_proto = TCP
        /\ v.ip_hdr_len = b.ip_hdr_len /\ v.tcp_hdr_len = b.tcp_hdr_len
        /\ payload_size(parsed(b)) = Len(b.body)

LEMMA HeadersFit ==
    ASSUME NEW m \in Nat, NEW k \in 1 .. m, NEW h \in Nat, h >= 20, NEW d \in 5 .. 15,
           NEW n \in Nat, h + 4 * d + n <= k
    PROVE  h + 4 * d \in 40 .. m /\ h + 4 * d + n \in (h + 4 * d) .. m
OBVIOUS

LEMMA RoomLeft ==
    \A k, h, w \in Nat : h + w <= k => k - (h + w) \in Nat /\ k - h - w = k - (h + w)
OBVIOUS

LEMMA KinSize ==
    ASSUME Ctx, NEW b, Kin(b)
    PROVE  /\ headers(b) = view.ip_hdr_len + 4 * b.doff /\ headers(b) \in 40 .. MaxUint16
           /\ b.body \in Seq(Int) /\ Len(b.body) \in Nat
           /\ size(b) = headers(b) + Len(b.body) /\ size(b) \in headers(b) .. MaxUint16
           /\ b.ip_hdr_len \in Nat /\ b.ip_hdr_len >= 20 /\ (b.ver = 6 => b.ip_hdr_len >= 40)
           /\ b.ver \in {4, 6}
<1>1. b.body \in Seq(Int) /\ b.doff \in 5 .. 15
      BY DEF Kin, Builder
<1>2. Len(b.body) \in Nat
      BY <1>1
<1>3. /\ headers(b) = view.ip_hdr_len + 4 * b.doff /\ size(b) = headers(b) + Len(b.body)
      /\ size(b) <= kMaxMtu
      BY DEF Kin, headers, size
<1>4. /\ b.ip_hdr_len \in Nat /\ b.ip_hdr_len >= 20 /\ (b.ver = 6 => b.ip_hdr_len >= 40)
      /\ b.ver \in {4, 6} /\ kMaxMtu \in 1 .. MaxUint16 /\ b.ip_hdr_len = view.ip_hdr_len
      BY SegmentIs DEF Kin
<1> DEFINE n == Len(b.body)
           h == view.ip_hdr_len
           d == b.doff
<1>5. n \in Nat /\ h \in Nat /\ h >= 20 /\ d \in 5 .. 15
      BY <1>1, <1>2, <1>4
<1>6. headers(b) = h + 4 * d /\ size(b) = headers(b) + n
      BY <1>3
<1> HIDE DEF n, h, d
<1>7. headers(b) \in 40 .. MaxUint16 /\ size(b) \in headers(b) .. MaxUint16
      BY <1>3, <1>4, <1>5, <1>6, Uint16, HeadersFit
<1> QED BY <1>1, <1>2, <1>3, <1>4, <1>7

\* A packet whose total length was recomputed is read as it was meant.
LEMMA KinParsesBack ==
    ASSUME Ctx, NEW b, Kin(b), LengthsAgree(b)
    PROVE  ParsesBack(b)
<1> DEFINE x == seg.ip
           y == parsed(b)
<1>1. /\ x.chain \in Seq(NextHeader) /\ x.ihl \in 0 .. 15 /\ x.doff \in 0 .. 15
      /\ x.size \in Nat /\ reset(x).valid /\ reset(x).ip_proto = TCP
      /\ view.ip_hdr_len = reset(x).ip_hdr_len
      BY SegmentIs DEF Ctx
<1>2. /\ y.ver = x.ver /\ y.ihl = x.ihl /\ y.chain = x.chain /\ y.doff = b.doff
      /\ y.doff \in 5 .. 15 /\ y.size = size(b) /\ y.length = b.length
      BY DEF parsed, Kin
<1>3. /\ headers(b) = reset(x).ip_hdr_len + 4 * y.doff /\ headers(b) \in 40 .. MaxUint16
      /\ Len(b.body) \in Nat
      /\ size(b) = headers(b) + Len(b.body) /\ size(b) \in headers(b) .. MaxUint16
      /\ b.ver \in {4, 6}
      BY <1>1, <1>2, KinSize
<1>4. y.size \in Nat /\ y.size >= reset(x).ip_hdr_len + 4 * y.doff
      BY <1>2, <1>3
<1> HIDE DEF y
<1>5. /\ reset(y).valid /\ reset(y).ip_proto = TCP
      /\ reset(y).ip_hdr_len = reset(x).ip_hdr_len /\ reset(y).tcp_hdr_len = 4 * y.doff
      BY <1>1, <1>2, <1>4, ParsesAlike
<1>6. ip_total_length(y) = size(b)
  <2>1. CASE b.ver = 4
        BY <1>2, <2>1 DEF ip_total_length, LengthsAgree, Kin
  <2>2. CASE b.ver # 4
    <3>1. ip_total_length(y) = (b.length + 40) % (MaxUint16 + 1) /\ b.length = size(b) - 40
          BY <1>2, <2>2 DEF ip_total_length, LengthsAgree, Kin
    <3> DEFINE n == size(b)
    <3>2. n \in 40 .. MaxUint16
          BY <1>3
    <3> HIDE DEF n
    <3>3. (n - 40 + 40) % (MaxUint16 + 1) = n
      <4>1. n - 40 + 40 = n /\ n \in Nat /\ n <= MaxUint16
            BY <3>2, Uint16
      <4> QED BY <4>1, Uint16, Modulo
    <3> QED BY <3>1, <3>3 DEF n
  <2> QED BY <2>1, <2>2
<1>7. payload_size(y) = Len(b.body)
  <2> DEFINE h == reset(y).ip_hdr_len + reset(y).tcp_hdr_len
             n == Len(b.body)
  <2>1. payload_size(y) = IF size(b) >= h THEN size(b) - h ELSE 0
        BY <1>5, <1>6 DEF payload_size, payload_in
  <2>2. h = headers(b)
        BY <1>3, <1>5
  <2>3. size(b) = h + n /\ h \in 40 .. MaxUint16 /\ n \in Nat
        BY <1>3, <2>2
  <2> HIDE DEF h, n
  <2>4. payload_size(y) = n
        BY <2>1, <2>3
  <2> QED BY <2>4 DEF n
<1> QED BY <1>1, <1>2, <1>5, <1>7 DEF ParsesBack, Kin, y
-----------------------------------------------------------------------------
(* What each operation of the builder does *)

\* What most operations leave alone.
Same(r, b) == r.seq = b.seq /\ r.ttl = b.ttl /\ r.md5 = b.md5

LEMMA KinChange ==
    ASSUME Ctx, NEW b, Kin(b), NEW r,
           r = [b EXCEPT !.seq = r.seq, !.ttl = r.ttl, !.window = r.window,
                         !.checksum = r.checksum, !.length = r.length, !.body = r.body],
           r.seq \in Nat, r.ttl \in {"own", "fake"}, r.window \in {"own", "zero"},
           r.checksum \in {"good", "stale", "bad"}, r.length \in 0 .. MaxUint16,
           r.body \in Seq(Int), headers(b) + Len(r.body) <= kMaxMtu
    PROVE  Kin(r)
<1>1. r \in Builder
      BY ZenonT(40) DEF Kin, Builder
<1>2. /\ r.doff = b.doff /\ r.tcp_hdr_len = b.tcp_hdr_len /\ r.ver = b.ver
      /\ r.ihl = b.ihl /\ r.chain = b.chain /\ r.ip_hdr_len = b.ip_hdr_len
      BY DEF Kin, Builder
<1> QED BY <1>1, <1>2 DEF Kin, size, headers

\* What from_view() makes of the payload s, for which there is this room.
Copied(b, x, s, room) ==
    /\ Kin(b) /\ b.seq = 0 /\ b.ttl = "own" /\ b.md5 = FALSE /\ b.doff = x.doff
    /\ Len(b.body) = Smaller(Len(s), room)
    /\ \A n \in 1 .. Len(b.body) : b.body[n] = s[n]
    /\ Len(s) <= room => b.body = s /\ b.checksum = "good"
    /\ Len(s) > room => b.checksum = "stale"

LEMMA FromViewIs ==
    ASSUME Ctx, NEW x, NEW v, NEW s \in Seq(Int),
           x.ver = seg.ip.ver, x.ihl = seg.ip.ihl, x.chain = seg.ip.chain,
           x.length \in 0 .. MaxUint16, x.doff \in 5 .. 15,
           v.ip_hdr_len = view.ip_hdr_len, v.tcp_hdr_len = 4 * x.doff,
           v.ip_hdr_len + v.tcp_hdr_len <= kMaxMtu,
           NEW b, b = from_view(x, v, s),
           NEW room, room = kMaxMtu - (v.ip_hdr_len + v.tcp_hdr_len)
    PROVE  Copied(b, x, s, room)
<1> DEFINE h == v.ip_hdr_len
           w == v.tcp_hdr_len
           l == Len(s)
           body == SubSeq(s, 1, Smaller(l, room))
<1>1. /\ h \in Nat /\ w \in Nat /\ h + w <= kMaxMtu /\ kMaxMtu \in 1 .. MaxUint16 /\ l \in Nat
  <2>1. h \in Nat /\ kMaxMtu \in 1 .. MaxUint16
        BY SegmentIs
  <2>2. w \in Nat
    <3> DEFINE d == x.doff
    <3>1. d \in 5 .. 15 /\ w = 4 * d
          OBVIOUS
    <3> HIDE DEF d, w
    <3> QED BY <3>1
  <2>3. h + w <= kMaxMtu /\ l \in Nat
        OBVIOUS
  <2> QED BY <2>1, <2>2, <2>3
<1> HIDE DEF h, w, l
<1>2. room \in Nat /\ kMaxMtu - h - w = room
  <2>1. room = kMaxMtu - (h + w)
        BY DEF h, w
  <2>2. kMaxMtu \in Nat /\ h \in Nat /\ w \in Nat /\ h + w <= kMaxMtu
        BY <1>1, Uint16
  <2> HIDE DEF body
  <2>3. kMaxMtu - (h + w) \in Nat /\ kMaxMtu - h - w = kMaxMtu - (h + w)
        BY <2>2, RoomLeft, Zenon
  <2> QED BY <2>1, <2>3, Zenon
<1>3. /\ Smaller(l, room) \in Nat /\ Smaller(l, room) <= l /\ Smaller(l, room) <= room
      /\ l <= room => Smaller(l, room) = l
      BY <1>1, <1>2 DEF Smaller
<1>4. /\ body \in Seq(Int) /\ Len(body) = Smaller(l, room)
      /\ \A n \in 1 .. Len(body) : body[n] = s[n]
      /\ l <= room => body = s
      BY <1>3 DEF l
<1>5. b = [ver |-> x.ver, ihl |-> x.ihl, chain |-> x.chain, length |-> x.length,
           doff |-> x.doff, ip_hdr_len |-> h, tcp_hdr_len |-> w,
           seq |-> 0, body |-> body, ttl |-> "own", window |-> "own", md5 |-> FALSE,
           checksum |-> IF l > room THEN "stale" ELSE "good"]
      BY <1>2 DEF from_view, h, w, l
<1> HIDE DEF body
<1>6. b \in Builder
  <2>1. x.ver \in {4, 6} /\ x.ihl \in 0 .. 15 /\ x.chain \in Seq(NextHeader)
        BY SegmentIs
  <2> QED BY <1>1, <1>4, <1>5, <2>1 DEF Builder
<1>7. size(b) <= kMaxMtu
  <2>1. size(b) = h + w + Smaller(l, room)
        BY <1>4, <1>5 DEF size, headers
  <2>2. room = kMaxMtu - (h + w)
        BY DEF h, w
  <2> QED BY <1>1, <1>2, <1>3, <2>1, <2>2
<1>8. /\ b.doff = x.doff /\ b.tcp_hdr_len = 4 * b.doff /\ b.ver = seg.ip.ver
      /\ b.ihl = seg.ip.ihl /\ b.chain = seg.ip.chain /\ b.ip_hdr_len = view.ip_hdr_len
      BY <1>5 DEF h, w
<1>9. /\ b.seq = 0 /\ b.ttl = "own" /\ b.md5 = FALSE /\ b.body = body
      /\ l <= room => b.checksum = "good"
      /\ l > room => b.checksum = "stale"
      BY <1>1, <1>2, <1>5
<1>10. Kin(b)
       BY <1>6, <1>7, <1>8 DEF Kin
<1> QED BY <1>4, <1>8, <1>9, <1>10 DEF l, Copied

LEMMA PayloadIs ==
    ASSUME Ctx
    PROVE  /\ Payload \in Seq(Int) /\ Len(Payload) = pl
           /\ \A n \in 1 .. pl : Payload[n] = n
<1>1. pl \in Nat
      BY SegmentIs
<1> QED BY <1>1 DEF Payload

\* The plain copy of the segment: all of it, or what fits.
LEMMA CopyIs ==
    ASSUME Ctx
    PROVE  /\ Kin(copy) /\ copy.seq = 0 /\ copy.ttl = "own" /\ copy.md5 = FALSE
           /\ headers(copy) = Hdr /\ copy.doff = seg.ip.doff
           /\ Len(copy.body) = Smaller(pl, Room)
           /\ \A n \in 1 .. Len(copy.body) : copy.body[n] = n
           /\ pl <= Room => copy.body = Payload /\ copy.checksum = "good"
           /\ pl > Room => copy.checksum = "stale"
<1>1. /\ Hdr = view.ip_hdr_len + view.tcp_hdr_len /\ Room = kMaxMtu - Hdr
      /\ Hdr <= kMaxMtu /\ view.tcp_hdr_len = 4 * seg.ip.doff
      /\ seg.ip.length \in 0 .. MaxUint16 /\ seg.ip.doff \in 5 .. 15
      /\ pl \in Nat /\ Room \in Nat
      BY SegmentIs, Uint16 DEF Hdr, Room
<1>2. /\ Kin(copy) /\ copy.seq = 0 /\ copy.ttl = "own" /\ copy.md5 = FALSE
      /\ copy.doff = seg.ip.doff
      /\ Len(copy.body) = Smaller(pl, Room)
      /\ \A n \in 1 .. Len(copy.body) : copy.body[n] = Payload[n]
      /\ pl <= Room => copy.body = Payload /\ copy.checksum = "good"
      /\ pl > Room => copy.checksum = "stale"
  <2> DEFINE room == kMaxMtu - (view.ip_hdr_len + view.tcp_hdr_len)
  <2>1. view.ip_hdr_len + view.tcp_hdr_len <= kMaxMtu
        BY <1>1
  <2>2. seg.ip.ver = seg.ip.ver /\ Payload \in Seq(Int)
        BY PayloadIs
  <2>3. copy = from_view(seg.ip, view, Payload)
        BY DEF copy
  <2>6. room = kMaxMtu - (view.ip_hdr_len + view.tcp_hdr_len)
        OBVIOUS
  <2>7. /\ seg.ip.length \in 0 .. MaxUint16 /\ seg.ip.doff \in 5 .. 15
        /\ view.tcp_hdr_len = 4 * seg.ip.doff
        BY <1>1
  <2> HIDE DEF copy, room, Payload
  <2>4. Copied(copy, seg.ip, Payload, room)
        BY <2>1, <2>2, <2>3, <2>6, <2>7, FromViewIs
  <2>5. room = Room /\ Len(Payload) = pl
        BY <1>1, <2>6, PayloadIs
  <2> QED BY <2>4, <2>5 DEF Copied
<1>3. headers(copy) = Hdr
      BY <1>1, <1>2, KinSize
<1>4. \A n \in 1 .. Len(copy.body) : n \in 1 .. pl
      BY <1>1, <1>2 DEF Smaller
<1> QED BY <1>2, <1>3, <1>4, PayloadIs

Replaced(r, b, s) ==
    /\ Kin(r) /\ Same(r, b) /\ headers(r) = headers(b)
    /\ headers(b) + Len(s) <= kMaxMtu => r.body = s
    /\ headers(b) + Len(s) > kMaxMtu => r = b
    /\ r = b \/ r.checksum = "stale"

LEMMA ReplaceIs ==
    ASSUME Ctx, NEW b, Kin(b), NEW s \in Seq(Int), NEW r, r = replace_payload(b, s)
    PROVE  Replaced(r, b, s)
<1> USE DEF Replaced
<1>1. headers(b) \in Nat /\ Len(s) \in Nat /\ kMaxMtu \in Nat
  <2>1. headers(b) \in 40 .. MaxUint16 /\ kMaxMtu \in 1 .. MaxUint16
        BY KinSize, SegmentIs
  <2>2. headers(b) \in Nat /\ kMaxMtu \in Nat
        BY <2>1, Uint16
  <2> QED BY <2>2
<1>2. CASE headers(b) + Len(s) > kMaxMtu
  <2>1. r = b
        BY <1>2 DEF replace_payload
  <2> QED BY <1>1, <1>2, <2>1 DEF Same
<1>3. CASE ~(headers(b) + Len(s) > kMaxMtu) /\ b.body = s
  <2>1. r = b
        BY <1>3 DEF replace_payload
  <2> QED BY <1>1, <1>3, <2>1 DEF Same
<1>4. CASE ~(headers(b) + Len(s) > kMaxMtu) /\ b.body # s
  <2>1. r = [b EXCEPT !.body = s, !.checksum = "stale"]
        BY <1>4 DEF replace_payload, Stale
  <2>2. b \in Builder
        BY DEF Kin
  <2>3. /\ r.body = s /\ r.checksum = "stale" /\ Same(r, b)
        /\ r.window = b.window /\ r.length = b.length
        /\ r.ip_hdr_len = b.ip_hdr_len /\ r.tcp_hdr_len = b.tcp_hdr_len
        BY <2>1, <2>2 DEF Builder, Same
  <2>4. r = [b EXCEPT !.seq = r.seq, !.ttl = r.ttl, !.window = r.window,
                      !.checksum = r.checksum, !.length = r.length, !.body = r.body]
        BY <2>1, <2>2, <2>3 DEF Builder, Same
  <2>5. headers(b) + Len(s) <= kMaxMtu
        BY <1>1, <1>4
  <2>6. /\ r.seq \in Nat /\ r.ttl \in {"own", "fake"} /\ r.window \in {"own", "zero"}
        /\ r.length \in 0 .. MaxUint16
        BY <2>2, <2>3 DEF Builder, Same
  <2>7. Kin(r)
        BY <2>3, <2>4, <2>5, <2>6, KinChange
  <2>8. headers(r) = headers(b)
        BY <2>3 DEF headers
  <2> QED BY <1>1, <1>4, <2>3, <2>5, <2>7, <2>8
<1> QED BY <1>2, <1>3, <1>4

\* The operations that change one field.
Changed(r, b) == Kin(r) /\ r.body = b.body /\ r.md5 = b.md5 /\ headers(r) = headers(b)
SeqSet(r, b, k) == Changed(r, b) /\ r.seq = k /\ r.ttl = b.ttl /\ r.checksum = "stale"
TtlSet(r, b) == Changed(r, b) /\ r.seq = b.seq /\ r.ttl = "fake" /\ r.checksum = b.checksum
Marked(r, b) == Changed(r, b) /\ r.seq = b.seq /\ r.ttl = b.ttl /\ r.checksum = "stale"

LEMMA SetIs ==
    ASSUME Ctx, NEW b, Kin(b), NEW k \in Nat
    PROVE  /\ SeqSet(set_seq(b, k), b, k) /\ TtlSet(set_ttl(b), b)
           /\ Marked(set_tcp_window(b), b) /\ Marked(set_tcp_flags(b), b)
<1> DEFINE Simple(r) == /\ r = [b EXCEPT !.seq = r.seq, !.ttl = r.ttl, !.window = r.window,
                                 !.checksum = r.checksum, !.length = r.length, !.body = r.body]
                        /\ r.seq \in Nat /\ r.ttl \in {"own", "fake"}
                        /\ r.window \in {"own", "zero"}
                        /\ r.checksum \in {"good", "stale", "bad"}
                        /\ r.length = b.length /\ r.body = b.body
<1>1. b \in Builder
      BY DEF Kin
<1>2. headers(b) + Len(b.body) <= kMaxMtu /\ b.length \in 0 .. MaxUint16 /\ b.body \in Seq(Int)
      BY <1>1 DEF Kin, Builder, size
<1>3. ASSUME NEW r, Simple(r) PROVE Kin(r) /\ headers(r) = headers(b)
  <2>1. Kin(r)
        BY <1>2, <1>3, KinChange
  <2>2. r.ip_hdr_len = b.ip_hdr_len /\ r.tcp_hdr_len = b.tcp_hdr_len
        BY <1>1, <1>3 DEF Builder
  <2> QED BY <2>1, <2>2 DEF headers
<1>4. /\ Simple(set_seq(b, k)) /\ set_seq(b, k).seq = k
      /\ set_seq(b, k).ttl = b.ttl /\ set_seq(b, k).md5 = b.md5
      /\ set_seq(b, k).checksum = "stale"
      BY <1>1 DEF set_seq, Stale, Builder
<1>5. /\ Simple(set_ttl(b)) /\ set_ttl(b).ttl = "fake" /\ set_ttl(b).seq = b.seq
      /\ set_ttl(b).md5 = b.md5 /\ set_ttl(b).checksum = b.checksum
      BY <1>1 DEF set_ttl, Builder
<1>6. /\ Simple(set_tcp_window(b)) /\ Same(set_tcp_window(b), b)
      /\ set_tcp_window(b).checksum = "stale"
      BY <1>1 DEF set_tcp_window, Stale, Builder, Same
<1>7. /\ Simple(set_tcp_flags(b)) /\ Same(set_tcp_flags(b), b)
      /\ set_tcp_flags(b).checksum = "stale"
      BY <1>1 DEF set_tcp_flags, Stale, Builder, Same
<1>8. /\ set_seq(b, k).body = b.body /\ set_ttl(b).body = b.body
      /\ set_tcp_window(b).body = b.body /\ set_tcp_flags(b).body = b.body
      BY <1>4, <1>5, <1>6, <1>7
<1> HIDE DEF Simple
<1> QED BY <1>3, <1>4, <1>5, <1>6, <1>7, <1>8 DEF Changed, SeqSet, TtlSet, Marked, Same

\* recompute() makes the lengths agree, and the checksum good if there is one to find.
Recomputed(r, b) ==
    /\ Kin(r) /\ LengthsAgree(r) /\ Same(r, b) /\ r.body = b.body
    /\ headers(r) = headers(b)
    /\ r.checksum = IF Extended THEN b.checksum ELSE "good"

LEMMA RecomputeIs ==
    ASSUME Ctx, NEW b, Kin(b), NEW r, r = recompute(b)
    PROVE  Recomputed(r, b)
<1> DEFINE len == IF b.ver = 4 THEN size(b) ELSE size(b) - 40
           sum == IF header(b, 1).kind = TCP THEN "good" ELSE b.checksum
<1>1. r = [b EXCEPT !.length = len, !.checksum = sum]
      BY DEF recompute
<1>2. b \in Builder
      BY DEF Kin
<1>3. len \in 0 .. MaxUint16
      BY KinSize, Uint16
<1> HIDE DEF len
<1>4. /\ r.length = len /\ r.checksum = sum /\ r.body = b.body /\ r.seq = b.seq
      /\ r.ttl = b.ttl /\ r.md5 = b.md5 /\ r.window = b.window /\ r.ver = b.ver
      /\ r.ip_hdr_len = b.ip_hdr_len /\ r.tcp_hdr_len = b.tcp_hdr_len
      BY <1>1, <1>2 DEF Builder
<1>5. sum \in {"good", "stale", "bad"} /\ sum = IF Extended THEN b.checksum ELSE "good"
  <2>1. header(b, 1) = header(seg.ip, 1)
        BY DEF Kin, header
  <2> QED BY <1>2, <2>1 DEF Builder, Extended
<1> HIDE DEF sum
<1>6. r = [b EXCEPT !.seq = r.seq, !.ttl = r.ttl, !.window = r.window,
                    !.checksum = r.checksum, !.length = r.length, !.body = r.body]
      BY <1>1, <1>2, <1>4 DEF Builder
<1>7. /\ r.seq \in Nat /\ r.ttl \in {"own", "fake"} /\ r.window \in {"own", "zero"}
      /\ r.body \in Seq(Int)
      BY <1>2, <1>4 DEF Builder
<1>8. headers(b) + Len(r.body) <= kMaxMtu
      BY <1>4 DEF Kin, size
<1>9. Kin(r)
      BY <1>3, <1>4, <1>5, <1>6, <1>7, <1>8, KinChange
<1>10. headers(r) = headers(b) /\ size(r) = size(b)
       BY <1>4 DEF headers, size
<1>11. LengthsAgree(r)
       BY <1>4, <1>10 DEF LengthsAgree, len
<1> QED BY <1>4, <1>5, <1>9, <1>10, <1>11 DEF Same, Recomputed
-----------------------------------------------------------------------------
(* The packets the stages are made of *)

Good(b) == Kin(b) /\ LengthsAgree(b)

\* The copy b with the payload s, recomputed.
Made(r, b, s) ==
    /\ Good(r) /\ Same(r, b) /\ headers(r) = headers(b)
    /\ headers(b) + Len(s) <= kMaxMtu => r.body = s
    /\ headers(b) + Len(s) > kMaxMtu => r.body = b.body
    /\ ~Extended => r.checksum = "good"
    /\ Extended => \/ r.checksum = "stale"
                   \/ r.checksum = b.checksum /\ r.body = b.body

LEMMA MadeIs ==
    ASSUME Ctx, NEW b, Kin(b), NEW s \in Seq(Int), NEW r, r = recompute(replace_payload(b, s))
    PROVE  Made(r, b, s)
<1> DEFINE c == replace_payload(b, s)
<1>1. Replaced(c, b, s)
      BY ReplaceIs
<1>2. r = recompute(c)
      OBVIOUS
<1> HIDE DEF c
<1>3. Recomputed(r, c)
      BY <1>1, <1>2, RecomputeIs DEF Replaced
<1> QED BY <1>1, <1>3 DEF Replaced, Recomputed, Made, Good, Same

\* One that the server does not accept, whatever its checksum.
Rejected(b) == Good(b) /\ b.ttl = "fake" /\ b.seq = 0
\* A decoy of random bytes, if the segment fits into the buffer.
Decoy(b) == Rejected(b) /\ (pl <= Room => \A n \in DOMAIN b.body : b.body[n] = Garbage)

LEMMA RandomIs ==
    ASSUME NEW n \in Nat
    PROVE  /\ Random(n) \in Seq(Int) /\ Len(Random(n)) = n
           /\ \A k \in 1 .. n : Random(n)[k] = Garbage
<1> DEFINE g == Garbage
<1>1. g \in Int
      BY DEF Garbage
<1> HIDE DEF g
<1>2. [k \in 1 .. n |-> g] \in Seq(Int)
      BY <1>1
<1> QED BY <1>2 DEF Random, g

LEMMA FakeIs ==
    ASSUME Ctx
    PROVE  Decoy(build_fake)
<1> DEFINE c == set_ttl(copy)
           r == Random(pl)
           f == build_fake
<1>1. Kin(copy) /\ copy.seq = 0 /\ headers(copy) = Hdr
      BY CopyIs
<1>2. TtlSet(c, copy)
      BY <1>1, SetIs
<1>3. pl \in Nat /\ Hdr \in Nat /\ kMaxMtu \in Nat
  <2>1. pl \in Nat \ {0} /\ Hdr \in 40 .. kMaxMtu - 1 /\ kMaxMtu \in 1 .. MaxUint16
        BY SegmentIs
  <2> QED BY <2>1, Uint16
<1>4. /\ r \in Seq(Int) /\ Len(r) = pl /\ \A k \in 1 .. pl : r[k] = Garbage
      BY <1>3, RandomIs
<1>5. f = recompute(replace_payload(c, r))
      BY DEF build_fake
<1> HIDE DEF c, r, f
<1>6. Made(f, c, r)
      BY <1>2, <1>4, <1>5, MadeIs DEF TtlSet, Changed
<1>7. Rejected(f)
      BY <1>1, <1>2, <1>6 DEF Rejected, Made, Same, TtlSet, Changed
<1>8. ASSUME pl <= Room PROVE \A n \in DOMAIN f.body : f.body[n] = Garbage
  <2>1. headers(c) + Len(r) <= kMaxMtu
        BY <1>1, <1>2, <1>3, <1>4, <1>8 DEF TtlSet, Changed, Room, Hdr
  <2>2. f.body = r
        BY <1>6, <2>1 DEF Made
  <2>3. DOMAIN r = 1 .. pl
        BY <1>4
  <2> QED BY <1>4, <2>2, <2>3
<1> QED BY <1>7, <1>8 DEF Decoy, f

\* The option goes into the header: the data offset follows.
LEMMA OptionIs ==
    ASSUME Ctx, NEW b, Kin(b), NEW n \in Nat, NEW r, r = append_tcp_option(b, n)
    PROVE  /\ Kin(r) /\ r.seq = b.seq /\ r.ttl = b.ttl
<1> DEFINE q   == (2 + n + 3) \div 4
           d   == b.doff
           new == b.tcp_hdr_len + 4 * q
<1>1. /\ b \in Builder /\ d \in 5 .. 15 /\ b.tcp_hdr_len = 4 * d /\ size(b) <= kMaxMtu
      /\ kMaxMtu \in 1 .. MaxUint16 /\ size(b) \in headers(b) .. MaxUint16
      /\ headers(b) \in 40 .. MaxUint16
      BY KinSize, SegmentIs DEF Kin
<1>2. q \in Nat
      OBVIOUS
<1>3. r = IF new > 60 \/ size(b) + 4 * q > kMaxMtu THEN b
          ELSE [b EXCEPT !.tcp_hdr_len = new, !.doff = new \div 4, !.md5 = TRUE,
                         !.checksum = "stale"]
  <2>1. \A c \in Builder :
          Stale([c EXCEPT !.tcp_hdr_len = new, !.doff = new \div 4, !.md5 = TRUE])
            = [c EXCEPT !.tcp_hdr_len = new, !.doff = new \div 4, !.md5 = TRUE,
                        !.checksum = "stale"]
        BY DEF Stale, Builder
  <2> QED BY <1>1, <2>1 DEF append_tcp_option
<1>4. CASE new > 60 \/ size(b) + 4 * q > kMaxMtu
      BY <1>3, <1>4
<1>5. CASE ~(new > 60 \/ size(b) + 4 * q > kMaxMtu)
  <2> DEFINE e == new \div 4
  <2>1. new = 4 * d + 4 * q
        BY <1>1
  <2> HIDE DEF q, d
  <2>2. new \in Nat /\ new <= 60 /\ e \in 5 .. 15 /\ new = 4 * e
    <3>1. new = 4 * (d + q)
          BY <1>1, <1>2, <2>1
    <3>2. new \in Nat /\ new <= 60 /\ d + q \in 5 .. 15
          BY <1>1, <1>2, <1>5, <3>1
    <3>3. e = d + q
          BY <1>1, <1>2, <3>1
    <3> QED BY <3>1, <3>2, <3>3
  <2> HIDE DEF new, e
  <2>3. r = [b EXCEPT !.tcp_hdr_len = new, !.doff = e, !.md5 = TRUE, !.checksum = "stale"]
        BY <1>3, <1>5 DEF e
  <2>4. r \in Builder
    <3>1. b \in Builder /\ new \in Nat /\ e \in 0 .. 15
          BY <1>1, <2>2
    <3> QED BY <2>3, <3>1 DEF Builder
  <2>5. /\ r.doff = e /\ r.tcp_hdr_len = new /\ r.ver = b.ver /\ r.ihl = b.ihl
        /\ r.chain = b.chain /\ r.ip_hdr_len = b.ip_hdr_len /\ r.body = b.body
        /\ r.seq = b.seq /\ r.ttl = b.ttl
        BY <1>1, <2>3 DEF Builder
  <2>6. size(r) <= kMaxMtu
    <3> DEFINE h == b.ip_hdr_len
               t == b.tcp_hdr_len
               l == Len(b.body)
    <3>1. h \in Nat /\ t \in Nat /\ l \in Nat
          BY <1>1, KinSize DEF Builder
    <3>2. size(b) = h + t + l /\ size(r) = h + new + l /\ new = t + 4 * q
          BY <2>5 DEF size, headers, new
    <3>3. size(b) + 4 * q <= kMaxMtu
      <4>1. size(b) \in Nat /\ kMaxMtu \in Nat
            BY <1>1, Uint16
      <4> QED BY <1>2, <1>5, <4>1
    <3> HIDE DEF h, t, l
    <3> QED BY <1>2, <2>2, <3>1, <3>2, <3>3
  <2> QED BY <2>2, <2>4, <2>5, <2>6 DEF Kin
<1> QED BY <1>4, <1>5
-----------------------------------------------------------------------------
(* The halves of split_payload() *)

Sum == IF Extended THEN "stale" ELSE "good"

\* The first half of the payload s, and the second one, which keeps the beginning of s
\* where it does not fit.
FrontHalf(a, s, off, room) ==
    /\ Good(a) /\ a.ttl = "own" /\ a.md5 = FALSE /\ a.seq = 0 /\ a.checksum = Sum
    /\ Len(a.body) = Smaller(off, room)
    /\ \A n \in 1 .. Len(a.body) : a.body[n] = s[n]
BackHalf(b, s, off, room) ==
    /\ Good(b) /\ b.ttl = "own" /\ b.md5 = FALSE /\ b.seq = off /\ b.checksum = Sum
    /\ Len(s) - off <= room => /\ Len(b.body) = Len(s) - off
                               /\ \A n \in 1 .. Len(b.body) : b.body[n] = s[off + n]
    /\ Len(s) - off > room  => /\ Len(b.body) = room
                               /\ \A n \in 1 .. Len(b.body) : b.body[n] = s[n]

LEMMA FrontIs ==
    ASSUME Ctx, NEW c, NEW x, NEW s \in Seq(Int), NEW room \in Nat,
           Copied(c, x, s, room), headers(c) = kMaxMtu - room,
           NEW off \in 1 .. Len(s) - 1,
           NEW a, a = recompute(replace_payload(c, SubSeq(s, 1, off)))
    PROVE  FrontHalf(a, s, off, room)
<1> DEFINE l == Len(s)
           t == SubSeq(s, 1, off)
<1>1. l \in Nat /\ off \in 1 .. l - 1 /\ off \in Nat
      OBVIOUS
<1>2. t \in Seq(Int) /\ Len(t) = off /\ \A n \in 1 .. off : t[n] = s[n]
      OBVIOUS
<1>3. kMaxMtu \in Nat
      BY SegmentIs, Uint16
<1> HIDE DEF t
<1>4. /\ Kin(c) /\ c.seq = 0 /\ c.ttl = "own" /\ c.md5 = FALSE
      /\ Len(c.body) = Smaller(l, room) /\ \A n \in 1 .. Len(c.body) : c.body[n] = s[n]
      /\ l <= room => c.body = s
      /\ l > room => c.checksum = "stale"
      BY DEF Copied
<1>5. Made(a, c, t)
      BY <1>2, <1>4, MadeIs DEF t
<1> HIDE DEF l
<1>6. CASE off <= room
  <2>1. headers(c) + Len(t) <= kMaxMtu
        BY <1>1, <1>2, <1>3, <1>6
  <2>2. a.body = t /\ Smaller(off, room) = off
        BY <1>1, <1>5, <1>6, <2>1 DEF Made, Smaller
  <2>3. a.checksum = Sum
    <3>1. CASE ~Extended
          BY <1>5, <3>1 DEF Made, Sum
    <3>2. CASE Extended
      <4>1. a.checksum = "stale" \/ (a.checksum = c.checksum /\ c.body = t)
            BY <1>5, <2>2, <3>2 DEF Made
      <4>2. CASE l <= room
        <5>1. c.body # t
              BY <1>1, <1>2, <1>4, <4>2 DEF l
        <5> QED BY <3>2, <4>1, <5>1 DEF Sum
      <4>3. CASE ~(l <= room)
        <5>1. c.checksum = "stale"
              BY <1>1, <1>4, <4>3
        <5> QED BY <3>2, <4>1, <5>1 DEF Sum
      <4> QED BY <4>2, <4>3
    <3> QED BY <3>1, <3>2
  <2> QED BY <1>2, <1>4, <1>5, <2>2, <2>3, SMTT(20) DEF Made, FrontHalf, Same
<1>7. CASE ~(off <= room)
  <2>1. /\ headers(c) + Len(t) > kMaxMtu /\ l > room /\ Smaller(l, room) = room
        /\ Smaller(off, room) = room
        BY <1>1, <1>2, <1>3, <1>7 DEF Smaller
  <2>2. a.body = c.body /\ c.checksum = "stale"
        BY <1>4, <1>5, <2>1 DEF Made
  <2>3. a.checksum = Sum
        BY <1>5, <2>2 DEF Made, Sum
  <2> QED BY <1>4, <1>5, <2>1, <2>2, <2>3 DEF Made, FrontHalf, Same
<1> QED BY <1>6, <1>7

LEMMA BackIs ==
    ASSUME Ctx, NEW c, NEW x, NEW s \in Seq(Int), NEW room \in Nat,
           Copied(c, x, s, room), headers(c) = kMaxMtu - room,
           NEW off \in 1 .. Len(s) - 1,
           NEW b, b = recompute(replace_payload(set_seq(c, off), SubSeq(s, off + 1, Len(s))))
    PROVE  BackHalf(b, s, off, room)
<1> DEFINE l == Len(s)
           t == SubSeq(s, off + 1, l)
           d == set_seq(c, off)
<1>1. l \in Nat /\ off \in 1 .. l - 1 /\ off \in Nat
      OBVIOUS
<1>2. t \in Seq(Int) /\ Len(t) = l - off /\ \A n \in 1 .. l - off : t[n] = s[off + n]
  <2> HIDE DEF t
  <2>1. t \in Seq(Int) /\ Len(t) = l - off
        BY <1>1 DEF t
  <2>2. \A n \in 1 .. Len(t) : t[n] = s[off + 1 + n - 1]
        BY <1>1, <2>1 DEF t
  <2>3. \A n \in 1 .. l - off : off + 1 + n - 1 = off + n
        BY <1>1
  <2> QED BY <2>1, <2>2, <2>3
<1>3. kMaxMtu \in Nat
      BY SegmentIs, Uint16
<1> HIDE DEF t, d
<1>4. /\ Kin(c) /\ c.ttl = "own" /\ c.md5 = FALSE
      /\ Len(c.body) = Smaller(l, room) /\ \A n \in 1 .. Len(c.body) : c.body[n] = s[n]
      BY DEF Copied
<1>5. SeqSet(d, c, off)
      BY <1>1, <1>4, SetIs DEF d
<1>6. Made(b, d, t)
      BY <1>2, <1>5, MadeIs DEF t, d, SeqSet, Changed
<1>7. /\ Good(b) /\ b.ttl = "own" /\ b.md5 = FALSE /\ b.seq = off /\ b.checksum = Sum
      BY <1>4, <1>5, <1>6 DEF Made, SeqSet, Changed, Same, Sum
<1> HIDE DEF l
<1>8. headers(d) = kMaxMtu - room
      BY <1>5 DEF SeqSet, Changed
<1>9. ASSUME l - off <= room
      PROVE  Len(b.body) = l - off /\ \A n \in 1 .. Len(b.body) : b.body[n] = s[off + n]
  <2>1. headers(d) + Len(t) <= kMaxMtu
        BY <1>1, <1>2, <1>3, <1>8, <1>9
  <2>2. b.body = t
        BY <1>6, <2>1 DEF Made
  <2> QED BY <1>2, <2>2
<1>10. ASSUME l - off > room
       PROVE  Len(b.body) = room /\ \A n \in 1 .. Len(b.body) : b.body[n] = s[n]
  <2>1. headers(d) + Len(t) > kMaxMtu /\ Smaller(l, room) = room
        BY <1>1, <1>2, <1>3, <1>8, <1>10 DEF Smaller
  <2>2. b.body = c.body
        BY <1>5, <1>6, <2>1 DEF Made, SeqSet, Changed
  <2> QED BY <1>4, <2>1, <2>2
<1> QED BY <1>7, <1>9, <1>10 DEF l, BackHalf

\* The halves of a payload that is split at off.
LEMMA SplitIs ==
    ASSUME Ctx, NEW x, NEW v, NEW s \in Seq(Int), NEW room \in Nat,
           Copied(from_view(x, v, s), x, s, room),
           headers(from_view(x, v, s)) = kMaxMtu - room,
           NEW off \in 1 .. Len(s) - 1
    PROVE  /\ FrontHalf(split_payload(x, v, s, off)[1], s, off, room)
           /\ BackHalf(split_payload(x, v, s, off)[2], s, off, room)
<1> DEFINE c == from_view(x, v, s)
           a == recompute(replace_payload(c, SubSeq(s, 1, off)))
           b == recompute(replace_payload(set_seq(c, off), SubSeq(s, off + 1, Len(s))))
<1>1. split_payload(x, v, s, off) = <<a, b>>
      BY DEF split_payload
<1> HIDE DEF c
<1>2. FrontHalf(a, s, off, room)
  <2>1. a = a /\ Copied(c, x, s, room) /\ headers(c) = kMaxMtu - room
        BY DEF c
  <2> HIDE DEF a
  <2>2. a = recompute(replace_payload(c, SubSeq(s, 1, off)))
        BY DEF a
  <2> QED BY <2>1, <2>2, FrontIs
<1>3. BackHalf(b, s, off, room)
  <2>1. Copied(c, x, s, room) /\ headers(c) = kMaxMtu - room
        BY DEF c
  <2> HIDE DEF b
  <2>2. b = recompute(replace_payload(set_seq(c, off), SubSeq(s, off + 1, Len(s))))
        BY DEF b
  <2> QED BY <2>1, <2>2, BackIs
<1> HIDE DEF a, b
<1> QED BY <1>1, <1>2, <1>3
-----------------------------------------------------------------------------
(* What the queue of a handled segment says of the client's stream *)

\* The byte v at position n of a segment that a strategy made G bytes longer behind its
\* first P bytes; h is the strategy.
Skipped(h) == CASE h = "tls-frag" -> 6 [] h = "oob" -> 2 [] OTHER -> 1
Filler(h)  == IF h = "oob" THEN Garbage ELSE Inserted
Byte(n, v, P, G, h) ==
    /\ n <= P => v = n \/ v = -n \/ (n < Skipped(h) /\ v = Filler(h))
    /\ P < n /\ n <= P + G => v = Inserted
    /\ P + G < n => v = n - G \/ v = -(n - G)

End(b) == b.seq + Len(b.body)

\* A packet of these bytes; if some were added, it ends before them or has all of them.
Class(b, P, G, h) ==
    /\ End(b) <= pl + G
    /\ \A n \in Covers(b) : Byte(n, ByteAt(b, n), P, G, h)
    /\ G = 0 \/ End(b) <= P \/ (b.seq <= P /\ End(b) = pl + G)

\* A second half that did not fit.
Late(b, h) == /\ h \in {"tls-split", "disorder"} /\ ~Extended
              /\ b.seq \in 1 .. pl - 1 /\ pl - b.seq > Room
              /\ Len(b.body) = Room /\ \A n \in 1 .. Len(b.body) : b.body[n] = n

Longer(G, h) == \/ G = 0
                \/ G = 5 /\ h = "tls-frag"
                \/ G = 1 /\ h = "http-mangle"

Covered(q, n) == \E k \in DOMAIN q : accepted(q[k]) /\ n \in Covers(q[k])

\* What the builders of the strategy h cut off.
CutBy(h) == IF h # NoName THEN Room + 1 .. pl ELSE {}

Replaces(q, P, G, h) ==
    /\ P \in 1 .. pl /\ Longer(G, h) /\ (G # 0 => P < pl /\ Skipped(h) <= P)
    /\ q \in Seq(Builder)
    /\ \A k \in DOMAIN q : accepted(q[k]) => Class(q[k], P, G, h) \/ Late(q[k], h)
    /\ (Extended => h = NoName) =>
         \A n \in 1 .. pl + G : G # 0 \/ n \notin CutBy(h) => Covered(q, n)

AllRejected(d) == d \in Seq(Builder) /\ \A k \in DOMAIN d : Rejected(d[k])
AllDecoys(d)   == d \in Seq(Builder) /\ \A k \in DOMAIN d : Decoy(d[k])
AllGood(d)     == d \in Seq(Builder) /\ \A k \in DOMAIN d : Good(d[k])

LEMMA AllKinds ==
    ASSUME NEW d
    PROVE  (AllDecoys(d) => AllRejected(d)) /\ (AllRejected(d) => AllGood(d))
BY DEF AllDecoys, AllRejected, AllGood, Decoy, Rejected

\* The elements of a concatenation.
Concat(q, d, r) ==
    /\ q \in Seq(Builder) /\ Len(q) = Len(d) + Len(r)
    /\ \A k \in DOMAIN q : \/ k \in DOMAIN d /\ q[k] = d[k]
                           \/ \E j \in DOMAIN r : k = Len(d) + j /\ q[k] = r[j]
    /\ \A k \in DOMAIN d : k \in DOMAIN q /\ q[k] = d[k]
    /\ \A j \in DOMAIN r : Len(d) + j \in DOMAIN q /\ q[Len(d) + j] = r[j]

LEMMA ConcatIs ==
    ASSUME NEW d \in Seq(Builder), NEW r \in Seq(Builder), NEW q, q = d \o r
    PROVE  Concat(q, d, r)
<1> DEFINE m == Len(d)
           n == Len(r)
<1>1. m \in Nat /\ n \in Nat /\ q \in Seq(Builder) /\ Len(q) = m + n
      OBVIOUS
<1>2. DOMAIN d = 1 .. m /\ DOMAIN r = 1 .. n /\ DOMAIN q = 1 .. m + n
      BY <1>1
<1>3. \A k \in 1 .. m + n : q[k] = IF k <= m THEN d[k] ELSE r[k - m]
      OBVIOUS
<1> HIDE DEF m, n
<1>4. ASSUME NEW k \in 1 .. m + n
      PROVE  \/ k \in 1 .. m /\ q[k] = d[k]
             \/ \E j \in 1 .. n : k = m + j /\ q[k] = r[j]
  <2>1. CASE k <= m
        BY <1>1, <1>3, <2>1
  <2>2. CASE ~(k <= m)
    <3>1. k - m \in 1 .. n /\ k = m + (k - m)
          BY <1>1, <2>2
    <3> QED BY <1>3, <2>2, <3>1
  <2> QED BY <2>1, <2>2
<1>5. \A k \in 1 .. m : k \in 1 .. m + n /\ q[k] = d[k]
      BY <1>1, <1>3
<1>6. ASSUME NEW j \in 1 .. n PROVE m + j \in 1 .. m + n /\ q[m + j] = r[j]
  <2>1. m + j \in 1 .. m + n /\ ~(m + j <= m) /\ (m + j) - m = j
        BY <1>1
  <2> QED BY <1>3, <2>1
<1> QED BY <1>1, <1>2, <1>4, <1>5, <1>6, ZenonT(40) DEF m, n, Concat

LEMMA AllConcat ==
    ASSUME NEW d, NEW r
    PROVE  /\ AllDecoys(d) /\ AllDecoys(r) => AllDecoys(d \o r)
           /\ AllRejected(d) /\ AllRejected(r) => AllRejected(d \o r)
           /\ AllGood(d) /\ AllGood(r) => AllGood(d \o r)
<1>1. ASSUME d \in Seq(Builder), r \in Seq(Builder)
      PROVE  /\ d \o r \in Seq(Builder)
             /\ \A k \in DOMAIN (d \o r) : \/ \E j \in DOMAIN d : (d \o r)[k] = d[j]
                                           \/ \E j \in DOMAIN r : (d \o r)[k] = r[j]
  <2> DEFINE q == d \o r
  <2>1. q = d \o r
        OBVIOUS
  <2> HIDE DEF q
  <2>2. Concat(q, d, r)
        BY <1>1, <2>1, ConcatIs
  <2> QED BY <2>2 DEF q, Concat
<1> QED BY <1>1 DEF AllDecoys, AllRejected, AllGood

\* What is rejected changes nothing of what the rest says.
LEMMA Prepends ==
    ASSUME NEW d, AllRejected(d), NEW r, NEW P, NEW G, NEW h, Replaces(r, P, G, h)
    PROVE  Replaces(d \o r, P, G, h)
<1>1. d \in Seq(Builder) /\ r \in Seq(Builder)
      BY DEF AllRejected, Replaces
<1> DEFINE q == d \o r
<1>2. /\ q \in Seq(Builder)
      /\ \A k \in DOMAIN q : \/ k \in DOMAIN d /\ q[k] = d[k]
                             \/ \E j \in DOMAIN r : q[k] = r[j]
      /\ \A j \in DOMAIN r : \E k \in DOMAIN q : q[k] = r[j]
  <2>1. q = d \o r
        OBVIOUS
  <2> HIDE DEF q
  <2>2. Concat(q, d, r)
        BY <1>1, <2>1, ConcatIs
  <2> QED BY <2>2 DEF Concat
<1> HIDE DEF q
<1>3. \A k \in DOMAIN d : ~accepted(d[k])
      BY DEF AllRejected, Rejected, accepted
<1>4. \A k \in DOMAIN q : accepted(q[k]) => Class(q[k], P, G, h) \/ Late(q[k], h)
      BY <1>2, <1>3 DEF Replaces
<1>5. \A n : Covered(r, n) => Covered(q, n)
      BY <1>2 DEF Covered
<1> QED BY <1>2, <1>4, <1>5 DEF Replaces, q
-----------------------------------------------------------------------------
(* Stages that send the segment itself *)

\* The client's own bytes, where they belong.
Straight(b) == End(b) <= pl /\ \A n \in 1 .. Len(b.body) : b.body[n] = b.seq + n

LEMMA StraightIs ==
    ASSUME Ctx, NEW b \in Builder, Straight(b), NEW h
    PROVE  Class(b, pl, 0, h)
<1> DEFINE l == Len(b.body)
           s == b.seq
<1>1. l \in Nat /\ s \in Nat /\ pl \in Nat
      BY SegmentIs DEF Builder
<1>2. s + l <= pl /\ \A n \in 1 .. l : b.body[n] = s + n
      BY DEF Straight, End
<1>3. ASSUME NEW n \in s + 1 .. s + l
      PROVE  n \in Nat /\ n <= pl /\ ~(pl < n) /\ ~(pl + 0 < n) /\ b.body[n - s] = n
  <2> HIDE DEF l, s
  <2>1. n - s \in 1 .. l /\ s + (n - s) = n
        BY <1>1
  <2> QED BY <1>1, <1>2, <2>1
<1>4. \A n \in Covers(b) : Byte(n, ByteAt(b, n), pl, 0, h)
      BY <1>3 DEF Covers, ByteAt, Byte
<1> QED BY <1>1, <1>2, <1>4 DEF Class, End

\* The segment, or what fits of it.
Real(b) == /\ Good(b) /\ b.ttl = "own" /\ b.md5 = FALSE /\ b.seq = 0
           /\ ~Extended => b.checksum = "good"
           /\ Len(b.body) = Smaller(pl, Room) /\ \A n \in 1 .. Len(b.body) : b.body[n] = n

LEMMA RealIs ==
    ASSUME Ctx
    PROVE  Real(real) /\ Real(recompute(set_tcp_window(copy)))
<1>1. /\ Kin(copy) /\ copy.seq = 0 /\ copy.ttl = "own" /\ copy.md5 = FALSE
      /\ Len(copy.body) = Smaller(pl, Room)
      /\ \A n \in 1 .. Len(copy.body) : copy.body[n] = n
      BY CopyIs
<1> DEFINE w == set_tcp_window(copy)
           x == recompute(copy)
           y == recompute(w)
<1>2. Marked(w, copy)
      BY <1>1, SetIs
<1>3. real = x
      BY DEF real
<1>4. x = recompute(copy) /\ y = recompute(w)
      OBVIOUS
<1> HIDE DEF w, x, y
<1>5. Recomputed(x, copy)
      BY <1>1, <1>4, RecomputeIs
<1>6. Recomputed(y, w)
      BY <1>2, <1>4, RecomputeIs DEF Marked, Changed
<1>7. Real(x)
      BY <1>1, <1>5 DEF Real, Recomputed, Same, Good
<1>8. Real(y)
      BY <1>1, <1>2, <1>6 DEF Real, Recomputed, Same, Good, Marked, Changed
<1> QED BY <1>3, <1>7, <1>8 DEF w, y

LEMMA FitsIs ==
    ASSUME Ctx
    PROVE  TooLong <=> ~(pl <= Room)
<1>1. /\ Hdr \in 40 .. kMaxMtu - 1 /\ kMaxMtu \in 1 .. MaxUint16 /\ pl \in Nat \ {0}
      /\ Whole = Hdr + pl /\ Room = kMaxMtu - Hdr
      BY SegmentIs DEF Room, Hdr
<1>2. kMaxMtu \in Nat /\ Hdr \in Nat /\ pl \in Nat
      BY <1>1, Uint16
<1> QED BY <1>1, <1>2 DEF TooLong

LEMMA RealStraight ==
    ASSUME Ctx, NEW b, Real(b)
    PROVE  /\ Straight(b) /\ b \in Builder
           /\ Covers(b) = 1 .. Smaller(pl, Room)
           /\ ~Extended => accepted(b)
<1>1. pl \in Nat /\ Room \in Nat
  <2>1. pl \in Nat \ {0} /\ Room \in 1 .. kMaxMtu /\ kMaxMtu \in 1 .. MaxUint16
        BY SegmentIs
  <2> QED BY <2>1, Uint16
<1>2. /\ b.seq = 0 /\ Len(b.body) = Smaller(pl, Room) /\ b \in Builder
      /\ \A n \in 1 .. Len(b.body) : b.body[n] = n
      BY DEF Real, Good, Kin
<1>3. Smaller(pl, Room) \in Nat /\ Smaller(pl, Room) <= pl
      /\ (pl <= Room => Smaller(pl, Room) = pl)
      BY <1>1 DEF Smaller
<1>4. Straight(b)
      BY <1>1, <1>2, <1>3 DEF Straight, End
<1>5. Covers(b) = 1 .. Smaller(pl, Room)
      BY <1>1, <1>2, <1>3 DEF Covers
<1> QED BY <1>2, <1>4, <1>5 DEF Real, accepted

\* A queue that holds the segment and nothing else of the stream.
LEMMA PlainReplaces ==
    ASSUME Ctx, NEW r \in Seq(Builder), NEW h, h # NoName,
           \A k \in DOMAIN r : accepted(r[k]) => Class(r[k], pl, 0, h),
           NEW m \in DOMAIN r, Real(r[m])
    PROVE  Replaces(r, pl, 0, h)
<1>1. pl \in 1 .. pl /\ pl + 0 = pl
      BY SegmentIs, SMTT(20)
<1>2. ASSUME ~Extended, NEW n \in 1 .. pl, n \notin CutBy(h) PROVE Covered(r, n)
  <2>1. pl \in Nat /\ Room \in Nat
    <3>1. pl \in Nat \ {0} /\ Room \in 1 .. kMaxMtu /\ kMaxMtu \in 1 .. MaxUint16
          BY SegmentIs
    <3> QED BY <3>1, Uint16
  <2>2. n \in 1 .. Smaller(pl, Room)
        BY <1>2, <2>1 DEF Smaller, CutBy
  <2> QED BY <1>2, <2>2, RealStraight DEF Covered
<1>3. Longer(0, h)
      BY DEF Longer
<1> QED BY <1>1, <1>2, <1>3 DEF Replaces

LEMMA RealReplaces ==
    ASSUME Ctx, NEW b, Real(b), NEW h, h # NoName
    PROVE  Replaces(<<b>>, pl, 0, h) /\ AllGood(<<b>>)
<1>1. b \in Builder /\ Class(b, pl, 0, h)
      BY RealStraight, StraightIs
<1> DEFINE r == <<b>>
<1>2. r \in Seq(Builder) /\ DOMAIN r = {1} /\ r[1] = b
      BY <1>1
<1> HIDE DEF r
<1>3. Replaces(r, pl, 0, h)
  <2>1. \A k \in DOMAIN r : accepted(r[k]) => Class(r[k], pl, 0, h)
        BY <1>1, <1>2
  <2>2. 1 \in DOMAIN r /\ Real(r[1])
        BY <1>2
  <2> QED BY <1>2, <2>1, <2>2, PlainReplaces
<1>4. AllGood(r)
      BY <1>2 DEF AllGood, Real
<1> QED BY <1>3, <1>4 DEF r

LEMMA FakesIs ==
    ASSUME Ctx
    PROVE  /\ AllDecoys(decoys) /\ AllDecoys(one_decoy) /\ AllDecoys(<<>>)
<1>1. Decoy(build_fake) /\ build_fake \in Builder
      BY FakeIs DEF Decoy, Rejected, Good, Kin
<1>2. AllDecoys(<<>>)
      BY DEF AllDecoys
<1>3. ASSUME NEW n \in Nat PROVE AllDecoys(Fakes(n))
  <2> DEFINE f == build_fake
             q == [k \in 1 .. n |-> f]
  <2> HIDE DEF f
  <2>1. Decoy(f) /\ f \in Builder /\ Fakes(n) = q
        BY <1>1 DEF Fakes, f
  <2>2. q \in Seq(Builder) /\ DOMAIN q = 1 .. n /\ \A k \in DOMAIN q : q[k] = f
        BY <2>1
  <2> QED BY <2>1, <2>2 DEF AllDecoys
<1>4. Larger(1, p.fake_repeat) \in Nat /\ 1 \in Nat
  <2>1. p.fake_repeat \in Int
        BY StrategyAssumption DEF Ctx, Param
  <2> QED BY <2>1 DEF Larger
<1> QED BY <1>2, <1>3, <1>4 DEF decoys, one_decoy

LEMMA PairReplaces ==
    ASSUME Ctx, NEW a, Good(a), NEW b, Real(b), NEW h, h # NoName,
           accepted(a) => Class(a, pl, 0, h)
    PROVE  Replaces(<<a, b>>, pl, 0, h) /\ AllGood(<<a, b>>)
<1>1. b \in Builder /\ Class(b, pl, 0, h) /\ a \in Builder
      BY RealStraight, StraightIs DEF Good, Kin
<1> DEFINE r == <<a, b>>
<1>2. r \in Seq(Builder) /\ DOMAIN r = {1, 2} /\ r[1] = a /\ r[2] = b
      BY <1>1
<1> HIDE DEF r
<1>3. Replaces(r, pl, 0, h)
  <2>1. \A k \in DOMAIN r : accepted(r[k]) => Class(r[k], pl, 0, h)
        BY <1>1, <1>2
  <2>2. 2 \in DOMAIN r /\ Real(r[2])
        BY <1>2
  <2> QED BY <1>2, <2>1, <2>2, PlainReplaces
<1>4. AllGood(r)
      BY <1>2 DEF AllGood, Real
<1> QED BY <1>3, <1>4 DEF r

LEMMA OobIs ==
    ASSUME Ctx,
           NEW a, a = recompute(set_tcp_flags(replace_payload(copy, Random(1))))
    PROVE  Replaces(<<a, real>>, pl, 0, "oob") /\ AllGood(<<a, real>>)
<1> DEFINE s == Random(1)
           c == replace_payload(copy, s)
           d == set_tcp_flags(c)
<1>1. s \in Seq(Int) /\ Len(s) = 1 /\ s[1] = Garbage
  <2>1. 1 \in Nat /\ 1 \in 1 .. 1
        OBVIOUS
  <2> QED BY <2>1, RandomIs
<1>2. c = replace_payload(copy, s) /\ a = recompute(d)
      OBVIOUS
<1> HIDE DEF s, c, d
<1>3. Kin(copy) /\ copy.seq = 0 /\ headers(copy) = Hdr
      BY CopyIs
<1>4. Replaced(c, copy, s)
      BY <1>1, <1>2, <1>3, ReplaceIs
<1>5. Marked(d, c)
      BY <1>4, SetIs DEF d, Replaced
<1>6. Recomputed(a, d)
      BY <1>2, <1>5, RecomputeIs DEF Marked, Changed
<1>7. Good(a) /\ a.seq = 0
      BY <1>3, <1>4, <1>5, <1>6 DEF Recomputed, Marked, Replaced, Same, Good
<1>8. a.body = s
  <2>1. Hdr + 1 <= kMaxMtu
    <3>1. Hdr \in 40 .. kMaxMtu - 1 /\ kMaxMtu \in 1 .. MaxUint16
          BY SegmentIs
    <3> QED BY <3>1, Uint16
  <2>2. c.body = s
        BY <1>1, <1>3, <1>4, <2>1 DEF Replaced
  <2> QED BY <1>5, <1>6, <2>2 DEF Recomputed, Marked, Changed
<1>9. Class(a, pl, 0, "oob")
  <2>1. pl \in Nat /\ pl >= 1
        BY SegmentIs
  <2>2. Covers(a) = {1} /\ End(a) = 1
    <3>1. a.seq = 0 /\ Len(a.body) = 1
          BY <1>1, <1>7, <1>8
    <3>2. Covers(a) = a.seq + 1 .. a.seq + Len(a.body) /\ End(a) = a.seq + Len(a.body)
          BY DEF Covers, End
    <3>3. \A m, n : m = 0 /\ n = 1 => m + 1 .. m + n = {1} /\ m + n = 1
          OBVIOUS
    <3> DEFINE m == a.seq
               n == Len(a.body)
    <3> HIDE DEF m, n
    <3>4. Covers(a) = m + 1 .. m + n /\ End(a) = m + n /\ m = 0 /\ n = 1
          BY <3>1, <3>2 DEF m, n
    <3> QED BY <3>3, <3>4
  <2>3. ByteAt(a, 1) = Garbage
        BY <1>1, <1>7, <1>8 DEF ByteAt
  <2>4. Byte(1, Garbage, pl, 0, "oob")
        BY <2>1 DEF Byte, Skipped, Filler
  <2> QED BY <2>1, <2>2, <2>3, <2>4 DEF Class
<1>10. "oob" # NoName
       BY DEF NoName
<1> QED BY <1>7, <1>9, <1>10, RealIs, PairReplaces

LEMMA Md5Is ==
    ASSUME Ctx,
           NEW a, a = recompute(append_tcp_option(
                        replace_payload(set_ttl(copy), Random(16)), 16))
    PROVE  Replaces(<<a, real>>, pl, 0, "md5-opt") /\ AllGood(<<a, real>>)
<1> DEFINE s == Random(16)
           t == set_ttl(copy)
           c == replace_payload(t, s)
           d == append_tcp_option(c, 16)
<1>1. s \in Seq(Int)
      BY RandomIs
<1>2. c = replace_payload(t, s) /\ d = append_tcp_option(c, 16) /\ a = recompute(d)
      OBVIOUS
<1>3. TtlSet(t, copy)
      BY CopyIs, SetIs
<1> HIDE DEF s, t, c, d
<1>4. Replaced(c, t, s)
      BY <1>1, <1>2, <1>3, ReplaceIs DEF TtlSet, Changed
<1>5. Kin(d) /\ d.seq = c.seq /\ d.ttl = c.ttl
      BY <1>2, <1>4, OptionIs DEF Replaced
<1>6. Recomputed(a, d)
      BY <1>2, <1>5, RecomputeIs
<1>7. Good(a) /\ a.ttl = "fake"
      BY <1>3, <1>4, <1>5, <1>6 DEF Recomputed, Replaced, Same, Good, TtlSet
<1>8. ~accepted(a)
      BY <1>7 DEF accepted
<1>9. "md5-opt" # NoName
      BY DEF NoName
<1> QED BY <1>7, <1>8, <1>9, RealIs, PairReplaces

LEMMA WrongIs ==
    ASSUME Ctx, NEW a, a = [build_fake EXCEPT !.checksum = "bad"]
    PROVE  Replaces(<<a, real>>, pl, 0, "wrong-chksum") /\ AllGood(<<a, real>>)
<1> DEFINE f == build_fake
<1>1. Good(f) /\ f.ttl = "fake"
      BY FakeIs DEF Decoy, Rejected
<1>2. a = [f EXCEPT !.checksum = "bad"]
      OBVIOUS
<1> HIDE DEF f
<1>3. f \in Builder
      BY <1>1 DEF Good, Kin
<1>4. /\ a \in Builder /\ a.ttl = f.ttl /\ a.doff = f.doff /\ a.tcp_hdr_len = f.tcp_hdr_len
      /\ a.ver = f.ver /\ a.ihl = f.ihl /\ a.chain = f.chain /\ a.body = f.body
      /\ a.ip_hdr_len = f.ip_hdr_len /\ a.length = f.length
      BY <1>2, <1>3 DEF Builder
<1>5. size(a) = size(f)
      BY <1>4 DEF size, headers
<1>6. Good(a)
      BY <1>1, <1>4, <1>5 DEF Good, Kin, LengthsAgree
<1>7. ~accepted(a)
      BY <1>1, <1>4 DEF accepted
<1>8. "wrong-chksum" # NoName
      BY DEF NoName
<1> QED BY <1>6, <1>7, <1>8, RealIs, PairReplaces
-----------------------------------------------------------------------------
(* Stages that split the segment *)

\* Room is a number, and the headers and it fill the buffer.
LEMMA RoomIs ==
    ASSUME Ctx
    PROVE  /\ Room \in Nat /\ Room >= 1 /\ kMaxMtu \in Nat /\ Hdr \in Nat
           /\ Hdr = kMaxMtu - Room /\ pl \in Nat /\ pl >= 1 /\ pl <= MaxUint16
<1>1. /\ Hdr \in 40 .. kMaxMtu - 1 /\ kMaxMtu \in 1 .. MaxUint16 /\ pl \in Nat \ {0}
      /\ pl <= MaxUint16 /\ Room = kMaxMtu - Hdr
      BY SegmentIs DEF Room, Hdr
<1> QED BY <1>1, Uint16

LEMMA CopiedIs ==
    ASSUME Ctx
    PROVE  Copied(copy, seg.ip, Payload, Room) /\ headers(copy) = kMaxMtu - Room
<1>1. /\ Kin(copy) /\ copy.seq = 0 /\ copy.ttl = "own" /\ copy.md5 = FALSE
      /\ headers(copy) = Hdr /\ copy.doff = seg.ip.doff
      /\ Len(copy.body) = Smaller(pl, Room)
      /\ \A n \in 1 .. Len(copy.body) : copy.body[n] = n
      /\ pl <= Room => copy.body = Payload /\ copy.checksum = "good"
      /\ pl > Room => copy.checksum = "stale"
      BY CopyIs
<1>2. Smaller(pl, Room) \in Nat /\ Smaller(pl, Room) <= pl
      BY RoomIs DEF Smaller
<1>3. \A n \in 1 .. Len(copy.body) : copy.body[n] = Payload[n]
      BY <1>1, <1>2, PayloadIs, RoomIs
<1> QED BY <1>1, <1>3, PayloadIs, RoomIs DEF Copied

\* The halves of the segment, the first one maybe with another window.
Front(a, off) == FrontHalf(a, Payload, off, Room)
Back(b, off)  == BackHalf(b, Payload, off, Room)

LEMMA WindowIs ==
    ASSUME Ctx, NEW off, NEW a, Front(a, off)
    PROVE  Front(recompute(set_tcp_window(a)), off)
<1> DEFINE w == set_tcp_window(a)
           r == recompute(w)
<1>1. Kin(a)
      BY DEF Front, FrontHalf, Good
<1>2. Marked(w, a)
      BY <1>1, SetIs
<1>3. r = recompute(w)
      OBVIOUS
<1> HIDE DEF w, r
<1>4. Recomputed(r, w)
      BY <1>2, <1>3, RecomputeIs DEF Marked, Changed
<1>5. Front(r, off)
      BY <1>2, <1>4 DEF Front, FrontHalf, Recomputed, Marked, Changed, Same, Good, Sum
<1> QED BY <1>5 DEF r, w

LEMMA HalvesAre ==
    ASSUME Ctx, NEW off \in 1 .. pl - 1
    PROVE  /\ Front(split_payload(seg.ip, view, Payload, off)[1], off)
           /\ Back(split_payload(seg.ip, view, Payload, off)[2], off)
<1>1. /\ Copied(from_view(seg.ip, view, Payload), seg.ip, Payload, Room)
      /\ headers(from_view(seg.ip, view, Payload)) = kMaxMtu - Room
      BY CopiedIs DEF copy
<1>2. Payload \in Seq(Int) /\ Len(Payload) = pl /\ Room \in Nat /\ off \in 1 .. Len(Payload) - 1
      BY PayloadIs, RoomIs
<1> QED BY <1>1, <1>2, SplitIs DEF Front, Back

LEMMA FrontStraight ==
    ASSUME Ctx, NEW off \in 1 .. pl - 1, NEW a, Front(a, off)
    PROVE  /\ a \in Builder /\ Straight(a)
           /\ ~Extended => accepted(a)
           /\ Covers(a) = 1 .. Smaller(off, Room)
<1>1. /\ a \in Builder /\ a.seq = 0 /\ Len(a.body) = Smaller(off, Room)
      /\ \A n \in 1 .. Len(a.body) : a.body[n] = Payload[n]
      BY DEF Front, FrontHalf, Good, Kin
<1>2. off \in Nat /\ off <= pl
      BY RoomIs
<1>3. Smaller(off, Room) \in Nat /\ Smaller(off, Room) <= pl
      BY <1>2, RoomIs DEF Smaller
<1>4. \A n \in 1 .. Len(a.body) : a.body[n] = 0 + n
      BY <1>1, <1>3, PayloadIs, RoomIs, SMTT(20)
<1>5. End(a) <= pl /\ Covers(a) = 1 .. Smaller(off, Room)
      BY <1>1, <1>3 DEF End, Covers
<1> QED BY <1>1, <1>4, <1>5 DEF Straight, Front, FrontHalf, Sum, accepted

LEMMA BackStraight ==
    ASSUME Ctx, NEW off \in 1 .. pl - 1, NEW b, Back(b, off)
    PROVE  /\ b \in Builder
           /\ pl - off <= Room => Straight(b) /\ Covers(b) = off + 1 .. pl
           /\ ~(pl - off <= Room) =>
                /\ Len(b.body) = Room /\ Covers(b) = off + 1 .. off + Room
                /\ \A n \in 1 .. Len(b.body) : b.body[n] = n
           /\ ~Extended <=> accepted(b)
<1>1. /\ b \in Builder /\ b.seq = off
      /\ pl - off <= Room => /\ Len(b.body) = pl - off
                             /\ \A n \in 1 .. Len(b.body) : b.body[n] = Payload[off + n]
      /\ pl - off > Room  => /\ Len(b.body) = Room
                             /\ \A n \in 1 .. Len(b.body) : b.body[n] = Payload[n]
      BY PayloadIs DEF Back, BackHalf, Good, Kin
<1>2. off \in Nat /\ off < pl /\ pl \in Nat /\ Room \in Nat
      BY RoomIs
<1>3. \A n \in 1 .. pl : Payload[n] = n
      BY PayloadIs
<1> HIDE DEF pl, Room
<1>4. ASSUME pl - off <= Room PROVE Straight(b) /\ Covers(b) = off + 1 .. pl
  <2>1. \A n \in 1 .. pl - off : off + n \in 1 .. pl
        BY <1>2
  <2>2. off + (pl - off) = pl
        BY <1>2
  <2>3. End(b) = pl /\ Covers(b) = off + 1 .. pl
        BY <1>1, <1>4, <2>2 DEF End, Covers
  <2>4. \A n \in 1 .. Len(b.body) : b.body[n] = b.seq + n
    <3>1. ASSUME NEW n \in 1 .. pl - off PROVE Payload[off + n] = off + n
          BY <1>3, <2>1
    <3> QED BY <1>1, <1>4, <3>1
  <2>5. End(b) <= pl
        BY <1>2, <2>3
  <2> QED BY <2>3, <2>4, <2>5 DEF Straight
<1>5. ASSUME ~(pl - off <= Room)
      PROVE  /\ Len(b.body) = Room /\ Covers(b) = off + 1 .. off + Room
             /\ \A n \in 1 .. Len(b.body) : b.body[n] = n
  <2>1. pl - off > Room
        BY <1>2, <1>5
  <2>2. \A n \in 1 .. Room : n \in 1 .. pl
        BY <1>2, <2>1
  <2> QED BY <1>1, <1>3, <2>1, <2>2 DEF Covers
<1>6. ~Extended <=> accepted(b)
      BY DEF Back, BackHalf, Sum, accepted
<1> QED BY <1>1, <1>4, <1>5, <1>6

\* A queue of decoys and the two halves of the segment.
Halves(q, off) ==
    /\ off \in 1 .. pl - 1
    /\ \A k \in DOMAIN q : Decoy(q[k]) \/ Front(q[k], off) \/ Back(q[k], off)
    /\ \E k \in DOMAIN q : Front(q[k], off)
    /\ \E k \in DOMAIN q : Back(q[k], off)

LEMMA HalvesReplace ==
    ASSUME Ctx, NEW off, NEW q, q \in Seq(Builder), Halves(q, off),
           NEW h \in {"tls-split", "disorder"}
    PROVE  Replaces(q, pl, 0, h) /\ AllGood(q)
<1>1. off \in 1 .. pl - 1
      BY DEF Halves
<1>2. ASSUME NEW k \in DOMAIN q
      PROVE  /\ Good(q[k]) /\ q[k] \in Builder
             /\ accepted(q[k]) => Class(q[k], pl, 0, h) \/ Late(q[k], h)
  <2>1. CASE Decoy(q[k])
        BY <2>1 DEF Decoy, Rejected, Good, Kin, accepted
  <2>2. CASE Front(q[k], off)
        BY <1>1, <2>2, FrontStraight, StraightIs DEF Front, FrontHalf
  <2>3. CASE Back(q[k], off)
    <3>1. CASE pl - off <= Room
          BY <1>1, <2>3, <3>1, BackStraight, StraightIs DEF Back, BackHalf
    <3>2. CASE ~(pl - off <= Room)
      <4>1. pl - off > Room
            BY <1>1, <3>2, RoomIs
      <4>2. q[k].seq = off /\ Good(q[k])
            BY <2>3 DEF Back, BackHalf
      <4>3. /\ Len(q[k].body) = Room /\ \A n \in 1 .. Len(q[k].body) : q[k].body[n] = n
            /\ q[k] \in Builder /\ accepted(q[k]) => ~Extended
            BY <1>1, <2>3, <3>2, BackStraight
      <4> QED BY <1>1, <4>1, <4>2, <4>3 DEF Late
    <3> QED BY <3>1, <3>2
  <2> QED BY <2>1, <2>2, <2>3 DEF Halves
<1>4. pl \in 1 .. pl /\ pl + 0 = pl /\ Longer(0, h) /\ h # NoName
      BY RoomIs DEF Longer, NoName
<1>3. ASSUME ~Extended, NEW n \in 1 .. pl, n \notin CutBy(h) PROVE Covered(q, n)
  <2>1. n <= Room /\ off \in Nat /\ off < pl /\ off >= 1
        BY <1>1, <1>3, <1>4, RoomIs DEF CutBy
  <2>2. PICK j \in DOMAIN q : Front(q[j], off)
        BY DEF Halves
  <2>3. PICK k \in DOMAIN q : Back(q[k], off)
        BY DEF Halves
  <2>4. accepted(q[j]) /\ Covers(q[j]) = 1 .. Smaller(off, Room)
        BY <1>1, <1>3, <2>2, FrontStraight
  <2>5. /\ accepted(q[k])
        /\ Covers(q[k]) = off + 1 .. pl \/ Covers(q[k]) = off + 1 .. off + Room
        BY <1>1, <1>3, <2>3, BackStraight
  <2>6. \/ n \in 1 .. Smaller(off, Room)
        \/ n \in off + 1 .. pl /\ n \in off + 1 .. off + Room
        BY <2>1, RoomIs DEF Smaller
  <2> QED BY <2>4, <2>5, <2>6 DEF Covered
<1> QED BY <1>2, <1>3, <1>4 DEF Replaces, AllGood

LEMMA HalvesPrepend ==
    ASSUME NEW d, AllDecoys(d), NEW off, NEW q, q \in Seq(Builder), Halves(q, off)
    PROVE  d \o q \in Seq(Builder) /\ Halves(d \o q, off)
<1>1. d \in Seq(Builder)
      BY DEF AllDecoys
<1> DEFINE r == d \o q
<1>2. r = d \o q
      OBVIOUS
<1> HIDE DEF r
<1>3. Concat(r, d, q)
      BY <1>1, <1>2, ConcatIs
<1>4. Halves(r, off)
      BY <1>3 DEF Halves, Concat, AllDecoys
<1> QED BY <1>3, <1>4 DEF r, Concat

LEMMA PairHalves ==
    ASSUME NEW off \in 1 .. pl - 1, NEW a, NEW b, Front(a, off), Back(b, off)
    PROVE  /\ <<a, b>> \in Seq(Builder) /\ Halves(<<a, b>>, off)
           /\ <<b, a>> \in Seq(Builder) /\ Halves(<<b, a>>, off)
<1>1. a \in Builder /\ b \in Builder
      BY DEF Front, FrontHalf, Back, BackHalf, Good, Kin
<1>2. ASSUME NEW q, q \in Seq(Builder), DOMAIN q = {1, 2},
             (q[1] = a /\ q[2] = b) \/ (q[1] = b /\ q[2] = a)
      PROVE  Halves(q, off)
      BY <1>2 DEF Halves
<1>3. Halves(<<a, b>>, off)
  <2> DEFINE q == <<a, b>>
  <2>1. q \in Seq(Builder) /\ DOMAIN q = {1, 2} /\ q[1] = a /\ q[2] = b
        BY <1>1
  <2> HIDE DEF q
  <2>2. Halves(q, off)
        BY <1>2, <2>1
  <2> QED BY <2>2 DEF q
<1>4. Halves(<<b, a>>, off)
  <2> DEFINE q == <<b, a>>
  <2>1. q \in Seq(Builder) /\ DOMAIN q = {1, 2} /\ q[1] = b /\ q[2] = a
        BY <1>1
  <2> HIDE DEF q
  <2>2. Halves(q, off)
        BY <1>2, <2>1
  <2> QED BY <2>2 DEF q
<1> QED BY <1>1, <1>3, <1>4
-----------------------------------------------------------------------------
(* Stages that change the payload *)

\* The payload s is the segment's, G bytes longer behind the first P; or what fits of the
\* segment's own.
Carries(s, P, G, h) ==
    /\ P \in 1 .. pl /\ Longer(G, h) /\ (G # 0 => P < pl /\ Skipped(h) <= P)
    /\ s \in Seq(Int) /\ Len(s) <= pl + G
    /\ Len(s) = pl + G \/ (G = 0 /\ Len(s) = Room)
    /\ \A n \in 1 .. Len(s) : Byte(n, s[n], P, G, h)

LEMMA CopyCarries ==
    ASSUME Ctx, NEW h
    PROVE  Carries(copy.body, pl, 0, h)
<1>1. /\ copy.body \in Seq(Int) /\ Len(copy.body) = Smaller(pl, Room)
      /\ \A n \in 1 .. Len(copy.body) : copy.body[n] = n
      BY CopyIs, KinSize
<1>2. /\ Smaller(pl, Room) \in Nat /\ Smaller(pl, Room) <= pl /\ pl + 0 = pl
      /\ Smaller(pl, Room) \in {pl, Room}
      BY RoomIs DEF Smaller
<1>3. ASSUME NEW n \in 1 .. Len(copy.body) PROVE Byte(n, copy.body[n], pl, 0, h)
  <2>1. n <= pl /\ ~(pl < n) /\ ~(pl + 0 < n) /\ copy.body[n] = n
        BY <1>1, <1>2, RoomIs
  <2> QED BY <2>1 DEF Byte
<1> QED BY <1>1, <1>2, <1>3, RoomIs DEF Carries, Longer

\* One packet of such a payload.
LEMMA WholeReplaces ==
    ASSUME Ctx, NEW h, h # NoName, NEW b, Good(b), b.seq = 0, b.ttl = "own", b.md5 = FALSE,
           b.checksum = "good" \/ Extended,
           NEW P, NEW G, Carries(b.body, P, G, h)
    PROVE  Replaces(<<b>>, P, G, h) /\ AllGood(<<b>>)
<1> DEFINE l == Len(b.body)
           q == <<b>>
<1>1. b \in Builder /\ l \in Nat
      BY DEF Good, Kin, Builder
<1>2. q \in Seq(Builder) /\ DOMAIN q = {1} /\ q[1] = b
      BY <1>1
<1>3. P \in Nat /\ pl \in Nat /\ G \in Nat
      BY RoomIs DEF Carries, Longer
<1> HIDE DEF q, l
<1>4. End(b) = l /\ Covers(b) = 1 .. l
      BY <1>1 DEF End, Covers, l
<1>5. \A n \in 1 .. l : ByteAt(b, n) = b.body[n]
      BY <1>1 DEF ByteAt
<1>6. /\ l <= pl + G /\ (l = pl + G \/ (G = 0 /\ l = Room))
      /\ \A n \in 1 .. l : Byte(n, b.body[n], P, G, h)
      BY DEF Carries, l
<1>7. Class(b, P, G, h)
  <2>1. G = 0 \/ End(b) <= P \/ (b.seq <= P /\ End(b) = pl + G)
        BY <1>3, <1>4, <1>6 DEF Carries
  <2> QED BY <1>4, <1>5, <1>6, <2>1 DEF Class
<1>8. ASSUME ~Extended, NEW n \in 1 .. pl + G, G # 0 \/ n \notin CutBy(h) PROVE Covered(q, n)
  <2>1. n \in 1 .. l
        BY <1>1, <1>3, <1>6, <1>8, RoomIs DEF CutBy
  <2>2. accepted(b) /\ n \in Covers(b)
        BY <1>4, <1>8, <2>1 DEF accepted
  <2> QED BY <1>2, <2>2 DEF Covered
<1>9. Replaces(q, P, G, h)
      BY <1>2, <1>7, <1>8 DEF Replaces, Carries
<1>10. AllGood(q)
       BY <1>2 DEF AllGood
<1> QED BY <1>9, <1>10 DEF q

\* Its halves, the first of which ends before what was added.
LEMMA PartsReplace ==
    ASSUME Ctx, NEW h, h # NoName, NEW s, NEW P, NEW G, Carries(s, P, G, h),
           NEW off \in 1 .. Len(s) - 1, G # 0 => off <= P,
           NEW room \in Nat, Len(s) <= room,
           NEW a, FrontHalf(a, s, off, room), NEW b, BackHalf(b, s, off, room)
    PROVE  Replaces(<<a, b>>, P, G, h) /\ AllGood(<<a, b>>)
<1> DEFINE l == Len(s)
           q == <<a, b>>
<1>1. a \in Builder /\ b \in Builder
      BY DEF Good, Kin, FrontHalf, BackHalf
<1>2. q \in Seq(Builder) /\ DOMAIN q = {1, 2} /\ q[1] = a /\ q[2] = b
      BY <1>1
<1>3. P \in Nat /\ pl \in Nat /\ G \in Nat /\ l \in Nat /\ off \in Nat /\ off < l /\ 1 <= off
      /\ l <= room
  <2>1. P \in Nat /\ pl \in Nat /\ G \in Nat
        BY RoomIs, SMTT(20) DEF Carries, Longer
  <2>2. l \in Nat
        BY DEF Carries
  <2> HIDE DEF l
  <2>3. off \in 1 .. l - 1 /\ l <= room
        BY DEF l
  <2> QED BY <2>1, <2>2, <2>3
<1> HIDE DEF q, l
<1>4. Smaller(off, room) = off /\ l - off <= room
      BY <1>3 DEF Smaller
<1>5. /\ a.seq = 0 /\ Len(a.body) = off /\ \A n \in 1 .. off : a.body[n] = s[n]
      BY <1>4 DEF FrontHalf
<1>6. /\ b.seq = off /\ Len(b.body) = l - off /\ \A n \in 1 .. l - off : b.body[n] = s[off + n]
      BY <1>4 DEF BackHalf, l
<1>7. End(a) = off /\ Covers(a) = 1 .. off /\ \A n \in 1 .. off : ByteAt(a, n) = s[n]
      BY <1>3, <1>5 DEF End, Covers, ByteAt
<1>8. /\ End(b) = l /\ Covers(b) = off + 1 .. l
      /\ \A n \in off + 1 .. l : ByteAt(b, n) = s[n]
  <2>1. off + (l - off) = l
        BY <1>3
  <2>2. \A n \in off + 1 .. l : n - off \in 1 .. l - off /\ off + (n - off) = n
        BY <1>3
  <2>3. \A n \in off + 1 .. l : b.body[n - off] = s[n]
        BY <1>6, <2>2
  <2> QED BY <1>6, <2>1, <2>3 DEF End, Covers, ByteAt
<1>9. /\ l <= pl + G /\ (l = pl + G \/ (G = 0 /\ l = Room))
      /\ \A n \in 1 .. l : Byte(n, s[n], P, G, h)
      BY DEF Carries, l
<1>10. Class(a, P, G, h)
  <2>1. off <= pl + G /\ \A n \in 1 .. off : n \in 1 .. l
        BY <1>3, <1>9
  <2> QED BY <1>7, <1>9, <2>1 DEF Class
<1>11. Class(b, P, G, h)
  <2>1. \A n \in off + 1 .. l : n \in 1 .. l
        BY <1>3
  <2>2. G = 0 \/ End(b) <= P \/ (b.seq <= P /\ End(b) = pl + G)
        BY <1>6, <1>8, <1>9
  <2> QED BY <1>8, <1>9, <2>1, <2>2 DEF Class
<1>12. ASSUME ~Extended, NEW n \in 1 .. pl + G, G # 0 \/ n \notin CutBy(h)
       PROVE  Covered(q, n)
  <2>1. accepted(a) /\ accepted(b)
        BY <1>12 DEF accepted, FrontHalf, BackHalf, Sum
  <2>2. n \in 1 .. l
        BY <1>3, <1>9, <1>12, RoomIs DEF CutBy
  <2>3. n \in Covers(a) \/ n \in Covers(b)
        BY <1>3, <1>7, <1>8, <2>2
  <2> QED BY <1>2, <2>1, <2>3 DEF Covered
<1>13. Replaces(q, P, G, h)
      BY <1>2, <1>10, <1>11, <1>12 DEF Replaces, Carries
<1>14. AllGood(q)
       BY <1>2 DEF AllGood, FrontHalf, BackHalf
<1> QED BY <1>13, <1>14 DEF q

\* The copy of the segment with such a payload, or with its own where that does not fit.
Bodied(b, s, P, h) ==
    /\ Good(b) /\ b.seq = 0 /\ b.ttl = "own" /\ b.md5 = FALSE
    /\ b.checksum = "good" \/ Extended
    /\ Hdr + Len(s) <= kMaxMtu => b.body = s
    /\ \E Q, g : Carries(b.body, Q, g, h) /\ (g # 0 => Q = P)

LEMMA BodyCarries ==
    ASSUME Ctx, NEW h, NEW s, NEW P, NEW G, Carries(s, P, G, h),
           NEW b, b = recompute(replace_payload(copy, s))
    PROVE  Bodied(b, s, P, h)
<1>1. Kin(copy) /\ copy.seq = 0 /\ copy.ttl = "own" /\ copy.md5 = FALSE /\ headers(copy) = Hdr
      BY CopyIs
<1>2. s \in Seq(Int)
      BY DEF Carries
<1>3. Made(b, copy, s)
      BY <1>1, <1>2, MadeIs
<1>4. b.body = s \/ b.body = copy.body
  <2>1. Hdr + Len(s) <= kMaxMtu \/ Hdr + Len(s) > kMaxMtu
    <3>1. Len(s) \in Nat
          BY <1>2
    <3> QED BY <3>1, RoomIs
  <2> QED BY <1>1, <1>3, <2>1 DEF Made
<1>5. Carries(copy.body, pl, 0, h)
      BY CopyCarries
<1>6. \E Q, g : Carries(b.body, Q, g, h) /\ (g # 0 => Q = P)
      BY <1>4, <1>5
<1> QED BY <1>1, <1>3, <1>6 DEF Made, Same, Bodied

LEMMA OneReplaces ==
    ASSUME Ctx, NEW h, h # NoName, NEW s, NEW P, NEW G, Carries(s, P, G, h),
           NEW b, b = recompute(replace_payload(copy, s))
    PROVE  AllGood(<<b>>) /\ \E Q, g : Replaces(<<b>>, Q, g, h)
<1>1. /\ Good(b) /\ b.seq = 0 /\ b.ttl = "own" /\ b.md5 = FALSE
      /\ b.checksum = "good" \/ Extended
      /\ \E Q, g : Carries(b.body, Q, g, h)
  <2>1. Bodied(b, s, P, h)
        BY BodyCarries
  <2> QED BY <2>1 DEF Bodied
<1>2. PICK Q, g : Carries(b.body, Q, g, h)
      BY <1>1
<1> QED BY <1>1, <1>2, WholeReplaces

\* That copy parsed again and split.
LEMMA TwoReplace ==
    ASSUME Ctx, NEW h, h # NoName, NEW s, NEW P, NEW G, Carries(s, P, G, h),
           NEW b, b = recompute(replace_payload(copy, s)),
           NEW off \in 1 .. payload_size(parsed(b)) - 1, off <= P
    PROVE  LET halves == split_payload(parsed(b), reset(parsed(b)), b.body, off)
           IN  AllGood(halves) /\ \E Q, g : Replaces(halves, Q, g, h)
<1> DEFINE x == parsed(b)
           v == reset(x)
           t == b.body
           room == kMaxMtu - headers(b)
           c == from_view(x, v, t)
           halves == split_payload(x, v, t, off)
<1>1. /\ Good(b) /\ \E Q, g : Carries(t, Q, g, h) /\ (g # 0 => Q = P)
  <2>1. Bodied(b, s, P, h)
        BY BodyCarries
  <2> QED BY <2>1 DEF Bodied
<1>2. PICK Q, g : Carries(t, Q, g, h) /\ (g # 0 => Q = P)
      BY <1>1
<1>3. Kin(b) /\ ParsesBack(b)
      BY <1>1, KinParsesBack DEF Good
<1>4. /\ v.ip_hdr_len = b.ip_hdr_len /\ v.tcp_hdr_len = b.tcp_hdr_len
      /\ payload_size(x) = Len(t)
      BY <1>3 DEF ParsesBack
<1>5. /\ x.ver = seg.ip.ver /\ x.ihl = seg.ip.ihl /\ x.chain = seg.ip.chain
      /\ x.length \in 0 .. MaxUint16 /\ x.doff \in 5 .. 15
      /\ v.ip_hdr_len = view.ip_hdr_len /\ v.tcp_hdr_len = 4 * x.doff
      BY <1>3, <1>4 DEF Kin, Builder, parsed
<1>6. v.ip_hdr_len + v.tcp_hdr_len = headers(b) /\ t \in Seq(Int)
      BY <1>3, <1>4, KinSize DEF headers
<1>7. room \in Nat /\ headers(b) <= kMaxMtu /\ Len(t) <= room /\ headers(b) = kMaxMtu - room
  <2> DEFINE n == Len(t)
             k == headers(b)
  <2>1. n \in Nat /\ k \in 40 .. MaxUint16 /\ size(b) = k + n /\ size(b) <= kMaxMtu
        BY <1>3, KinSize DEF Kin
  <2>2. room = kMaxMtu - k
        OBVIOUS
  <2> HIDE DEF n, k, room
  <2>3. k \in Nat
        BY <2>1, Uint16
  <2>4. room \in Nat /\ k <= kMaxMtu /\ n <= room /\ k = kMaxMtu - room
        BY <2>1, <2>2, <2>3, RoomIs
  <2> QED BY <2>4 DEF n, k
<1>8. room = kMaxMtu - (v.ip_hdr_len + v.tcp_hdr_len) /\ c = from_view(x, v, t)
      BY <1>6
<1>9. v.ip_hdr_len + v.tcp_hdr_len <= kMaxMtu
      BY <1>6, <1>7
<1>10. off \in 1 .. Len(t) - 1
      BY <1>4
<1> HIDE DEF x, v, t, c, room
<1>11. Copied(c, x, t, room)
      BY <1>5, <1>6, <1>8, <1>9, FromViewIs
<1>12. headers(c) = kMaxMtu - room
  <2>1. Kin(c) /\ c.doff = x.doff
        BY <1>11 DEF Copied
  <2>2. headers(c) = view.ip_hdr_len + 4 * x.doff
        BY <2>1, KinSize
  <2> QED BY <1>5, <1>6, <1>7, <2>2
<1>13. FrontHalf(halves[1], t, off, room) /\ BackHalf(halves[2], t, off, room)
  <2>1. /\ Copied(from_view(x, v, t), x, t, room)
        /\ headers(from_view(x, v, t)) = kMaxMtu - room
        BY <1>8, <1>11, <1>12
  <2>2. t \in Seq(Int) /\ room \in Nat
        BY <1>6, <1>7
  <2> QED BY <1>10, <2>1, <2>2, SplitIs
<1>14. halves = <<halves[1], halves[2]>>
      BY DEF split_payload
<1>15. g # 0 => off <= Q
      BY <1>2
<1> HIDE DEF halves
<1>16. /\ Replaces(<<halves[1], halves[2]>>, Q, g, h)
       /\ AllGood(<<halves[1], halves[2]>>)
      BY <1>2, <1>7, <1>10, <1>13, <1>15, PartsReplace
<1>17. AllGood(halves) /\ Replaces(halves, Q, g, h)
      BY <1>14, <1>16
<1> QED BY <1>17 DEF halves, x, v, t

LEMMA SegmentInfo ==
    ASSUME Ctx
    PROVE  /\ seg.tls \in TlsInfo /\ seg.http \in HttpInfo /\ Located(seg)
           /\ payload_size(seg.ip) = pl /\ p \in Param /\ pipeline \in Seq(Name)
           /\ nextLen \in Nat /\ nextLen >= 1 /\ nextLen <= MaxUint16
<1>1. seg \in Segment /\ p \in Param /\ Located(seg) /\ pipeline \in Seq(Name)
      /\ nextLen \in 1 .. MaxUint16
      BY StrategyAssumption DEF Ctx
<1>2. payload_size(seg.ip) = pl
      BY DEF Ctx, payload_size, pl
<1> QED BY <1>1, <1>2, Uint16 DEF Segment

LEMMA CutIs ==
    ASSUME Ctx, NEW m \in Nat, m >= 4
    PROVE  Cut(m) \in 1 .. m - 1
<1> DEFINE o == seg.tls.sni_off
<1>1. o \in Nat
      BY SegmentInfo DEF TlsInfo
<1> HIDE DEF o
<1>2. Smaller(Larger(o - 5, 1), m - 1) \in 1 .. m - 1
      BY <1>1 DEF Smaller, Larger
<1>3. m \div 2 \in 1 .. m - 1
      OBVIOUS
<1> QED BY <1>2, <1>3 DEF Cut, o

\* The bytes of a concatenation.
Joined(q, d, r) ==
    /\ q \in Seq(Int) /\ Len(q) = Len(d) + Len(r)
    /\ \A n \in 1 .. Len(d) + Len(r) : q[n] = IF n <= Len(d) THEN d[n] ELSE r[n - Len(d)]

LEMMA JoinedIs ==
    ASSUME NEW d \in Seq(Int), NEW r \in Seq(Int)
    PROVE  Joined(d \o r, d, r)
<1>1. d \o r \in Seq(Int) /\ Len(d \o r) = Len(d) + Len(r)
      OBVIOUS
<1>2. \A n \in 1 .. Len(d) + Len(r) : (d \o r)[n] = IF n <= Len(d) THEN d[n] ELSE r[n - Len(d)]
      OBVIOUS
<1> QED BY <1>1, <1>2 DEF Joined

\* The bytes of a record with its new header.
LEMMA RecordIs ==
    ASSUME NEW s \in Seq(Int)
    PROVE  /\ record(s) \in Seq(Int) /\ Len(record(s)) = 5 + Len(s)
           /\ \A n \in 1 .. 5 : record(s)[n] = Inserted
           /\ \A n \in 1 .. Len(s) : record(s)[5 + n] = s[n]
<1> DEFINE t == [k \in 1 .. 5 |-> Inserted]
           m == Len(s)
<1>1. t \in Seq(Int) /\ Len(t) = 5 /\ \A n \in 1 .. 5 : t[n] = Inserted
      BY DEF Inserted
<1>2. record(s) = t \o s
      BY DEF record
<1> HIDE DEF t
<1>5. m \in Nat
      OBVIOUS
<1>3. Joined(t \o s, t, s)
      BY <1>1, JoinedIs
<1> HIDE DEF m
<1>4. /\ t \o s \in Seq(Int) /\ Len(t \o s) = 5 + m
      /\ \A n \in 1 .. 5 + m : (t \o s)[n] = IF n <= 5 THEN t[n] ELSE s[n - 5]
      BY <1>1, <1>3 DEF Joined, m
<1>6. ASSUME NEW n \in 1 .. 5 PROVE (t \o s)[n] = Inserted
  <2>1. n \in 1 .. 5 + m /\ n <= 5
        BY <1>5
  <2> QED BY <1>1, <1>4, <2>1, SMTT(20)
<1>7. ASSUME NEW n \in 1 .. m PROVE (t \o s)[5 + n] = s[n]
  <2>1. 5 + n \in 1 .. 5 + m /\ ~(5 + n <= 5) /\ (5 + n) - 5 = n
        BY <1>5
  <2> QED BY <1>4, <2>1, SMTT(20)
<1> QED BY <1>2, <1>4, <1>6, <1>7 DEF m

\* The records of tls-frag: the second header stands behind the first c bytes of the body.
LEMMA RebuiltIs ==
    ASSUME Ctx, NEW e \in 9 .. pl, NEW w,
           w = rebuilt(SubSeq(Payload, 6, e), SubSeq(Payload, e + 1, pl))
    PROVE  LET c == Cut(e - 5)
           IN  /\ c \in 1 .. e - 6 /\ w \in Seq(Int) /\ Len(w) = pl + 5
               /\ \A n \in 1 .. pl + 5 :
                    w[n] = IF n <= 5 THEN Inserted ELSE IF n <= 5 + c THEN n
                           ELSE IF n <= 10 + c THEN Inserted ELSE n - 5
<1> DEFINE body == SubSeq(Payload, 6, e)
           rest == SubSeq(Payload, e + 1, pl)
           m == Len(body)
           c == Cut(e - 5)
           s == SubSeq(body, 1, c)
           t == SubSeq(body, c + 1, m)
           r == record(s) \o record(t)
<1>1. Payload \in Seq(Int) /\ Len(Payload) = pl /\ \A n \in 1 .. pl : Payload[n] = n
      BY PayloadIs
<1>2. e \in Nat /\ 9 <= e /\ e <= pl /\ pl \in Nat
      BY RoomIs
<1> HIDE DEF Payload
<1>3. body \in Seq(Int) /\ m = e - 5 /\ \A n \in 1 .. e - 5 : body[n] = n + 5
  <2>1. body \in Seq(Int) /\ m = e - 6 + 1 /\ \A n \in 1 .. e - 6 + 1 : body[n] = Payload[6 + n - 1]
        BY <1>1, <1>2
  <2>2. e - 6 + 1 = e - 5 /\ \A n \in 1 .. e - 5 : 6 + n - 1 = n + 5 /\ n + 5 \in 1 .. pl
        BY <1>2
  <2>3. \A n \in 1 .. e - 5 : Payload[6 + n - 1] = n + 5
        BY <1>1, <2>2
  <2> HIDE DEF body
  <2> QED BY <2>1, <2>2, <2>3
<1>4. rest \in Seq(Int) /\ Len(rest) = pl - e /\ \A n \in 1 .. pl - e : rest[n] = e + n
  <2> DEFINE a == e + 1
  <2>1. a \in Nat /\ 1 <= a /\ a <= pl + 1 /\ pl - a + 1 = pl - e
        BY <1>2
  <2> HIDE DEF a
  <2>2. SubSeq(Payload, a, pl) \in Seq(Int) /\ Len(SubSeq(Payload, a, pl)) = pl - a + 1
        /\ \A n \in 1 .. pl - a + 1 : SubSeq(Payload, a, pl)[n] = Payload[a + n - 1]
        BY <1>1, <1>2, <2>1
  <2>3. \A n \in 1 .. pl - e : a + n - 1 = e + n /\ e + n \in 1 .. pl
        BY <1>2, <2>1 DEF a
  <2>4. \A n \in 1 .. pl - e : Payload[a + n - 1] = e + n
        BY <1>1, <2>3
  <2> QED BY <2>1, <2>2, <2>4 DEF a
<1>5. c \in 1 .. e - 6 /\ c \in Nat
  <2>1. e - 5 \in Nat /\ e - 5 >= 4 /\ (e - 5) - 1 = e - 6
        BY <1>2
  <2>2. Cut(e - 5) \in 1 .. (e - 5) - 1
        BY <2>1, CutIs
  <2> HIDE DEF c
  <2>3. c \in 1 .. e - 6
        BY <2>1, <2>2 DEF c
  <2> QED BY <2>3
<1>6. w = r \o rest
  <2>1. m = e - 5
        BY <1>3
  <2> QED BY <2>1 DEF rebuilt
<1> HIDE DEF body, rest, m, c, r, s, t
<1>7. s \in Seq(Int) /\ Len(s) = c /\ \A n \in 1 .. c : s[n] = n + 5
  <2>1. s \in Seq(Int) /\ Len(s) = c /\ \A n \in 1 .. c : s[n] = body[n]
        BY <1>2, <1>3, <1>5 DEF s, m
  <2>2. \A n \in 1 .. c : n \in 1 .. e - 5
        BY <1>2, <1>5
  <2> QED BY <1>3, <2>1, <2>2
<1>8. /\ t \in Seq(Int) /\ Len(t) = e - 5 - c
      /\ \A n \in 1 .. e - 5 - c : t[n] = c + n + 5
  <2>1. /\ t \in Seq(Int) /\ Len(t) = m - (c + 1) + 1
        /\ \A n \in 1 .. m - (c + 1) + 1 : t[n] = body[c + 1 + n - 1]
        BY <1>2, <1>3, <1>5 DEF t, m
  <2>2. m - (c + 1) + 1 = e - 5 - c
        BY <1>2, <1>3, <1>5
  <2>3. \A n \in 1 .. e - 5 - c : c + 1 + n - 1 = c + n /\ c + n \in 1 .. e - 5
        BY <1>2, <1>5
  <2> QED BY <1>3, <2>1, <2>2, <2>3
<1> DEFINE a == record(s)
           b == record(t)
<1>9. /\ a \in Seq(Int) /\ Len(a) = 5 + c
      /\ \A n \in 1 .. 5 : a[n] = Inserted
      /\ \A n \in 1 .. c : a[5 + n] = n + 5
      BY <1>7, RecordIs
<1>10. /\ b \in Seq(Int) /\ Len(b) = e - c
       /\ \A n \in 1 .. 5 : b[n] = Inserted
       /\ \A n \in 1 .. e - 5 - c : b[5 + n] = c + n + 5
  <2>1. 5 + (e - 5 - c) = e - c
        BY <1>2, <1>5
  <2> QED BY <1>8, <2>1, RecordIs
<1>11. r = a \o b
       BY DEF r
<1> HIDE DEF a, b
<1>12. /\ r \in Seq(Int) /\ Len(r) = e + 5
       /\ \A n \in 1 .. e + 5 : r[n] = IF n <= 5 + c THEN a[n] ELSE b[n - (5 + c)]
  <2>1. (5 + c) + (e - c) = e + 5
        BY <1>2, <1>5
  <2>2. /\ a \o b \in Seq(Int) /\ Len(a \o b) = Len(a) + Len(b)
        /\ \A n \in 1 .. Len(a) + Len(b) :
             (a \o b)[n] = IF n <= Len(a) THEN a[n] ELSE b[n - Len(a)]
        BY <1>9, <1>10, JoinedIs DEF Joined
  <2> QED BY <1>9, <1>10, <1>11, <2>1, <2>2
<1>13. /\ w \in Seq(Int) /\ Len(w) = pl + 5
       /\ \A n \in 1 .. pl + 5 : w[n] = IF n <= e + 5 THEN r[n] ELSE rest[n - (e + 5)]
  <2>1. (e + 5) + (pl - e) = pl + 5
        BY <1>2
  <2>2. /\ r \o rest \in Seq(Int) /\ Len(r \o rest) = Len(r) + Len(rest)
        /\ \A n \in 1 .. Len(r) + Len(rest) :
             (r \o rest)[n] = IF n <= Len(r) THEN r[n] ELSE rest[n - Len(r)]
        BY <1>4, <1>12, JoinedIs DEF Joined
  <2> QED BY <1>4, <1>6, <1>12, <2>1, <2>2
<1>14. ASSUME NEW n \in 1 .. pl + 5
       PROVE  w[n] = IF n <= 5 THEN Inserted ELSE IF n <= 5 + c THEN n
                     ELSE IF n <= 10 + c THEN Inserted ELSE n - 5
  <2> HIDE DEF pl
  <2>1. CASE n <= 5
    <3>1. n <= e + 5 /\ n \in 1 .. e + 5 /\ n <= 5 + c /\ n \in 1 .. 5
          BY <1>2, <1>5, <2>1
    <3> QED BY <1>9, <1>12, <1>13, <2>1, <3>1
  <2>2. CASE ~(n <= 5) /\ n <= 5 + c
    <3>1. n <= e + 5 /\ n \in 1 .. e + 5 /\ n - 5 \in 1 .. c /\ 5 + (n - 5) = n /\ (n - 5) + 5 = n
          BY <1>2, <1>5, <2>2
    <3>2. a[n] = n
          BY <1>9, <3>1
    <3> QED BY <1>12, <1>13, <2>2, <3>1, <3>2
  <2>3. CASE ~(n <= 5 + c) /\ n <= 10 + c
    <3>1. n <= e + 5 /\ n \in 1 .. e + 5 /\ n - (5 + c) \in 1 .. 5 /\ ~(n <= 5)
          BY <1>2, <1>5, <2>3
    <3>2. b[n - (5 + c)] = Inserted
          BY <1>10, <3>1
    <3> QED BY <1>12, <1>13, <2>3, <3>1, <3>2
  <2>4. CASE ~(n <= 10 + c) /\ n <= e + 5
    <3> DEFINE k == n - (10 + c)
    <3>1. n \in 1 .. e + 5 /\ ~(n <= 5) /\ ~(n <= 5 + c) /\ k \in 1 .. e - 5 - c
          /\ n - (5 + c) = 5 + k /\ c + k + 5 = n - 5
          BY <1>2, <1>5, <2>4
    <3> HIDE DEF k
    <3>2. b[n - (5 + c)] = n - 5
          BY <1>10, <3>1
    <3> QED BY <1>12, <1>13, <2>4, <3>1, <3>2
  <2>5. CASE ~(n <= e + 5)
    <3> DEFINE k == n - (e + 5)
    <3>1. ~(n <= 5) /\ ~(n <= 5 + c) /\ ~(n <= 10 + c) /\ k \in 1 .. pl - e
          /\ e + k = n - 5
          BY <1>2, <1>5, <2>5
    <3> HIDE DEF k
    <3>2. rest[k] = n - 5
          BY <1>4, <3>1
    <3> QED BY <1>13, <2>5, <3>1, <3>2 DEF k
  <2>6. \/ n <= 5
        \/ ~(n <= 5) /\ n <= 5 + c
        \/ ~(n <= 5 + c) /\ n <= 10 + c
        \/ ~(n <= 10 + c) /\ n <= e + 5
        \/ ~(n <= e + 5)
        OBVIOUS
  <2> QED BY <2>1, <2>2, <2>3, <2>4, <2>5, <2>6
<1> QED BY <1>5, <1>13, <1>14 DEF c

LEMMA FragCarries ==
    ASSUME Ctx, NEW e \in 9 .. pl, NEW w,
           w = rebuilt(SubSeq(Payload, 6, e), SubSeq(Payload, e + 1, pl))
    PROVE  Carries(w, 5 + Cut(e - 5), 5, "tls-frag")
<1> DEFINE c == Cut(e - 5)
<1>1. /\ c \in 1 .. e - 6 /\ w \in Seq(Int) /\ Len(w) = pl + 5
      /\ \A n \in 1 .. pl + 5 :
           w[n] = IF n <= 5 THEN Inserted ELSE IF n <= 5 + c THEN n
                  ELSE IF n <= 10 + c THEN Inserted ELSE n - 5
      BY RebuiltIs
<1> HIDE DEF c
<1>2. c \in Nat /\ 1 <= c /\ 5 + c < pl /\ pl \in Nat
      BY <1>1, RoomIs
<1>3. Skipped("tls-frag") = 6 /\ Filler("tls-frag") = Inserted
      BY DEF Skipped, Filler
<1>4. ASSUME NEW n \in 1 .. pl + 5 PROVE Byte(n, w[n], 5 + c, 5, "tls-frag")
  <2> DEFINE v == w[n]
  <2>1. v = IF n <= 5 THEN Inserted ELSE IF n <= 5 + c THEN n
            ELSE IF n <= 10 + c THEN Inserted ELSE n - 5
        BY <1>1
  <2> HIDE DEF v
  <2>2. n <= 5 + c => v = n \/ (n < 6 /\ v = Inserted)
        BY <1>2, <2>1
  <2>3. 5 + c < n /\ n <= 5 + c + 5 => v = Inserted
        BY <1>2, <2>1
  <2>4. 5 + c + 5 < n => v = n - 5
        BY <1>2, <2>1
  <2> QED BY <1>3, <2>2, <2>3, <2>4 DEF Byte, v
<1>5. 5 + c \in 1 .. pl /\ 5 + c < pl /\ 6 <= 5 + c
      BY <1>2
<1>6. Longer(5, "tls-frag")
      BY DEF Longer
<1>7. pl + 5 <= pl + 5
      BY <1>2
<1> QED BY <1>1, <1>3, <1>4, <1>5, <1>6, <1>7 DEF Carries, c

LEMMA MangledIs ==
    ASSUME Ctx
    PROVE  /\ mangled \in Seq(Int) /\ Len(mangled) = pl
           /\ \A n \in 1 .. pl : mangled[n] = n \/ mangled[n] = -n
<1> DEFINE at == seg.http.header_off + 1
           S  == {at, at + 1, at + 3}
<1>1. mangled = [k \in 1 .. pl |-> IF p.mangle_case /\ k \in S THEN -k ELSE k]
      BY DEF mangled
<1> HIDE DEF S
<1>2. pl \in Nat
      BY RoomIs
<1> HIDE DEF pl
<1>3. \A k \in 1 .. pl : (IF p.mangle_case /\ k \in S THEN -k ELSE k) \in Int
      OBVIOUS
<1> QED BY <1>1, <1>2, <1>3

\* The request with its space, or without one.
LEMMA SpacedIs ==
    ASSUME Ctx, seg.http.header_len > 0, NEW s, s = spaced(mangled)
    PROVE  \E P, G : Carries(s, P, G, "http-mangle") /\ seg.http.value_off <= P
<1> DEFINE at == seg.http.header_off + seg.http.header_len + 1
           off == seg.http.value_off
           t == mangled
           h == "http-mangle"
<1>1. t \in Seq(Int) /\ Len(t) = pl /\ \A n \in 1 .. pl : t[n] = n \/ t[n] = -n
      BY MangledIs
<1>2. at \in Nat /\ off \in Nat /\ 1 <= at /\ at <= off /\ off < pl /\ pl \in Nat
  <2> DEFINE a == seg.http.header_off
             b == seg.http.header_len
  <2>1. a \in Nat /\ b \in Nat /\ off \in Nat /\ a + b < off /\ off < pl /\ at = a + b + 1
        BY SegmentInfo DEF HttpInfo, Located
  <2> HIDE DEF a, b, off, at
  <2> QED BY <2>1, RoomIs
<1>3. s = IF p.extra_space /\ off <= at
          THEN SubSeq(t, 1, at) \o <<Inserted>> \o SubSeq(t, at + 1, Len(t)) ELSE t
      BY DEF spaced
<1> HIDE DEF t, at, off
<1>4. Skipped(h) = 1
      BY DEF Skipped
<1>5. CASE ~(p.extra_space /\ off <= at)
  <2>1. s = t
        BY <1>3, <1>5
  <2>2. ASSUME NEW n \in 1 .. pl PROVE Byte(n, s[n], pl, 0, h)
    <3>1. n <= pl /\ ~(pl < n) /\ ~(pl + 0 < n)
          BY <1>2
    <3> QED BY <1>1, <2>1, <3>1 DEF Byte
  <2>3. pl \in 1 .. pl /\ pl + 0 = pl /\ off <= pl /\ Longer(0, h)
        BY <1>2 DEF Longer
  <2>4. Carries(s, pl, 0, h)
        BY <1>1, <1>2, <2>1, <2>2, <2>3 DEF Carries
  <2> QED BY <2>3, <2>4 DEF off
<1>6. CASE p.extra_space /\ off <= at
  <2> DEFINE a == SubSeq(t, 1, at)
             i1 == <<Inserted>>
             b == SubSeq(t, at + 1, pl)
             q == a \o i1
  <2>1. a \in Seq(Int) /\ Len(a) = at /\ \A n \in 1 .. at : a[n] = t[n]
        BY <1>1, <1>2
  <2>2. b \in Seq(Int) /\ Len(b) = pl - at /\ \A n \in 1 .. pl - at : b[n] = t[at + n]
    <3> DEFINE k == at + 1
    <3>1. k \in Nat /\ 1 <= k /\ k <= pl /\ pl - k + 1 = pl - at
          BY <1>2
    <3> HIDE DEF k
    <3>2. SubSeq(t, k, pl) \in Seq(Int) /\ Len(SubSeq(t, k, pl)) = pl - k + 1
          /\ \A n \in 1 .. pl - k + 1 : SubSeq(t, k, pl)[n] = t[k + n - 1]
          BY <1>1, <1>2, <3>1
    <3>3. \A n \in 1 .. pl - at : k + n - 1 = at + n
          BY <1>2, <3>1 DEF k
    <3> QED BY <3>1, <3>2, <3>3 DEF k
  <2>3. i1 \in Seq(Int) /\ Len(i1) = 1 /\ i1[1] = Inserted
        BY DEF Inserted
  <2>4. s = q \o b
        BY <1>1, <1>3, <1>6
  <2>5. Joined(q, a, i1)
        BY <2>1, <2>3, JoinedIs
  <2> HIDE DEF a, b, i1, q
  <2>6. q \in Seq(Int) /\ Len(q) = at + 1
        /\ \A n \in 1 .. at + 1 : q[n] = IF n <= at THEN a[n] ELSE i1[n - at]
        BY <2>1, <2>3, <2>5 DEF Joined
  <2>7. Joined(s, q, b)
        BY <2>2, <2>4, <2>6, JoinedIs
  <2>8. s \in Seq(Int) /\ Len(s) = pl + 1
        /\ \A n \in 1 .. pl + 1 : s[n] = IF n <= at + 1 THEN q[n] ELSE b[n - (at + 1)]
    <3>1. (at + 1) + (pl - at) = pl + 1
          BY <1>2
    <3> QED BY <2>2, <2>6, <2>7, <3>1 DEF Joined
  <2>9. ASSUME NEW n \in 1 .. pl + 1 PROVE Byte(n, s[n], at, 1, h)
    <3>1. CASE n <= at
      <4>1. n \in 1 .. at /\ n <= at + 1 /\ n \in 1 .. at + 1 /\ n \in 1 .. pl
            /\ ~(at < n) /\ ~(at + 1 < n)
            BY <1>2, <3>1
      <4>2. s[n] = t[n]
            BY <2>1, <2>6, <2>8, <3>1, <4>1
      <4> QED BY <1>1, <4>1, <4>2 DEF Byte
    <3>2. CASE n = at + 1
      <4>1. ~(n <= at) /\ n <= at + 1 /\ n \in 1 .. at + 1 /\ n - at = 1 /\ ~(at + 1 < n)
            BY <1>2, <3>2
      <4>2. s[n] = Inserted
            BY <2>3, <2>6, <2>8, <4>1
      <4> QED BY <4>1, <4>2 DEF Byte
    <3>3. CASE ~(n <= at + 1)
      <4> DEFINE k == n - (at + 1)
      <4>1. k \in 1 .. pl - at /\ at + k = n - 1 /\ n - 1 \in 1 .. pl /\ ~(n <= at)
            BY <1>2, <3>3
      <4>2. s[n] = b[k]
            BY <2>8, <3>3
      <4> HIDE DEF k
      <4>3. s[n] = t[n - 1]
            BY <2>2, <4>1, <4>2
      <4>4. s[n] = n - 1 \/ s[n] = -(n - 1)
            BY <1>1, <4>1, <4>3
      <4> QED BY <3>3, <4>1, <4>4 DEF Byte
    <3> QED BY <1>2, <3>1, <3>2, <3>3
  <2>10. at \in 1 .. pl /\ at < pl /\ off <= at /\ Longer(1, h) /\ pl + 1 <= pl + 1
         /\ Skipped(h) <= at
        BY <1>2, <1>4, <1>6 DEF Longer
  <2>11. Carries(s, at, 1, h)
        BY <2>8, <2>9, <2>10 DEF Carries
  <2> QED BY <2>10, <2>11 DEF off
<1> QED BY <1>5, <1>6
-----------------------------------------------------------------------------
(* The invariant of the queue *)

\* The packet of tls-frag that fits: the first record holds the first bytes of the body.
FragLast(q) ==
    seg.tls.present /\ (Hdr + (pl + 5) <= kMaxMtu =>
        /\ Len(q) \in Nat /\ Len(q) >= 1
        /\ \A n \in 6 .. 5 + Cut(seg.tls.record_end - 5) : q[Len(q)].body[n] = n)

\* Where a split is: where choose_split_offset() says, if there is a hostname.
SplitAt(off) == seg.tls.present /\ seg.tls.sni_len > 0 => off = choose_split_offset(seg.tls)

\* What the queue q is, once the stage h has handled the segment.
Result(h, q) ==
    /\ AllGood(q)
    /\ \E P, G : Replaces(q, P, G, h)
    /\ h \in {"tls-split", "disorder"} => \E off : Halves(q, off) /\ SplitAt(off)
    /\ h = "tls-frag" => FragLast(q)

\* Until then it holds decoys.
QueueInv == IF handled = NoName THEN AllDecoys(out) ELSE Result(handled, out)

LEMMA ContextUnchanged ==
    ASSUME UNCHANGED context
    PROVE  /\ Ctx' <=> Ctx
           /\ pl' = pl /\ Hdr' = Hdr /\ Room' = Room /\ Whole' = Whole
           /\ Payload' = Payload /\ copy' = copy
           /\ Extended' <=> Extended
           /\ TooLong' <=> TooLong
           /\ \A off : SplitAt(off)' <=> SplitAt(off)
           /\ \A m : Cut(m)' = Cut(m)
<1> USE DEF context
<1>1. pl' = pl /\ Hdr' = Hdr
      BY DEF pl, Hdr
<1>2. Room' = Room /\ Whole' = Whole /\ Payload' = Payload
      BY <1>1 DEF Room, Hdr, Whole, Payload
<1>3. copy' = copy
      BY <1>2 DEF copy
<1>4. (Extended' <=> Extended) /\ (TooLong' <=> TooLong)
      BY <1>2 DEF Extended, TooLong
<1>5. Ctx' <=> Ctx
      BY DEF Ctx
<1>6. \A off : SplitAt(off)' <=> SplitAt(off)
      BY DEF SplitAt, choose_split_offset
<1>7. \A m : Cut(m)' = Cut(m)
      BY DEF Cut
<1> QED BY <1>1, <1>2, <1>3, <1>4, <1>5, <1>6, <1>7

LEMMA QueueUnchanged ==
    ASSUME UNCHANGED context
    PROVE  /\ \A q : AllDecoys(q)' <=> AllDecoys(q)
           /\ \A b, P, G, h : Class(b, P, G, h)' <=> Class(b, P, G, h)
           /\ \A q, P, G, h : Replaces(q, P, G, h)' <=> Replaces(q, P, G, h)
           /\ \A q, off : Halves(q, off)' <=> Halves(q, off)
           /\ \A h, q : Result(h, q)' <=> Result(h, q)
<1>1. /\ pl' = pl /\ Hdr' = Hdr /\ Room' = Room /\ Payload' = Payload
      /\ Extended' <=> Extended
      /\ TooLong' <=> TooLong
      BY ContextUnchanged
<1>2. seg' = seg /\ view' = view
      BY DEF context
<1>3. \A b : Kin(b)' <=> Kin(b)
      BY <1>2 DEF Kin
<1>4. \A b : Good(b)' <=> Good(b)
      BY <1>3 DEF Good
<1>5. \A b : (Rejected(b)' <=> Rejected(b)) /\ (Decoy(b)' <=> Decoy(b))
      BY <1>1, <1>4 DEF Rejected, Decoy
<1>6. Sum' = Sum
      BY <1>1 DEF Sum
<1>7. \A a, off : (Front(a, off)' <=> Front(a, off)) /\ (Back(a, off)' <=> Back(a, off))
      BY <1>1, <1>4, <1>6 DEF Front, Back, FrontHalf, BackHalf
<1>8. \A q, off : Halves(q, off)' <=> Halves(q, off)
      BY <1>1, <1>5, <1>7 DEF Halves
<1>9. \A b, P, G, h : Class(b, P, G, h)' <=> Class(b, P, G, h)
      BY <1>1 DEF Class
<1>10. \A b, h : Late(b, h)' <=> Late(b, h)
      BY <1>1 DEF Late
<1>15. \A h : CutBy(h)' = CutBy(h)
      BY <1>1 DEF CutBy
<1>11. \A q, P, G, h : Replaces(q, P, G, h)' <=> Replaces(q, P, G, h)
      BY <1>1, <1>9, <1>10, <1>15 DEF Replaces
<1>12. \A q : (AllGood(q)' <=> AllGood(q)) /\ (AllDecoys(q)' <=> AllDecoys(q))
      BY <1>4, <1>5 DEF AllGood, AllDecoys
<1>13. \A q : FragLast(q)' <=> FragLast(q)
      BY <1>1, <1>2, ContextUnchanged DEF FragLast
<1>14. \A h, q : Result(h, q)' <=> Result(h, q)
      BY <1>8, <1>11, <1>12, <1>13, ContextUnchanged DEF Result
<1> QED BY <1>8, <1>9, <1>11, <1>12, <1>14

\* Decoys in front of what handles the segment.
LEMMA Added ==
    ASSUME NEW d, AllDecoys(d), NEW r, NEW h, Result(h, r), h # "tls-frag"
    PROVE  Result(h, d \o r)
<1>1. AllRejected(d) /\ AllGood(d) /\ AllGood(r)
      BY AllKinds DEF Result
<1>2. AllGood(d \o r)
      BY <1>1, AllConcat
<1>3. PICK P, G : Replaces(r, P, G, h)
      BY DEF Result
<1>4. Replaces(d \o r, P, G, h)
      BY <1>1, <1>3, Prepends
<1>5. ASSUME h \in {"tls-split", "disorder"} PROVE \E off : Halves(d \o r, off) /\ SplitAt(off)
  <2>1. PICK off : Halves(r, off) /\ SplitAt(off)
        BY <1>5 DEF Result
  <2>2. Halves(d \o r, off)
        BY <1>1, <2>1, HalvesPrepend DEF AllGood
  <2> QED BY <2>1, <2>2
<1> QED BY <1>2, <1>4, <1>5 DEF Result

LEMMA AppendIs ==
    ASSUME NEW d, AllGood(d), NEW b, AllGood(<<b>>)
    PROVE  Append(d, b) = d \o <<b>>
<1>1. d \in Seq(Builder)
      BY DEF AllGood
<1>2. b \in Builder
  <2> DEFINE r == <<b>>
  <2>1. r \in Seq(Builder) /\ r[1] = b /\ 1 \in DOMAIN r
        BY DEF AllGood
  <2> HIDE DEF r
  <2> QED BY <2>1
<1> QED BY <1>1, <1>2

LEMMA FragAdded ==
    ASSUME NEW d, AllGood(d), NEW b, AllGood(<<b>>), FragLast(<<b>>)
    PROVE  FragLast(d \o <<b>>)
<1>1. d \in Seq(Builder) /\ <<b>> \in Seq(Builder) /\ Len(<<b>>) = 1 /\ <<b>>[1] = b
      BY DEF AllGood
<1> DEFINE q == d \o <<b>>
           m == Len(d) + 1
<1>2. m \in Nat /\ m >= 1
      BY <1>1
<1>3. Len(q) = m /\ q[m] = b
  <2>1. b \in Builder
    <3> DEFINE r == <<b>>
    <3>1. r \in Seq(Builder) /\ r[1] = b /\ 1 \in DOMAIN r
          BY <1>1
    <3> HIDE DEF r
    <3> QED BY <3>1
  <2>2. q = Append(d, b)
        BY <1>1, <2>1
  <2>3. Len(Append(d, b)) = Len(d) + 1 /\ Append(d, b)[Len(d) + 1] = b
        BY <1>1, <2>1
  <2> QED BY <2>2, <2>3
<1> HIDE DEF q, m
<1>4. FragLast(q)
  <2> DEFINE c == Cut(seg.tls.record_end - 5)
             Full == Hdr + (pl + 5) <= kMaxMtu
  <2>1. seg.tls.present /\ (Full => \A n \in 6 .. 5 + c : b.body[n] = n)
        BY <1>1 DEF FragLast
  <2> HIDE DEF c, Full
  <2>2. Full => Len(q) \in Nat /\ Len(q) >= 1 /\ \A n \in 6 .. 5 + c : q[Len(q)].body[n] = n
        BY <1>2, <1>3, <2>1
  <2> QED BY <2>1, <2>2 DEF FragLast, c, Full
<1> QED BY <1>4 DEF q

LEMMA HandlesIs ==
    ASSUME Ctx, QueueInv, handled = NoName, pipeline[i] # NoName,
           NEW d, AllDecoys(d), NEW r, Handles(d \o r), Result(pipeline[i], out \o (d \o r))
    PROVE  QueueInv'
<1>1. out' = out \o (d \o r) /\ handled' = pipeline[i] /\ UNCHANGED context
      BY DEF Handles
<1>2. Result(handled', out')
      BY <1>1
<1>3. Result(handled, out)'
      BY <1>1, <1>2, QueueUnchanged
<1>4. (handled # NoName)'
      BY <1>1 DEF NoName
<1> QED BY <1>3, <1>4 DEF QueueInv, NoName

LEMMA DeclinesIs ==
    ASSUME Ctx, QueueInv, handled = NoName, NEW d, AllDecoys(d), Declines(d)
    PROVE  QueueInv'
<1>1. out' = out \o d /\ handled' = handled /\ UNCHANGED context
      BY DEF Declines
<1>2. AllDecoys(out) /\ AllDecoys(out \o d)
      BY AllConcat DEF QueueInv
<1>3. AllDecoys(out)'
      BY <1>1, <1>2, QueueUnchanged
<1> QED BY <1>1, <1>3 DEF QueueInv, NoName

\* A stage other than tls-frag that handles the segment, with d in front.
LEMMA StageIs ==
    ASSUME Ctx, QueueInv, handled = NoName, pipeline[i] # NoName, pipeline[i] # "tls-frag",
           NEW d, AllDecoys(d), NEW r, Result(pipeline[i], r), Handles(d \o r)
    PROVE  QueueInv'
<1>1. AllDecoys(out)
      BY DEF QueueInv
<1>2. Result(pipeline[i], d \o r)
      BY Added
<1>3. Result(pipeline[i], out \o (d \o r))
      BY <1>1, <1>2, Added
<1> QED BY <1>3, HandlesIs
-----------------------------------------------------------------------------
(* Each stage *)

LEMMA SkipStep ==
    ASSUME Ctx, QueueInv, Skip
    PROVE  QueueInv'
<1>1. handled = NoName /\ Declines(<<>>)
      BY DEF Skip, Stage, Running
<1> QED BY <1>1, FakesIs, DeclinesIs

LEMMA HalvesResult ==
    ASSUME Ctx, NEW q, q \in Seq(Builder), NEW off, Halves(q, off), SplitAt(off),
           NEW h \in {"tls-split", "disorder"}
    PROVE  Result(h, q)
<1>1. Replaces(q, pl, 0, h) /\ AllGood(q)
      BY HalvesReplace
<1> QED BY <1>1 DEF Result

LEMMA TlsSplitStep ==
    ASSUME Ctx, QueueInv, TlsSplit
    PROVE  QueueInv'
<1> DEFINE off == choose_split_offset(seg.tls)
           halves == split_payload(seg.ip, view, Payload, off)
           one == IF p.zero_window THEN recompute(set_tcp_window(halves[1])) ELSE halves[1]
<1>1. /\ handled = NoName /\ pipeline[i] = "tls-split" /\ seg.tls.present
      /\ \/ Declines(<<>>)
         \/ Declines(decoys)
         \/ off \in 1 .. pl - 1 /\ Handles(decoys \o <<one, halves[2]>>)
      BY DEF TlsSplit, Stage, Running
<1>2. AllDecoys(decoys) /\ AllDecoys(<<>>)
      BY FakesIs
<1>3. CASE Declines(<<>>)
      BY <1>1, <1>2, <1>3, DeclinesIs
<1>4. CASE Declines(decoys)
      BY <1>1, <1>2, <1>4, DeclinesIs
<1>5. CASE off \in 1 .. pl - 1 /\ Handles(decoys \o <<one, halves[2]>>)
  <2>1. Front(halves[1], off) /\ Back(halves[2], off)
        BY <1>5, HalvesAre
  <2>2. Front(one, off)
        BY <2>1, WindowIs
  <2> DEFINE b == halves[2]
             r == <<one, b>>
  <2> HIDE DEF off
  <2>3. r \in Seq(Builder) /\ Halves(r, off)
    <3> HIDE DEF one, b
    <3>1. Front(one, off) /\ Back(b, off)
          BY <2>1, <2>2 DEF b
    <3> QED BY <1>5, <3>1, PairHalves
  <2>4. SplitAt(off)
        BY DEF SplitAt, off
  <2> HIDE DEF r
  <2>5. Result("tls-split", r)
        BY <2>3, <2>4, HalvesResult
  <2>6. /\ pipeline[i] # NoName /\ pipeline[i] # "tls-frag" /\ Result(pipeline[i], r)
        /\ Handles(decoys \o r)
        BY <1>1, <1>5, <2>5 DEF NoName, r
  <2> QED BY <1>1, <1>2, <2>6, StageIs
<1> QED BY <1>1, <1>3, <1>4, <1>5

LEMMA DisorderStep ==
    ASSUME Ctx, QueueInv, Disorder
    PROVE  QueueInv'
<1> DEFINE off == IF seg.tls.present /\ seg.tls.sni_len > 0
                  THEN choose_split_offset(seg.tls) ELSE pl \div 2
           halves == split_payload(seg.ip, view, Payload, off)
<1>1. /\ handled = NoName /\ pipeline[i] = "disorder"
      /\ \/ Declines(<<>>)
         \/ off \in 1 .. pl - 1 /\ Handles(one_decoy \o backwards(halves))
      BY DEF Disorder, Stage, Running
<1>2. AllDecoys(one_decoy) /\ AllDecoys(<<>>)
      BY FakesIs
<1>3. CASE Declines(<<>>)
      BY <1>1, <1>2, <1>3, DeclinesIs
<1>5. CASE off \in 1 .. pl - 1 /\ Handles(one_decoy \o backwards(halves))
  <2>4. SplitAt(off)
        BY DEF SplitAt
  <2> HIDE DEF off
  <2> DEFINE a == halves[1]
             b == halves[2]
             r == <<b, a>>
  <2>1. Front(a, off) /\ Back(b, off)
        BY <1>5, HalvesAre
  <2>2. backwards(halves) = r
        BY DEF backwards
  <2> HIDE DEF a, b
  <2>3. r \in Seq(Builder) /\ Halves(r, off)
        BY <1>5, <2>1, PairHalves
  <2> HIDE DEF r
  <2>5. Result("disorder", r)
        BY <2>3, <2>4, HalvesResult
  <2>6. /\ pipeline[i] # NoName /\ pipeline[i] # "tls-frag" /\ Result(pipeline[i], r)
        /\ Handles(one_decoy \o r)
        BY <1>1, <1>5, <2>2, <2>5 DEF NoName
  <2> QED BY <1>1, <1>2, <2>6, StageIs
<1> QED BY <1>1, <1>3, <1>5

LEMMA PlainResult ==
    ASSUME NEW q, AllGood(q), NEW h \in Name \ {"tls-split", "disorder", "tls-frag"},
           \E P, G : Replaces(q, P, G, h)
    PROVE  Result(h, q)
BY DEF Result

LEMMA FakeTtlStep ==
    ASSUME Ctx, QueueInv, FakeTtl
    PROVE  QueueInv'
<1>1. /\ handled = NoName /\ pipeline[i] = "fake-ttl"
      /\ Declines(<<>>) \/ Handles(Append(decoys, real))
      BY DEF FakeTtl, Stage, Running
<1>2. AllDecoys(decoys) /\ AllDecoys(<<>>) /\ AllGood(decoys)
      BY FakesIs, AllKinds
<1>3. CASE Declines(<<>>)
      BY <1>1, <1>2, <1>3, DeclinesIs
<1>4. CASE Handles(Append(decoys, real))
  <2> DEFINE r == <<real>>
  <2>1. Replaces(r, pl, 0, "fake-ttl") /\ AllGood(r)
        BY RealIs, RealReplaces DEF NoName
  <2>2. Append(decoys, real) = decoys \o r
        BY <1>2, <2>1, AppendIs
  <2> HIDE DEF r
  <2>3. Result("fake-ttl", r)
        BY <2>1, PlainResult DEF Name
  <2>4. /\ pipeline[i] # NoName /\ pipeline[i] # "tls-frag" /\ Result(pipeline[i], r)
        /\ Handles(decoys \o r)
        BY <1>1, <1>4, <2>2, <2>3 DEF NoName
  <2> QED BY <1>1, <1>2, <2>4, StageIs
<1> QED BY <1>1, <1>3, <1>4

LEMMA ZeroWindowStep ==
    ASSUME Ctx, QueueInv, ZeroWindow
    PROVE  QueueInv'
<1> DEFINE b == recompute(set_tcp_window(copy))
           r == <<b>>
<1>1. /\ handled = NoName /\ pipeline[i] = "zero-window" /\ Handles(Append(one_decoy, b))
      BY DEF ZeroWindow, Stage, Running
<1>2. AllDecoys(one_decoy) /\ AllGood(one_decoy)
      BY FakesIs, AllKinds
<1> HIDE DEF b
<1>3. Replaces(r, pl, 0, "zero-window") /\ AllGood(r)
      BY RealIs, RealReplaces DEF NoName, b
<1>4. Append(one_decoy, b) = one_decoy \o r
      BY <1>2, <1>3, AppendIs
<1> HIDE DEF r
<1>5. Result("zero-window", r)
      BY <1>3, PlainResult DEF Name
<1>6. /\ pipeline[i] # NoName /\ pipeline[i] # "tls-frag" /\ Result(pipeline[i], r)
      /\ Handles(one_decoy \o r)
      BY <1>1, <1>4, <1>5 DEF NoName
<1> QED BY <1>1, <1>2, <1>6, StageIs

\* A stage that puts a pair into the queue.
LEMMA PairStep ==
    ASSUME Ctx, QueueInv, handled = NoName, pipeline[i] \in {"oob", "md5-opt", "wrong-chksum"},
           NEW r, AllGood(r), Replaces(r, pl, 0, pipeline[i]), Handles(r)
    PROVE  QueueInv'
<1>1. /\ pipeline[i] # NoName /\ pipeline[i] # "tls-frag"
      /\ pipeline[i] \in Name \ {"tls-split", "disorder", "tls-frag"}
      BY DEF NoName, Name
<1>2. Result(pipeline[i], r)
      BY <1>1, PlainResult
<1>3. AllDecoys(<<>>)
      BY FakesIs
<1>4. <<>> \o r = r
  <2>1. r \in Seq(Builder)
        BY DEF AllGood
  <2> QED BY <2>1
<1>5. Handles(<<>> \o r)
      BY <1>4
<1> QED BY <1>1, <1>2, <1>3, <1>5, StageIs

LEMMA OobStep ==
    ASSUME Ctx, QueueInv, Oob
    PROVE  QueueInv'
<1> DEFINE a == recompute(set_tcp_flags(replace_payload(copy, Random(1))))
           r == <<a, real>>
<1>1. handled = NoName /\ pipeline[i] = "oob" /\ Handles(r)
      BY DEF Oob, Stage, Running
<1>2. Replaces(r, pl, 0, "oob") /\ AllGood(r)
      BY OobIs
<1> HIDE DEF r
<1> QED BY <1>1, <1>2, PairStep

LEMMA Md5Step ==
    ASSUME Ctx, QueueInv, Md5FakeOption
    PROVE  QueueInv'
<1> DEFINE a == recompute(append_tcp_option(replace_payload(set_ttl(copy), Random(16)), 16))
           r == <<a, real>>
<1>1. handled = NoName /\ pipeline[i] = "md5-opt" /\ Handles(r)
      BY DEF Md5FakeOption, Stage, Running
<1>2. Replaces(r, pl, 0, "md5-opt") /\ AllGood(r)
      BY Md5Is
<1> HIDE DEF r
<1> QED BY <1>1, <1>2, PairStep

LEMMA WrongStep ==
    ASSUME Ctx, QueueInv, WrongChecksum
    PROVE  QueueInv'
<1> DEFINE a == [build_fake EXCEPT !.checksum = "bad"]
           r == <<a, real>>
<1>1. handled = NoName /\ pipeline[i] = "wrong-chksum" /\ Handles(r)
      BY DEF WrongChecksum, Stage, Running
<1>2. Replaces(r, pl, 0, "wrong-chksum") /\ AllGood(r)
      BY WrongIs
<1> HIDE DEF r
<1> QED BY <1>1, <1>2, PairStep

LEMMA TlsRecordFragStep ==
    ASSUME Ctx, QueueInv, TlsRecordFrag
    PROVE  QueueInv'
<1> DEFINE e == seg.tls.record_end
           w == rebuilt(SubSeq(Payload, 6, e), SubSeq(Payload, e + 1, pl))
           b == recompute(replace_payload(copy, w))
           r == <<b>>
<1>1. /\ handled = NoName /\ pipeline[i] = "tls-frag" /\ seg.tls.present
      /\ \/ Declines(<<>>)
         \/ e >= 9 /\ e <= pl /\ Handles(Append(decoys, b))
      BY DEF TlsRecordFrag, Stage, Running
<1>2. AllDecoys(decoys) /\ AllDecoys(<<>>) /\ AllGood(decoys)
      BY FakesIs, AllKinds
<1>3. CASE Declines(<<>>)
      BY <1>1, <1>2, <1>3, DeclinesIs
<1>4. CASE e >= 9 /\ e <= pl /\ Handles(Append(decoys, b))
  <2>1. e \in 9 .. pl
    <3>1. e \in Nat
          BY SegmentInfo DEF TlsInfo
    <3> QED BY <1>4, <3>1, RoomIs
  <2> DEFINE c == Cut(e - 5)
  <2>2. /\ c \in 1 .. e - 6 /\ w \in Seq(Int) /\ Len(w) = pl + 5
        /\ \A n \in 1 .. pl + 5 :
             w[n] = IF n <= 5 THEN Inserted ELSE IF n <= 5 + c THEN n
                    ELSE IF n <= 10 + c THEN Inserted ELSE n - 5
        BY <2>1, RebuiltIs
  <2>3. Carries(w, 5 + c, 5, "tls-frag")
        BY <2>1, FragCarries
  <2>4. b = recompute(replace_payload(copy, w))
        OBVIOUS
  <2> HIDE DEF w, b, c
  <2>5. Bodied(b, w, 5 + c, "tls-frag")
        BY <2>3, <2>4, BodyCarries
  <2>6. AllGood(r) /\ \E P, G : Replaces(r, P, G, "tls-frag")
    <3>1. "tls-frag" # NoName
          BY DEF NoName
    <3> QED BY <2>3, <2>4, <3>1, OneReplaces
  <2>7. FragLast(r)
    <3>1. ASSUME Hdr + (pl + 5) <= kMaxMtu, NEW n \in 6 .. 5 + c PROVE b.body[n] = n
      <4>1. b.body = w
            BY <2>2, <2>5, <3>1 DEF Bodied
      <4>2. n \in 1 .. pl + 5 /\ ~(n <= 5) /\ n <= 5 + c
        <5>1. pl \in Nat
              BY RoomIs
        <5>2. c \in 1 .. e - 6 /\ e \in 9 .. pl
              BY <2>1, <2>2
        <5> HIDE DEF e
        <5> QED BY <3>1, <5>1, <5>2
      <4> QED BY <2>2, <4>1, <4>2
    <3>2. Len(r) = 1 /\ r[1] = b
          OBVIOUS
    <3> HIDE DEF r
    <3>3. Hdr + (pl + 5) <= kMaxMtu =>
            /\ Len(r) \in Nat /\ Len(r) >= 1
            /\ \A n \in 6 .. 5 + c : r[Len(r)].body[n] = n
          BY <3>1, <3>2
    <3> QED BY <1>1, <3>3 DEF FragLast, c
  <2>8. Append(decoys, b) = decoys \o r
        BY <1>2, <2>6, AppendIs
  <2> DEFINE q == out \o (decoys \o r)
  <2>9. FragLast(q)
    <3>1. FragLast(decoys \o r) /\ AllGood(decoys \o r)
          BY <1>2, <2>6, <2>7, FragAdded, AllConcat
    <3>2. AllGood(out \o decoys) /\ AllDecoys(out)
          BY <1>1, <1>2, AllConcat, AllKinds DEF QueueInv
    <3>3. FragLast((out \o decoys) \o r)
          BY <2>6, <2>7, <3>2, FragAdded
    <3>4. out \in Seq(Builder) /\ decoys \in Seq(Builder) /\ r \in Seq(Builder)
          BY <1>2, <2>6, <3>2 DEF AllGood, AllDecoys
    <3> HIDE DEF r
    <3>5. (out \o decoys) \o r = q
          BY <3>4
    <3> QED BY <3>3, <3>5
  <2> HIDE DEF r
  <2>10. AllDecoys(out \o decoys)
        BY <1>1, <1>2, AllConcat DEF QueueInv
  <2>11. AllGood(q) /\ \E P, G : Replaces(q, P, G, "tls-frag")
    <3>1. AllRejected(decoys) /\ AllRejected(out) /\ AllGood(out)
          BY <1>1, <1>2, AllKinds DEF QueueInv
    <3>2. PICK P, G : Replaces(r, P, G, "tls-frag")
          BY <2>6
    <3>3. Replaces(q, P, G, "tls-frag")
          BY <3>1, <3>2, Prepends
    <3>4. AllGood(q)
          BY <1>2, <2>6, <3>1, AllConcat
    <3> QED BY <3>3, <3>4
  <2>12. Result("tls-frag", q)
        BY <2>9, <2>11 DEF Result
  <2>13. /\ pipeline[i] # NoName /\ Result(pipeline[i], out \o (decoys \o r))
         /\ Handles(decoys \o r)
        BY <1>1, <1>4, <2>8, <2>12 DEF NoName
  <2> QED BY <1>1, <1>2, <2>13, HandlesIs
<1> QED BY <1>1, <1>3, <1>4

LEMMA HttpHostMangleStep ==
    ASSUME Ctx, QueueInv, HttpHostMangle
    PROVE  QueueInv'
<1> DEFINE buf == spaced(mangled)
           b   == recompute(replace_payload(copy, buf))
           off == IF p.split_url /\ seg.http.value_off > 1 THEN seg.http.value_off ELSE 0
           halves == split_payload(parsed(b), reset(parsed(b)), b.body, off)
           h == "http-mangle"
<1>1. /\ handled = NoName /\ pipeline[i] = h
      /\ \/ Declines(<<>>)
         \/ /\ seg.http.header_len > 0
            /\ \/ off \in 1 .. payload_size(parsed(b)) - 1 /\ Handles(decoys \o halves)
               \/ Handles(Append(decoys, b))
      BY DEF HttpHostMangle, Stage, Running
<1>2. AllDecoys(decoys) /\ AllDecoys(<<>>) /\ AllGood(decoys)
      BY FakesIs, AllKinds
<1>3. CASE Declines(<<>>)
      BY <1>1, <1>2, <1>3, DeclinesIs
<1>4. h # NoName /\ h # "tls-frag" /\ h \in Name \ {"tls-split", "disorder", "tls-frag"}
      BY DEF NoName, Name
<1>5. ASSUME seg.http.header_len > 0
      PROVE  \E P, G : Carries(buf, P, G, h) /\ seg.http.value_off <= P
      BY <1>5, SpacedIs
<1>6. CASE seg.http.header_len > 0 /\ Handles(Append(decoys, b))
  <2>1. PICK P, G : Carries(buf, P, G, h)
        BY <1>5, <1>6
  <2>2. b = recompute(replace_payload(copy, buf))
        OBVIOUS
  <2> HIDE DEF buf, b
  <2> DEFINE r == <<b>>
  <2>3. AllGood(r) /\ \E Q, g : Replaces(r, Q, g, h)
        BY <1>4, <2>1, <2>2, OneReplaces
  <2>4. Append(decoys, b) = decoys \o r
        BY <1>2, <2>3, AppendIs
  <2> HIDE DEF r
  <2>5. Result(h, r)
        BY <1>4, <2>3, PlainResult
  <2>6. /\ pipeline[i] # NoName /\ pipeline[i] # "tls-frag" /\ Result(pipeline[i], r)
        /\ Handles(decoys \o r)
        BY <1>1, <1>4, <1>6, <2>4, <2>5
  <2> QED BY <1>1, <1>2, <2>6, StageIs
<1>7. CASE /\ seg.http.header_len > 0
           /\ off \in 1 .. payload_size(parsed(b)) - 1 /\ Handles(decoys \o halves)
  <2>1. PICK P, G : Carries(buf, P, G, h) /\ seg.http.value_off <= P
        BY <1>5, <1>7
  <2>2. off <= P
    <3>1. off # 0
          BY <1>7
    <3> QED BY <2>1, <3>1
  <2>3. b = recompute(replace_payload(copy, buf))
        OBVIOUS
  <2> HIDE DEF buf, b, off
  <2>4. AllGood(halves) /\ \E Q, g : Replaces(halves, Q, g, h)
        BY <1>4, <1>7, <2>1, <2>2, <2>3, TwoReplace
  <2> HIDE DEF halves
  <2>5. Result(h, halves)
        BY <1>4, <2>4, PlainResult
  <2>6. pipeline[i] # NoName /\ pipeline[i] # "tls-frag" /\ Result(pipeline[i], halves)
        BY <1>1, <1>4, <2>5
  <2>7. Handles(decoys \o halves)
        BY <1>7
  <2> QED BY <1>1, <1>2, <2>6, <2>7, StageIs
<1> QED BY <1>1, <1>3, <1>6, <1>7

LEMMA RunStep ==
    ASSUME Ctx, QueueInv, run
    PROVE  QueueInv'
BY SkipStep, TlsSplitStep, TlsRecordFragStep, FakeTtlStep, HttpHostMangleStep, DisorderStep,
   OobStep, Md5Step, ZeroWindowStep, WrongStep DEF run
-----------------------------------------------------------------------------
(* What run() may not touch, and the context *)

LEMMA RunFrame ==
    ASSUME run
    PROVE  /\ UNCHANGED <<context, netVars>> /\ Running
           /\ \/ i' = i + 1 /\ handled' = handled
              \/ i' = i /\ handled' = pipeline[i]
<1> USE DEF Declines, Handles, Stage
<1>1. CASE Skip
      BY <1>1 DEF Skip
<1>2. CASE TlsSplit
      BY <1>2 DEF TlsSplit
<1>3. CASE TlsRecordFrag
      BY <1>3 DEF TlsRecordFrag
<1>4. CASE FakeTtl
      BY <1>4 DEF FakeTtl
<1>5. CASE HttpHostMangle
      BY <1>5 DEF HttpHostMangle
<1>6. CASE Disorder
      BY <1>6 DEF Disorder
<1>7. CASE Oob
      BY <1>7 DEF Oob
<1>8. CASE Md5FakeOption
      BY <1>8 DEF Md5FakeOption
<1>9. CASE ZeroWindow
      BY <1>9 DEF ZeroWindow
<1>10. CASE WrongChecksum
      BY <1>10 DEF WrongChecksum
<1> QED BY <1>1, <1>2, <1>3, <1>4, <1>5, <1>6, <1>7, <1>8, <1>9, <1>10 DEF run

LEMMA CtxStep ==
    ASSUME Ctx, [Next]_vars
    PROVE  Ctx' /\ UNCHANGED context
<1>1. UNCHANGED context
  <2>1. CASE run
        BY <2>1, RunFrame
  <2>2. CASE SendHandled \/ SendOriginal \/ Retransmit
        BY <2>2 DEF SendHandled, SendOriginal, Retransmit, Inject
  <2>3. CASE \E k \in wire : Deliver(k) \/ Lose(k)
        BY <2>3 DEF Deliver, Lose
  <2>4. CASE UNCHANGED vars
        BY <2>4 DEF vars
  <2> QED BY <2>1, <2>2, <2>3, <2>4 DEF Next
<1> QED BY <1>1, ContextUnchanged

LEMMA QueueStep ==
    ASSUME Ctx, QueueInv, [Next]_vars
    PROVE  QueueInv'
<1>1. UNCHANGED context
      BY CtxStep
<1>2. CASE run
      BY <1>2, RunStep
<1>3. CASE UNCHANGED <<out, handled>>
      BY <1>1, <1>3, QueueUnchanged DEF QueueInv, NoName
<1>4. [Next]_vars => run \/ UNCHANGED <<out, handled>>
      BY DEF Next, SendHandled, SendOriginal, Retransmit, Inject, Deliver, Lose, vars, runVars
<1> QED BY <1>2, <1>3, <1>4

LEMMA InitCtx == Init => Ctx /\ QueueInv
BY FakesIs DEF Init, Ctx, QueueInv

LEMMA CtxInvariant == Spec => [](Ctx /\ QueueInv)
<1>1. (Ctx /\ QueueInv) /\ [Next]_vars => (Ctx /\ QueueInv)'
      BY CtxStep, QueueStep
<1> QED BY <1>1, InitCtx, PTL DEF Spec
-----------------------------------------------------------------------------
(* The queue: what its packets parse back to, and what they hide *)

LEMMA QueueIsGood ==
    ASSUME QueueInv
    PROVE  AllGood(out)
BY AllKinds DEF QueueInv, Result

\* Whatever is in the queue, its receiver reads the headers and the payload that the
\* strategy meant (packet.cpp:204-291).
THEOREM QueueParsesBack == Spec => []EmittedParsesBack
<1>1. ASSUME Ctx, QueueInv
      PROVE  EmittedParsesBack
  <2>1. ASSUME NEW k \in DOMAIN out
        PROVE  Kin(out[k]) /\ LengthsAgree(out[k])
        BY <1>1, QueueIsGood DEF AllGood, Good
  <2>2. \A k \in DOMAIN out : ParsesBack(out[k])
        BY <1>1, <2>1, KinParsesBack
  <2> QED BY <2>2 DEF EmittedParsesBack, ParsesBack
<1> QED BY <1>1, CtxInvariant, PTL

\* The bytes of the hostname, on both sides of where "midsni" splits.
LEMMA MidSniIs ==
    ASSUME Ctx, seg.tls.present, p.mode = "midsni", seg.tls.sni_len >= 2,
           NEW off, SplitAt(off)
    PROVE  /\ off \in Nat /\ off \in sni /\ off + 1 \in sni
           /\ seg.tls.sni_off + 1 \in sni /\ seg.tls.sni_off + 2 \in sni
           /\ off = choose_split_offset(seg.tls)
<1> DEFINE o == seg.tls.sni_off
           l == seg.tls.sni_len
<1>1. o \in Nat /\ l \in Nat /\ l >= 2
      BY StrategyAssumption DEF Ctx, Segment, TlsInfo
<1>2. off = o + l \div 2 /\ off = choose_split_offset(seg.tls)
  <2>1. l > 0 /\ ~(l = 0)
        BY <1>1
  <2> QED BY <2>1 DEF SplitAt, choose_split_offset
<1>3. sni = o + 1 .. o + l
      BY DEF sni
<1> HIDE DEF o, l
<1>4. l \div 2 \in 1 .. l - 1
      BY <1>1
<1> DEFINE h == l \div 2
<1>5. h \in 1 .. l - 1 /\ off = o + h
      BY <1>2, <1>4
<1> HIDE DEF h
<1>6. off \in Nat /\ off \in sni /\ off + 1 \in sni /\ o + 1 \in sni /\ o + 2 \in sni
      BY <1>1, <1>3, <1>5
<1> QED BY <1>2, <1>6 DEF o

LEMMA SplitHides ==
    ASSUME Ctx, QueueInv, seg.tls.present, SecondHalfFits,
           handled \in {"tls-split", "disorder"}, p.mode = "midsni", seg.tls.sni_len >= 2,
           NEW k \in DOMAIN out, out[k].ttl = "own" \/ ~TooLong
    PROVE  ~(sni \subseteq {out[k].body[n] : n \in DOMAIN out[k].body})
<1> DEFINE b == out[k]
<1>1. PICK off : Halves(out, off) /\ SplitAt(off)
      BY DEF QueueInv, Result, NoName
<1>2. /\ off \in Nat /\ off \in sni /\ off + 1 \in sni
      /\ seg.tls.sni_off + 1 \in sni /\ seg.tls.sni_off + 2 \in sni
      BY <1>1, MidSniIs
<1>3. off \in 1 .. pl - 1 /\ (Decoy(b) \/ Front(b, off) \/ Back(b, off))
      BY <1>1 DEF Halves
<1>4. pl \in Nat /\ Room \in Nat
      BY RoomIs
<1>5. b \in Builder
      BY QueueIsGood DEF AllGood
<1>6. b.body \in Seq(Int)
      BY <1>5 DEF Builder
<1> HIDE DEF b
<1>7. CASE Decoy(b)
  <2>1. \A n \in DOMAIN b.body : b.body[n] = Garbage
    <3>1. b.ttl = "fake" /\ "fake" # "own"
          BY <1>7 DEF Decoy, Rejected
    <3>2. pl <= Room
          BY <3>1, FitsIs DEF b
    <3> QED BY <1>7, <3>2 DEF Decoy
  <2>2. seg.tls.sni_off + 1 # seg.tls.sni_off + 2
    <3>1. seg.tls.sni_off \in Nat
          BY StrategyAssumption DEF Ctx, Segment, TlsInfo
    <3> QED BY <3>1
  <2> QED BY <1>2, <2>1, <2>2 DEF b
<1>8. CASE Front(b, off)
  <2>1. Len(b.body) = Smaller(off, Room)
        BY <1>8 DEF Front, FrontHalf
  <2>2. Smaller(off, Room) <= off /\ Smaller(off, Room) \in Nat
        BY <1>2, <1>4 DEF Smaller
  <2>3. \A n \in DOMAIN b.body : n \in 1 .. pl /\ n <= off
        BY <1>2, <1>3, <1>4, <1>6, <2>1, <2>2
  <2>4. \A n \in DOMAIN b.body : b.body[n] = Payload[n]
        BY <1>6, <1>8 DEF Front, FrontHalf
  <2>5. \A n \in DOMAIN b.body : b.body[n] # off + 1
    <3>1. ASSUME NEW n \in DOMAIN b.body PROVE b.body[n] # off + 1
      <4>1. b.body[n] = n /\ n \in Int /\ n <= off
            BY <2>3, <2>4, PayloadIs
      <4> QED BY <1>2, <4>1
    <3> QED BY <3>1
  <2> QED BY <1>2, <2>5 DEF b
<1>9. CASE Back(b, off)
  <2>1. pl - off <= Room
    <3>1. off = choose_split_offset(seg.tls)
          BY <1>1, MidSniIs
    <3>2. Whole = Hdr + pl /\ Hdr \in Nat /\ kMaxMtu \in Nat /\ Hdr = kMaxMtu - Room
          BY SegmentIs, RoomIs
    <3>3. Whole - off <= kMaxMtu
          BY <3>1 DEF SecondHalfFits
    <3> HIDE DEF b
    <3> QED BY <1>2, <1>4, <3>2, <3>3
  <2>2. Straight(b) /\ b.seq = off
        BY <1>3, <1>9, <2>1, BackStraight DEF Back, BackHalf
  <2>3. \A n \in DOMAIN b.body : b.body[n] # off
    <3>1. ASSUME NEW n \in DOMAIN b.body PROVE b.body[n] # off
      <4>1. n \in 1 .. Len(b.body) /\ n \in Nat /\ n >= 1 /\ b.body[n] = off + n
            BY <1>6, <2>2 DEF Straight
      <4> QED BY <1>2, <4>1
    <3> QED BY <3>1
  <2> QED BY <1>2, <2>3 DEF b
<1> QED BY <1>3, <1>7, <1>8, <1>9

LEMMA CutHides ==
    ASSUME Ctx, NEW n \in 6 .. 5 + Cut(seg.tls.record_end - 5)
    PROVE  n \notin sni
<1> SUFFICES ASSUME n \in sni PROVE FALSE
    OBVIOUS
<1> DEFINE o == seg.tls.sni_off
           l == seg.tls.sni_len
           e == seg.tls.record_end
           c == Cut(e - 5)
<1>1. o \in Nat /\ l \in Nat /\ e \in Nat /\ (l > 0 => o > 5)
      BY StrategyAssumption DEF Ctx, Segment, TlsInfo, Located
<1>2. n \in o + 1 .. o + l
      BY DEF sni
<1>3. l > 0 /\ o > 5 /\ n > o
      BY <1>1, <1>2
<1>4. n \in 6 .. 5 + c
      OBVIOUS
<1>5. CASE o \in 5 .. e - 1
  <2>1. c = Smaller(Larger(o - 5, 1), e - 6)
    <3>1. (e - 5) - 1 = e - 6
          BY <1>1
    <3> QED BY <1>5, <3>1 DEF Cut
  <2> HIDE DEF o, l, e, c
  <2>2. Larger(o - 5, 1) = o - 5
        BY <1>1, <1>3 DEF Larger
  <2>3. c <= o - 5 /\ c \in Int
        BY <1>1, <1>3, <2>1, <2>2 DEF Smaller
  <2> QED BY <1>1, <1>3, <1>4, <2>3
<1>6. CASE ~(o \in 5 .. e - 1)
  <2>1. c = (e - 5) \div 2
        BY <1>6 DEF Cut
  <2> HIDE DEF o, l, e, c
  <2>2. e <= o
        BY <1>1, <1>3, <1>6
  <2> DEFINE z == e - 5
  <2>3. z \in Int /\ c = z \div 2
        BY <1>1, <2>1
  <2>4. c \in Int /\ (c <= z \/ c <= 0)
    <3> HIDE DEF z
    <3> QED BY <2>3
  <2>5. 5 + c <= e \/ 5 + c <= 5
        BY <1>1, <2>4
  <2> QED BY <1>1, <1>3, <1>4, <2>2, <2>4, <2>5
<1> QED BY <1>5, <1>6

\* "such that the SNI hostname spans the boundary" (tls.hpp:45-47), and the first record
\* of tls-frag has no byte of it (strategy.cpp:147-149).
THEOREM NoPieceNamesTheHost == Spec => []HostnameIsHidden
<1>1. ASSUME Ctx, QueueInv
      PROVE  HostnameIsHidden
  <2>1. ASSUME seg.tls.present, handled = "tls-frag", Whole + 5 <= kMaxMtu,
               NEW n \in 6 .. 5 + Cut(seg.tls.record_end - 5)
        PROVE  out[Len(out)].body[n] \notin sni
    <3>1. FragLast(out)
          BY <1>1, <2>1 DEF QueueInv, Result, NoName
    <3>2. Hdr + (pl + 5) <= kMaxMtu
      <4>1. Whole = Hdr + pl /\ Hdr \in Nat /\ pl \in Nat /\ kMaxMtu \in Nat
            BY <1>1, SegmentIs, RoomIs
      <4> QED BY <2>1, <4>1
    <3>3. out[Len(out)].body[n] = n
          BY <2>1, <3>1, <3>2 DEF FragLast
    <3> QED BY <1>1, <2>1, <3>3, CutHides
  <2> QED BY <1>1, <2>1, SplitHides DEF HostnameIsHidden
<1> QED BY <1>1, CtxInvariant, PTL
-----------------------------------------------------------------------------
(* What the engine injects, and the types *)

\* The client's segments on the wire.
ClientOwn(b, from, n) ==
    /\ b \in Builder /\ accepted(b) /\ b.seq = from /\ Len(b.body) = n
    /\ \A k \in 1 .. n : b.body[k] = from + k

LEMMA ClientSends ==
    ASSUME Ctx
    PROVE  ClientOwn(Original, 0, pl) /\ ClientOwn(Following, pl, nextLen)
<1>1. Kin(copy) /\ copy.seq = 0 /\ copy.ttl = "own" /\ copy.md5 = FALSE
      BY CopyIs
<1>2. copy \in Builder
      BY <1>1 DEF Kin
<1> DEFINE o == Payload
           f == [k \in 1 .. nextLen |-> pl + k]
<1>3. o \in Seq(Int) /\ Len(o) = pl /\ (\A k \in 1 .. pl : o[k] = k) /\ pl \in Nat
      BY PayloadIs, RoomIs
<1>4. nextLen \in Nat
      BY StrategyAssumption, Uint16 DEF Ctx
<1>5. f \in Seq(Int) /\ Len(f) = nextLen /\ \A k \in 1 .. nextLen : f[k] = pl + k
      BY <1>3, <1>4
<1>6. /\ Original = [copy EXCEPT !.body = o, !.checksum = "good"]
      /\ Following = [copy EXCEPT !.seq = pl, !.body = f, !.checksum = "good"]
      BY DEF Original, Following
<1> HIDE DEF o, f
<1>7. /\ Original \in Builder /\ Original.seq = 0 /\ Original.body = o
      /\ Original.ttl = "own" /\ Original.md5 = FALSE /\ Original.checksum = "good"
      BY <1>1, <1>2, <1>3, <1>6 DEF Builder
<1>8. /\ Following \in Builder /\ Following.seq = pl /\ Following.body = f
      /\ Following.ttl = "own" /\ Following.md5 = FALSE /\ Following.checksum = "good"
      BY <1>1, <1>2, <1>3, <1>5, <1>6 DEF Builder
<1>9. \A k \in 1 .. pl : o[k] = 0 + k
      BY <1>3
<1> QED BY <1>3, <1>5, <1>7, <1>8, <1>9 DEF ClientOwn, accepted

Typed == /\ i \in 1 .. Len(pipeline) + 1 /\ handled \in Name \cup {NoName}
         /\ sent \in Seq(Builder) /\ wire \subseteq DOMAIN sent
         /\ losses \in 0 .. MaxLosses

LEMMA QueueIsTyped ==
    ASSUME QueueInv
    PROVE  out \in Seq(Builder) /\ \A k \in DOMAIN out : size(out[k]) <= kMaxMtu
BY QueueIsGood DEF AllGood, Good, Kin

LEMMA Injected ==
    ASSUME Ctx, NEW q, q \in Seq(Builder), Inject(q)
    PROVE  sent' \in Seq(Builder) /\ Len(sent') = Len(q) + 1 /\ wire' = DOMAIN sent'
<1>1. Following \in Builder
      BY ClientSends DEF ClientOwn
<1>2. sent' = Append(q, Following) /\ wire' = 1 .. Len(q) + 1
      BY DEF Inject
<1> QED BY <1>1, <1>2

LEMMA TypedStep ==
    ASSUME Ctx, QueueInv, Typed, [Next]_vars
    PROVE  Typed'
<1>1. pipeline \in Seq(Name) /\ MaxLosses \in Nat
      BY StrategyAssumption DEF Ctx
<1> USE DEF Typed, context, runVars, netVars, vars
<1>2. CASE run
  <2>1. /\ UNCHANGED <<context, netVars>> /\ i <= Len(pipeline)
        /\ \/ i' = i + 1 /\ handled' = handled
           \/ i' = i /\ handled' = pipeline[i]
        BY <1>2, RunFrame DEF Running
  <2>2. i \in 1 .. Len(pipeline) /\ i + 1 \in 1 .. Len(pipeline) + 1
    <3> DEFINE m == Len(pipeline)
    <3>1. m \in Nat /\ i \in 1 .. m + 1 /\ i <= m
          BY <1>1, <2>1
    <3> HIDE DEF m
    <3>2. i \in 1 .. m /\ i + 1 \in 1 .. m + 1
          BY <3>1
    <3> QED BY <3>2 DEF m
  <2>3. pipeline[i] \in Name
        BY <1>1, <2>2
  <2> QED BY <2>1, <2>2, <2>3
<1>3. CASE SendHandled \/ SendOriginal \/ Retransmit
  <2>1. PICK q : Inject(q) /\ (q = out \/ q = <<Original>>)
        BY <1>3 DEF SendHandled, SendOriginal, Retransmit, Repeated
  <2>2. q \in Seq(Builder)
    <3>1. Original \in Builder
          BY ClientSends DEF ClientOwn
    <3> DEFINE o == Original
               r == <<o>>
    <3>2. o \in Builder
          BY <3>1
    <3> HIDE DEF o
    <3>3. r \in Seq(Builder)
          BY <3>2
    <3>4. q = out \/ q = r
          BY <2>1 DEF o
    <3>5. out \in Seq(Builder)
          BY QueueIsTyped
    <3> HIDE DEF r
    <3> QED BY <3>3, <3>4, <3>5
  <2> QED BY <2>1, <2>2, Injected DEF Inject
<1>4. CASE \E k \in wire : Deliver(k) \/ Lose(k)
      BY <1>1, <1>4 DEF Deliver, Lose
<1>5. CASE UNCHANGED vars
      BY <1>5
<1> QED BY <1>2, <1>3, <1>4, <1>5 DEF Next

LEMMA TypedInvariant == Spec => []Typed
<1>1. Init => Typed
  <2> SUFFICES ASSUME Init PROVE Typed
      OBVIOUS
  <2>1. pipeline \in Seq(Name) /\ MaxLosses \in Nat
        BY StrategyAssumption DEF Init
  <2>2. 1 \in 1 .. Len(pipeline) + 1
        BY <2>1
  <2> QED BY <2>1, <2>2 DEF Init, Typed
<1>2. (Ctx /\ QueueInv /\ Typed) /\ [Next]_vars => Typed'
      BY TypedStep
<1> QED BY <1>1, <1>2, CtxInvariant, PTL DEF Spec

\* No packet outgrows the OutPacket buffer (strategy.hpp:28-30), whatever a stage adds.
THEOREM TypeCorrect == Spec => []TypeOK
<1>1. Ctx /\ QueueInv /\ Typed => TypeOK
      BY QueueIsTyped DEF Ctx, Typed, TypeOK
<1> QED BY <1>1, CtxInvariant, TypedInvariant, PTL
-----------------------------------------------------------------------------
(* The server's stream *)

\* What the engine injects first, and what says that the client's own repetition is
\* under way.
Replacement == IF handled = NoName THEN <<Original>> ELSE out
Resent      == sent = Append(<<Original>>, Following) /\ Repeated = <<Original>>

NextSpan == pl + 1 .. pl + nextLen

\* The stream g of the server, with P, G and h as in Byte.  Fresh: nothing of the segment
\* behind its first P bytes.
Fresh(g, P) == \A n \in DOMAIN g : ~(P < n /\ n <= pl)
\* Nothing of what was made longer: every byte behind the first P is the client's.
Untouched(g, P, G, h) ==
    /\ \A n \in DOMAIN g : \/ n <= P /\ Byte(n, g[n], P, G, h)
                           \/ P < n /\ n <= pl + nextLen /\ g[n] = n
    /\ NextSpan \subseteq DOMAIN g \/ \A n \in DOMAIN g : n <= pl
\* What was made longer came before the next segment, and took its first G bytes' place,
Lengthened(g, P, G, h) ==
    /\ P + 1 .. pl + G \subseteq DOMAIN g
    /\ \A n \in DOMAIN g : \/ n <= pl + G /\ Byte(n, g[n], P, G, h)
                           \/ pl + G < n /\ n <= pl + nextLen /\ g[n] = n
\* or after it, and lost as many of its own.
Overtaken(g, P, G, h) ==
    /\ P + 1 .. pl + G \subseteq DOMAIN g /\ NextSpan \subseteq DOMAIN g
    /\ \A n \in DOMAIN g : \/ n <= pl + G /\ n \notin NextSpan /\ Byte(n, g[n], P, G, h)
                           \/ n \in NextSpan /\ g[n] = n

\* The stream f after the arrival of b.
Merged(f, g, b) ==
    /\ DOMAIN f = DOMAIN g \cup Covers(b)
    /\ \A n \in DOMAIN g : f[n] = g[n]
    /\ \A n \in Covers(b) : n \notin DOMAIN g => f[n] = ByteAt(b, n)

\* P and G as in Replaces, where P is all of the segment if nothing was added.
Sizes(P, G) == /\ P \in Nat /\ G \in Nat /\ P >= 1 /\ P <= pl
               /\ G = 0 => P = pl
               /\ G # 0 => P < pl

LEMMA OwnBytes ==
    ASSUME NEW b, NEW from \in Nat, NEW m \in Nat, ClientOwn(b, from, m)
    PROVE  /\ Covers(b) = from + 1 .. from + m
           /\ \A n \in Covers(b) : n \in Nat /\ ByteAt(b, n) = n
<1>1. b.seq = from /\ Len(b.body) = m /\ \A k \in 1 .. m : b.body[k] = from + k
      BY DEF ClientOwn
<1>2. Covers(b) = from + 1 .. from + m
      BY <1>1 DEF Covers
<1>3. ASSUME NEW n \in from + 1 .. from + m PROVE n \in Nat /\ b.body[n - from] = n
  <2>1. n - from \in 1 .. m /\ from + (n - from) = n /\ n \in Nat
        OBVIOUS
  <2> QED BY <1>1, <2>1
<1> QED BY <1>1, <1>2, <1>3 DEF ByteAt

\* Bytes in front of the added ones change nothing else.
LEMMA TakesBelow ==
    ASSUME Ctx, NEW P, NEW G, Sizes(P, G), NEW h, NEW f, NEW g, NEW b, Merged(f, g, b),
           \A n \in DOMAIN g : n \in Nat,
           \A n \in Covers(b) : n \in Nat,
           \A n \in Covers(b) : n \notin DOMAIN g => n <= P /\ Byte(n, ByteAt(b, n), P, G, h)
    PROVE  /\ Untouched(g, P, G, h) => Untouched(f, P, G, h)
           /\ Fresh(g, P) => Fresh(f, P)
           /\ Lengthened(g, P, G, h) => Lengthened(f, P, G, h)
           /\ Overtaken(g, P, G, h) => Overtaken(f, P, G, h)
<1>1. P \in Nat /\ G \in Nat /\ P <= pl /\ pl \in Nat
      BY RoomIs DEF Sizes
<1>2. ASSUME NEW n \in DOMAIN f
      PROVE  \/ n \in DOMAIN g /\ f[n] = g[n]
             \/ n <= P /\ Byte(n, f[n], P, G, h) /\ n \in Nat
      BY DEF Merged
<1>3. DOMAIN g \subseteq DOMAIN f
      BY DEF Merged
<1>4. ASSUME NEW n \in Nat, n <= P
      PROVE  n <= pl /\ n <= pl + G /\ n \notin NextSpan /\ ~(P < n /\ n <= pl)
      BY <1>1, <1>4 DEF NextSpan
<1>5. ASSUME Untouched(g, P, G, h) PROVE Untouched(f, P, G, h)
      BY <1>2, <1>3, <1>4, <1>5 DEF Untouched
<1>6. ASSUME Fresh(g, P) PROVE Fresh(f, P)
      BY <1>2, <1>4, <1>6 DEF Fresh
<1>7. ASSUME Lengthened(g, P, G, h) PROVE Lengthened(f, P, G, h)
      BY <1>2, <1>3, <1>4, <1>7 DEF Lengthened
<1>8. ASSUME Overtaken(g, P, G, h) PROVE Overtaken(f, P, G, h)
      BY <1>2, <1>3, <1>4, <1>8 DEF Overtaken
<1> QED BY <1>5, <1>6, <1>7, <1>8

\* The next segment.
LEMMA TakesNext ==
    ASSUME Ctx, NEW P, NEW G, Sizes(P, G), NEW h, NEW f, NEW g, Merged(f, g, Following),
           \A n \in DOMAIN g : n \in Nat
    PROVE  /\ Untouched(g, P, G, h) => Untouched(f, P, G, h)
           /\ Fresh(g, P) => Fresh(f, P)
           /\ Lengthened(g, P, G, h) => Lengthened(f, P, G, h)
           /\ Overtaken(g, P, G, h) => Overtaken(f, P, G, h)
<1>1. P \in Nat /\ G \in Nat /\ P <= pl /\ pl \in Nat /\ nextLen \in Nat
      BY RoomIs, StrategyAssumption, Uint16 DEF Sizes, Ctx
<1>2. Covers(Following) = NextSpan /\ \A n \in NextSpan : ByteAt(Following, n) = n
      BY <1>1, ClientSends, OwnBytes DEF NextSpan
<1>3. ASSUME NEW n \in DOMAIN f
      PROVE  \/ n \in DOMAIN g /\ f[n] = g[n]
             \/ n \in NextSpan /\ n \notin DOMAIN g /\ f[n] = n
      BY <1>2 DEF Merged
<1>4. DOMAIN f = DOMAIN g \cup NextSpan
      BY <1>2 DEF Merged
<1>5. ASSUME NEW n \in NextSpan
      PROVE  n \in Nat /\ pl < n /\ n <= pl + nextLen /\ P < n
      BY <1>1 DEF NextSpan
<1>6. ASSUME Untouched(g, P, G, h) PROVE Untouched(f, P, G, h)
      BY <1>3, <1>4, <1>5, <1>6 DEF Untouched
<1>7. ASSUME Fresh(g, P) PROVE Fresh(f, P)
  <2>1. ASSUME NEW n \in NextSpan PROVE ~(n <= pl)
        BY <1>1, <1>5
  <2> QED BY <1>3, <1>7, <2>1 DEF Fresh
<1>8. ASSUME Lengthened(g, P, G, h) PROVE Lengthened(f, P, G, h)
  <2>1. ASSUME NEW n \in NextSpan, n \notin DOMAIN g PROVE pl + G < n /\ n <= pl + nextLen
    <3>1. n \notin P + 1 .. pl + G
          BY <1>8, <2>1 DEF Lengthened
    <3> QED BY <1>1, <1>5, <3>1
  <2> QED BY <1>3, <1>4, <1>8, <2>1 DEF Lengthened
<1>9. ASSUME Overtaken(g, P, G, h) PROVE Overtaken(f, P, G, h)
      BY <1>3, <1>4, <1>9 DEF Overtaken
<1> QED BY <1>6, <1>7, <1>8, <1>9

\* The client's own repetition.
LEMMA TakesOriginal ==
    ASSUME Ctx, NEW P, NEW G, Sizes(P, G), NEW h, NEW f, NEW g, Merged(f, g, Original),
           \A n \in DOMAIN g : n \in Nat
    PROVE  /\ Untouched(g, P, G, h) => Untouched(f, P, G, h)
           /\ Lengthened(g, P, G, h) => Lengthened(f, P, G, h)
           /\ Overtaken(g, P, G, h) => Overtaken(f, P, G, h)
<1>1. P \in Nat /\ G \in Nat /\ P <= pl /\ pl \in Nat /\ nextLen \in Nat
      BY RoomIs, StrategyAssumption, Uint16 DEF Sizes, Ctx
<1>2. /\ Covers(Original) = 1 .. pl
      /\ \A n \in Covers(Original) : n \in Nat /\ ByteAt(Original, n) = n
  <2>1. 0 + 1 .. 0 + pl = 1 .. pl /\ 0 \in Nat
        BY <1>1
  <2> QED BY <1>1, <2>1, ClientSends, OwnBytes
<1>3. ASSUME NEW n \in 1 .. pl, n <= P PROVE Byte(n, n, P, G, h)
      BY <1>1, <1>3 DEF Byte
<1>4. ASSUME Untouched(g, P, G, h) PROVE Untouched(f, P, G, h)
  <2>1. ASSUME NEW n \in DOMAIN f
        PROVE  \/ n \in DOMAIN g /\ f[n] = g[n]
               \/ n \in 1 .. pl /\ f[n] = n
        BY <1>2 DEF Merged
  <2>2. ASSUME NEW n \in 1 .. pl
        PROVE  n <= pl /\ n <= pl + nextLen /\ (n <= P \/ P < n)
        BY <1>1
  <2>3. DOMAIN g \subseteq DOMAIN f
        BY DEF Merged
  <2> QED BY <1>3, <1>4, <2>1, <2>2, <2>3 DEF Untouched
<1>5. ASSUME P + 1 .. pl + G \subseteq DOMAIN g
      PROVE  \A n \in Covers(Original) :
                n \notin DOMAIN g => n <= P /\ Byte(n, ByteAt(Original, n), P, G, h)
  <2>1. ASSUME NEW n \in 1 .. pl, n \notin DOMAIN g PROVE n <= P
    <3>1. n \notin P + 1 .. pl + G
          BY <1>5, <2>1
    <3> QED BY <1>1, <3>1
  <2> QED BY <1>2, <1>3, <2>1
<1>6. ASSUME Lengthened(g, P, G, h) PROVE Lengthened(f, P, G, h)
  <2>1. P + 1 .. pl + G \subseteq DOMAIN g
        BY <1>6 DEF Lengthened
  <2>2. \A n \in Covers(Original) :
           n \notin DOMAIN g => n <= P /\ Byte(n, ByteAt(Original, n), P, G, h)
        BY <1>5, <2>1
  <2> QED BY <1>2, <1>6, <2>2, TakesBelow
<1>7. ASSUME Overtaken(g, P, G, h) PROVE Overtaken(f, P, G, h)
  <2>1. P + 1 .. pl + G \subseteq DOMAIN g
        BY <1>7 DEF Overtaken
  <2>2. \A n \in Covers(Original) :
           n \notin DOMAIN g => n <= P /\ Byte(n, ByteAt(Original, n), P, G, h)
        BY <1>5, <2>1
  <2> QED BY <1>2, <1>7, <2>2, TakesBelow
<1> QED BY <1>4, <1>6, <1>7

\* A packet of the handled segment.
LEMMA TakesPiece ==
    ASSUME Ctx, NEW P, NEW G, Sizes(P, G), NEW h, NEW b \in Builder, Class(b, P, G, h),
           NEW f, NEW g, Merged(f, g, b), \A n \in DOMAIN g : n \in Nat
    PROVE  /\ Untouched(g, P, G, h) /\ Fresh(g, P) =>
                \/ Untouched(f, P, G, h) /\ Fresh(f, P)
                \/ /\ G # 0 /\ End(b) = pl + G
                   /\ Lengthened(f, P, G, h) \/ Overtaken(f, P, G, h)
           /\ Lengthened(g, P, G, h) => Lengthened(f, P, G, h)
           /\ Overtaken(g, P, G, h) => Overtaken(f, P, G, h)
<1>1. P \in Nat /\ G \in Nat /\ P <= pl /\ pl \in Nat /\ nextLen \in Nat
      BY RoomIs, StrategyAssumption, Uint16 DEF Sizes, Ctx
<1> DEFINE s == b.seq
           l == Len(b.body)
           C == Covers(b)
<1>2. s \in Nat /\ l \in Nat /\ C = s + 1 .. s + l /\ End(b) = s + l
      BY DEF Builder, Covers, End
<1>3. /\ s + l <= pl + G
      /\ \A n \in C : Byte(n, ByteAt(b, n), P, G, h)
      /\ G = 0 \/ s + l <= P \/ (s <= P /\ s + l = pl + G)
      BY <1>2 DEF Class
<1>4. /\ DOMAIN f = DOMAIN g \cup C
      /\ \A n \in DOMAIN g : f[n] = g[n]
      /\ \A n \in C : n \notin DOMAIN g => f[n] = ByteAt(b, n)
      BY DEF Merged
<1>5. \A n \in Covers(b) : n \in Nat
      BY <1>2
<1>6. G = 0 => P = pl
      BY DEF Sizes
<1> HIDE DEF s, l, C
<1>7. ASSUME s + l <= P
      PROVE  \A n \in C : n <= P /\ Byte(n, ByteAt(b, n), P, G, h)
      BY <1>1, <1>2, <1>3, <1>7
<1>8. CASE s + l <= P
  <2>1. \A n \in Covers(b) : n \notin DOMAIN g => n <= P /\ Byte(n, ByteAt(b, n), P, G, h)
        BY <1>7, <1>8 DEF C
  <2> QED BY <1>5, <2>1, TakesBelow
<1>9. CASE ~(s + l <= P)
  <2>1. G # 0 /\ s <= P /\ s + l = pl + G /\ End(b) = pl + G
        BY <1>1, <1>2, <1>3, <1>6, <1>9
  <2>2. P + 1 .. pl + G \subseteq C
        BY <1>1, <1>2, <2>1
  <2>3. ASSUME P + 1 .. pl + G \subseteq DOMAIN g
        PROVE  \A n \in Covers(b) :
                  n \notin DOMAIN g => n <= P /\ Byte(n, ByteAt(b, n), P, G, h)
    <3>1. ASSUME NEW n \in C, n \notin DOMAIN g PROVE n <= P
      <4>1. n \notin P + 1 .. pl + G
            BY <2>3, <3>1
      <4> QED BY <1>1, <1>2, <2>1, <4>1
    <3> QED BY <1>3, <3>1 DEF C
  <2>4. ASSUME Lengthened(g, P, G, h) PROVE Lengthened(f, P, G, h)
    <3>1. P + 1 .. pl + G \subseteq DOMAIN g
          BY <2>4 DEF Lengthened
    <3>2. \A n \in Covers(b) :
             n \notin DOMAIN g => n <= P /\ Byte(n, ByteAt(b, n), P, G, h)
          BY <2>3, <3>1
    <3> QED BY <1>5, <2>4, <3>2, TakesBelow
  <2>5. ASSUME Overtaken(g, P, G, h) PROVE Overtaken(f, P, G, h)
    <3>1. P + 1 .. pl + G \subseteq DOMAIN g
          BY <2>5 DEF Overtaken
    <3>2. \A n \in Covers(b) :
             n \notin DOMAIN g => n <= P /\ Byte(n, ByteAt(b, n), P, G, h)
          BY <2>3, <3>1
    <3> QED BY <1>5, <2>5, <3>2, TakesBelow
  <2>6. ASSUME NEW n \in C, n \notin DOMAIN g
        PROVE  n <= pl + G /\ Byte(n, f[n], P, G, h)
    <3>1. n <= pl + G
          BY <1>1, <1>2, <2>1
    <3> QED BY <1>3, <1>4, <2>6, <3>1
  <2>7. ASSUME Untouched(g, P, G, h), Fresh(g, P), \A n \in DOMAIN g : n <= pl
        PROVE  Lengthened(f, P, G, h)
    <3>1. ASSUME NEW n \in DOMAIN g PROVE n <= pl + G /\ Byte(n, f[n], P, G, h)
      <4>1. n \in Nat /\ n <= pl /\ ~(P < n)
            BY <2>7 DEF Fresh
      <4>2. Byte(n, g[n], P, G, h)
            BY <2>7, <4>1 DEF Untouched
      <4> QED BY <1>1, <1>4, <4>1, <4>2
    <3> QED BY <1>4, <2>2, <2>6, <3>1 DEF Lengthened
  <2>8. ASSUME Untouched(g, P, G, h), Fresh(g, P), NextSpan \subseteq DOMAIN g
        PROVE  Overtaken(f, P, G, h)
    <3>1. ASSUME NEW n \in DOMAIN g
          PROVE  \/ n <= pl + G /\ n \notin NextSpan /\ Byte(n, f[n], P, G, h)
                 \/ n \in NextSpan /\ f[n] = n
      <4>1. CASE n <= P /\ Byte(n, g[n], P, G, h)
        <5>1. n \in Nat /\ n <= pl + G /\ n \notin NextSpan
              BY <1>1, <4>1 DEF NextSpan
        <5> QED BY <1>4, <4>1, <5>1
      <4>2. CASE P < n /\ n <= pl + nextLen /\ g[n] = n
        <5>1. n \in Nat /\ ~(n <= pl)
              BY <2>8, <4>2 DEF Fresh
        <5>2. n \in NextSpan
              BY <1>1, <4>2, <5>1 DEF NextSpan
        <5> QED BY <1>4, <4>2, <5>2
      <4> QED BY <2>8, <4>1, <4>2 DEF Untouched
    <3> QED BY <1>4, <2>2, <2>6, <2>8, <3>1 DEF Overtaken
  <2> QED BY <2>1, <2>4, <2>5, <2>7, <2>8 DEF Untouched
<1> QED BY <1>8, <1>9
-----------------------------------------------------------------------------
(* The invariant of the network *)

\* The queue has a packet that ends behind the segment.
Grown(G) == G # 0 /\ \E k \in DOMAIN out : accepted(out[k]) /\ End(out[k]) = pl + G

Stream(P, G) ==
    \/ Untouched(got, P, G, handled) /\ (Resent \/ Fresh(got, P))
    \/ Grown(G) /\ (Lengthened(got, P, G, handled) \/ Overtaken(got, P, G, handled))

Sending(P, G) ==
    /\ Replaces(Replacement, P, G, handled) /\ Sizes(P, G)
    /\ Resent \/ sent = Append(Replacement, Following)
    /\ ~SecondHalfRefused => Stream(P, G)

\* The random bytes among the server's, whatever became of the second half.
NotRandom(n, v) == n \in Nat /\ n >= 1 /\ (v = Garbage => handled = "oob" /\ n = 1)
Clean == \A n \in DOMAIN got : NotRandom(n, got[n])
\* Whatever is not under way has arrived, or was lost.
Delivered == losses = 0 =>
    \A k \in DOMAIN sent : k \notin wire /\ accepted(sent[k]) => Covers(sent[k]) \subseteq DOMAIN got
\* A second half that keeps the segment's beginning brings it again.
Begins(n) == n \in DOMAIN got => got[n] = 1
Twice == SecondHalfRefused =>
    Resent \/ \A k \in DOMAIN out : out[k].seq > 0 => Begins(1) /\ Begins(out[k].seq + 1)

NetInv == IF sent = <<>> THEN got = <<>>
          ELSE Clean /\ Delivered /\ Twice /\ \E P, G : Sending(P, G)

LEMMA NetUnchanged ==
    ASSUME UNCHANGED <<context, out, handled>>
    PROVE  /\ Original' = Original /\ Following' = Following /\ Replacement' = Replacement
           /\ Repeated' = Repeated /\ NextSpan' = NextSpan
           /\ SecondHalfRefused' <=> SecondHalfRefused
           /\ \A P, G : Sizes(P, G)' <=> Sizes(P, G)
           /\ \A G : Grown(G)' <=> Grown(G)
           /\ \A g, P : Fresh(g, P)' <=> Fresh(g, P)
           /\ \A g, P, G, h : /\ Untouched(g, P, G, h)' <=> Untouched(g, P, G, h)
                              /\ Lengthened(g, P, G, h)' <=> Lengthened(g, P, G, h)
                              /\ Overtaken(g, P, G, h)' <=> Overtaken(g, P, G, h)
           /\ \A q, P, G, h : Replaces(q, P, G, h)' <=> Replaces(q, P, G, h)
<1>1. /\ UNCHANGED context /\ nextLen' = nextLen /\ seg' = seg /\ p' = p
      /\ out' = out /\ handled' = handled
      BY DEF context
<1>2. /\ pl' = pl /\ Whole' = Whole /\ Payload' = Payload /\ copy' = copy
      /\ Extended' <=> Extended
      BY <1>1, ContextUnchanged
<1>3. Original' = Original /\ Following' = Following /\ NextSpan' = NextSpan
      BY <1>1, <1>2 DEF Original, Following, NextSpan
<1>4. Replacement' = Replacement /\ Repeated' = Repeated
      BY <1>1, <1>2, <1>3 DEF Replacement, Repeated, Tracked
<1>5. SecondHalfRefused' <=> SecondHalfRefused
      BY <1>1, <1>2 DEF SecondHalfRefused
<1>6. \A P, G : Sizes(P, G)' <=> Sizes(P, G)
      BY <1>2 DEF Sizes
<1>7. \A G : Grown(G)' <=> Grown(G)
      BY <1>1, <1>2 DEF Grown
<1>8. \A g, P : Fresh(g, P)' <=> Fresh(g, P)
      BY <1>2 DEF Fresh
<1>9. \A g, P, G, h : /\ Untouched(g, P, G, h)' <=> Untouched(g, P, G, h)
                      /\ Lengthened(g, P, G, h)' <=> Lengthened(g, P, G, h)
                      /\ Overtaken(g, P, G, h)' <=> Overtaken(g, P, G, h)
      BY <1>1, <1>2, <1>3 DEF Untouched, Lengthened, Overtaken
<1>10. \A q, P, G, h : Replaces(q, P, G, h)' <=> Replaces(q, P, G, h)
      BY <1>1, QueueUnchanged
<1> QED BY <1>3, <1>4, <1>5, <1>6, <1>7, <1>8, <1>9, <1>10

\* Where nothing is added, all of the segment lies in front of it.
LEMMA SizesFit ==
    ASSUME Ctx, NEW q, NEW P, NEW G, NEW h, Replaces(q, P, G, h)
    PROVE  \E Q : Replaces(q, Q, G, h) /\ Sizes(Q, G)
<1>1. /\ P \in 1 .. pl /\ Longer(G, h) /\ (G # 0 => P < pl /\ Skipped(h) <= P)
      /\ q \in Seq(Builder) /\ pl \in Nat
      BY RoomIs DEF Replaces
<1>2. CASE G # 0
  <2>1. G \in Nat
        BY <1>1, <1>2 DEF Longer
  <2> QED BY <1>1, <1>2, <2>1 DEF Sizes
<1>3. CASE G = 0
  <2>1. ASSUME NEW b \in Builder, Class(b, P, 0, h) PROVE Class(b, pl, 0, h)
    <3> DEFINE s == b.seq
               l == Len(b.body)
    <3>1. s \in Nat /\ l \in Nat /\ Covers(b) = s + 1 .. s + l /\ End(b) = s + l
          BY DEF Builder, Covers, End
    <3> HIDE DEF s, l
    <3>2. s + l <= pl + 0 /\ \A n \in Covers(b) : Byte(n, ByteAt(b, n), P, 0, h)
          BY <2>1, <3>1 DEF Class
    <3>3. ASSUME NEW n \in Nat, n <= pl, NEW v, Byte(n, v, P, 0, h) PROVE Byte(n, v, pl, 0, h)
      <4>1. ~(pl < n) /\ ~(pl + 0 < n) /\ ~(P < n /\ n <= P + 0)
            BY <1>1, <3>3
      <4>2. n <= P \/ (P + 0 < n /\ n - 0 = n)
            BY <1>1
      <4> QED BY <3>3, <4>1, <4>2 DEF Byte
    <3>4. \A n \in Covers(b) : n \in Nat /\ n <= pl
          BY <1>1, <3>1, <3>2
    <3>5. \A n \in Covers(b) : Byte(n, ByteAt(b, n), pl, 0, h)
          BY <3>2, <3>3, <3>4
    <3> QED BY <3>1, <3>2, <3>5 DEF Class
  <2>2. \A k \in DOMAIN q : accepted(q[k]) => Class(q[k], P, 0, h) \/ Late(q[k], h)
        BY <1>3 DEF Replaces
  <2>3. \A k \in DOMAIN q : accepted(q[k]) => Class(q[k], pl, 0, h) \/ Late(q[k], h)
        BY <1>1, <2>1, <2>2
  <2>4. pl \in 1 .. pl
        BY <1>1
  <2>5. (Extended => h = NoName) =>
          \A n \in 1 .. pl + 0 : 0 # 0 \/ n \notin CutBy(h) => Covered(q, n)
        BY <1>3 DEF Replaces
  <2>6. Replaces(q, pl, 0, h)
        BY <1>1, <1>3, <2>3, <2>4, <2>5 DEF Replaces
  <2>7. Sizes(pl, 0)
        BY <1>1 DEF Sizes
  <2> QED BY <1>3, <2>6, <2>7
<1> QED BY <1>2, <1>3

LEMMA OriginalReplaces ==
    ASSUME Ctx, NEW h
    PROVE  Replaces(<<Original>>, pl, 0, h)
<1> DEFINE o == Original
           q == <<o>>
<1>1. ClientOwn(o, 0, pl) /\ o \in Builder /\ pl \in Nat /\ pl >= 1
      BY ClientSends, RoomIs DEF ClientOwn
<1>2. accepted(o) /\ Straight(o)
  <2>1. o.seq = 0 /\ Len(o.body) = pl /\ \A k \in 1 .. pl : o.body[k] = 0 + k
        BY <1>1 DEF ClientOwn
  <2>2. 0 + pl = pl
        BY <1>1
  <2> QED BY <1>1, <2>1, <2>2 DEF ClientOwn, Straight, End
<1>3. Covers(o) = 1 .. pl + 0
  <2>1. 0 + 1 .. 0 + pl = 1 .. pl + 0 /\ 0 \in Nat
        BY <1>1
  <2> QED BY <1>1, <2>1, OwnBytes
<1>4. Class(o, pl, 0, h)
      BY <1>1, <1>2, StraightIs
<1> HIDE DEF o
<1>5. q \in Seq(Builder) /\ DOMAIN q = {1} /\ q[1] = o
      BY <1>1
<1>6. pl \in 1 .. pl
      BY <1>1
<1> HIDE DEF q
<1>7. \A n \in 1 .. pl + 0 : Covered(q, n)
      BY <1>2, <1>3, <1>5 DEF Covered
<1>8. Replaces(q, pl, 0, h)
      BY <1>4, <1>5, <1>6, <1>7 DEF Replaces, Longer
<1> QED BY <1>8 DEF q, o

LEMMA RandomIsLarge == Garbage \in Int /\ Garbage > MaxUint16 + MaxUint16 /\ Garbage # Inserted
BY DEF Garbage, MaxUint16, Inserted

LEMMA PieceFits ==
    ASSUME Ctx, NEW P, NEW G, Replaces(Replacement, P, G, handled), ~SecondHalfRefused,
           NEW k \in DOMAIN Replacement, accepted(Replacement[k])
    PROVE  Class(Replacement[k], P, G, handled)
<1>1. SUFFICES ASSUME Late(Replacement[k], handled) PROVE FALSE
      BY <1>1 DEF Replaces
<1>2. handled \in {"tls-split", "disorder"} /\ ~Extended
      BY <1>1 DEF Late
<1>3. Replacement = out
      BY <1>2 DEF Replacement, NoName
<1>4. out[k].seq \in 1 .. pl - 1 /\ pl - out[k].seq > Room
      BY <1>1, <1>3 DEF Late
<1> DEFINE s == out[k].seq
<1>5. s \in 1 .. pl - 1 /\ pl - s > Room /\ Whole = Hdr + pl
      /\ Hdr \in Nat /\ pl \in Nat /\ kMaxMtu \in Nat /\ Hdr = kMaxMtu - Room /\ Room \in Nat
      BY <1>4, RoomIs, SegmentIs
<1> HIDE DEF s
<1>6. s > 0 /\ Whole - s > kMaxMtu
      BY <1>5
<1>7. SecondHalfRefused
      BY <1>2, <1>3, <1>6 DEF SecondHalfRefused, s
<1> QED BY <1>7

LEMMA BytesAreKnown ==
    ASSUME Ctx, NEW P \in 1 .. pl, NEW G \in Nat, NEW n \in Nat, n >= 1, n <= pl + G,
           NEW v, Byte(n, v, P, G, handled)
    PROVE  NotRandom(n, v)
<1>1. SUFFICES ASSUME v = Garbage PROVE handled = "oob" /\ n = 1
      BY <1>1 DEF NotRandom
<1>2. pl \in Nat /\ pl <= MaxUint16 /\ P <= pl /\ P \in Nat /\ MaxUint16 \in Nat
      BY RoomIs, Uint16
<1>3. Garbage \in Int /\ Garbage > MaxUint16 + MaxUint16 /\ Garbage # Inserted
      BY RandomIsLarge
<1>4. CASE n <= P
  <2>1. v # n /\ v # -n
        BY <1>1, <1>2, <1>3, <1>4
  <2>2. n < Skipped(handled) /\ v = Filler(handled)
        BY <1>4, <2>1 DEF Byte
  <2>3. handled = "oob"
        BY <1>1, <1>3, <2>2 DEF Filler
  <2>4. Skipped(handled) = 2
        BY <2>3 DEF Skipped
  <2> QED BY <2>2, <2>3, <2>4
<1>5. CASE P < n /\ n <= P + G
      BY <1>1, <1>3, <1>5 DEF Byte
<1>6. CASE P + G < n
  <2>1. v = n - G \/ v = -(n - G)
        BY <1>6 DEF Byte
  <2>2. n - G \in Nat /\ n - G <= pl
        BY <1>2, <1>6
  <2> QED BY <1>1, <1>2, <1>3, <2>1, <2>2
<1> QED BY <1>2, <1>4, <1>5, <1>6

LEMMA PieceIsClean ==
    ASSUME Ctx, NEW P, NEW G, NEW q, Replaces(q, P, G, handled), NEW k \in DOMAIN q,
           accepted(q[k]), NEW n \in Covers(q[k])
    PROVE  NotRandom(n, ByteAt(q[k], n))
<1> DEFINE b == q[k]
           s == b.seq
           l == Len(b.body)
<1>1. /\ b \in Builder /\ P \in 1 .. pl /\ G \in Nat /\ pl \in Nat
      /\ Class(b, P, G, handled) \/ Late(b, handled)
      BY RoomIs DEF Replaces, Longer
<1>2. n \in Covers(b)
      OBVIOUS
<1> HIDE DEF b
<1>3. s \in Nat /\ l \in Nat /\ n \in s + 1 .. s + l /\ End(b) = s + l
      BY <1>1, <1>2 DEF Builder, Covers, End
<1>4. CASE Class(b, P, G, handled)
  <2>1. s + l <= pl + G /\ Byte(n, ByteAt(b, n), P, G, handled)
        BY <1>2, <1>4, <1>3 DEF Class
  <2> HIDE DEF s, l
  <2>2. n \in Nat /\ n >= 1 /\ n <= pl + G
        BY <1>1, <1>3, <2>1
  <2>3. NotRandom(n, ByteAt(b, n))
        BY <1>1, <2>1, <2>2, BytesAreKnown
  <2> QED BY <2>3 DEF b
<1>5. CASE Late(b, handled)
  <2>1. l = Room /\ \A m \in 1 .. l : b.body[m] = m
        BY <1>5 DEF Late
  <2>2. Room \in Nat /\ Room <= MaxUint16 /\ MaxUint16 \in Nat
    <3>1. Room \in 1 .. kMaxMtu /\ kMaxMtu \in 1 .. MaxUint16
          BY SegmentIs
    <3> QED BY <3>1, Uint16
  <2>3. ByteAt(b, n) = b.body[n - s]
        BY DEF ByteAt
  <2> HIDE DEF s, l
  <2>4. n \in Nat /\ n >= 1 /\ n - s \in 1 .. l
        BY <1>3
  <2>5. ByteAt(b, n) = n - s /\ n - s <= MaxUint16 /\ n - s \in Nat
        BY <2>1, <2>2, <2>3, <2>4
  <2>6. ByteAt(b, n) # Garbage
        BY <2>2, <2>5, RandomIsLarge
  <2> QED BY <2>4, <2>6 DEF NotRandom, b
<1> QED BY <1>1, <1>4, <1>5

LEMMA OwnIsClean ==
    ASSUME Ctx, NEW b, b = Original \/ b = Following, NEW n \in Covers(b)
    PROVE  NotRandom(n, ByteAt(b, n))
<1>1. pl \in Nat /\ pl <= MaxUint16 /\ MaxUint16 \in Nat /\ nextLen \in Nat /\ nextLen <= MaxUint16
      BY RoomIs, StrategyAssumption, Uint16 DEF Ctx
<1>2. ClientOwn(b, 0, pl) \/ ClientOwn(b, pl, nextLen)
      BY ClientSends
<1>3. 0 + pl = pl /\ 0 \in Nat
      BY <1>1
<1>4. /\ n \in 0 + 1 .. 0 + pl \/ n \in pl + 1 .. pl + nextLen
      /\ ByteAt(b, n) = n
      BY <1>1, <1>2, <1>3, OwnBytes
<1>5. n \in Nat /\ n >= 1 /\ n <= MaxUint16 + MaxUint16
      BY <1>1, <1>4
<1>6. n # Garbage
      BY <1>1, <1>5, RandomIsLarge
<1> QED BY <1>4, <1>5, <1>6 DEF NotRandom

\* The sequence r is q and b behind it.
Behind(r, q, b) ==
    /\ r # <<>> /\ Len(q) \in Nat /\ Len(r) = Len(q) + 1
    /\ \A k \in DOMAIN r : r[k] = b \/ (k \in DOMAIN q /\ r[k] = q[k])
    /\ \A k \in DOMAIN q : k \in DOMAIN r /\ r[k] = q[k]
    /\ Len(q) + 1 \in DOMAIN r /\ r[Len(q) + 1] = b

LEMMA BehindIs ==
    ASSUME NEW q \in Seq(Builder), NEW b \in Builder, NEW r, r = Append(q, b)
    PROVE  Behind(r, q, b)
<1> DEFINE m == Len(q)
<1>1. m \in Nat /\ DOMAIN q = 1 .. m
      OBVIOUS
<1>2. Len(r) = m + 1 /\ DOMAIN r = 1 .. m + 1 /\ r[m + 1] = b /\ \A k \in 1 .. m : r[k] = q[k]
      OBVIOUS
<1> HIDE DEF m
<1>3. \A k \in 1 .. m + 1 : k = m + 1 \/ k \in 1 .. m
      BY <1>1
<1>4. m + 1 \in 1 .. m + 1 /\ \A k \in 1 .. m : k \in 1 .. m + 1
      BY <1>1
<1>5. \A k \in DOMAIN r : r[k] = b \/ (k \in DOMAIN q /\ r[k] = q[k])
      BY <1>1, <1>2, <1>3
<1>6. /\ \A k \in DOMAIN q : k \in DOMAIN r /\ r[k] = q[k]
      /\ m + 1 \in DOMAIN r /\ r[m + 1] = b
      BY <1>1, <1>2, <1>4
<1>7. r # <<>>
  <2>1. DOMAIN r # {}
        BY <1>2, <1>4
  <2> QED BY <2>1
<1> QED BY <1>1, <1>2, <1>7, <1>5, <1>6 DEF m, Behind

LEMMA ReplacementIs ==
    ASSUME Ctx, QueueInv
    PROVE  Replacement \in Seq(Builder) /\ <<Original>> \in Seq(Builder) /\ Following \in Builder
<1> DEFINE o == Original
           r == <<o>>
<1>1. o \in Builder /\ Following \in Builder /\ out \in Seq(Builder)
      BY ClientSends, QueueIsTyped DEF ClientOwn
<1> HIDE DEF o
<1>2. r \in Seq(Builder)
      BY <1>1
<1>3. Replacement = r \/ Replacement = out
      BY DEF Replacement, o
<1> HIDE DEF r
<1> QED BY <1>1, <1>2, <1>3 DEF r, o

LEMMA SentIs ==
    ASSUME Ctx, QueueInv, Resent \/ sent = Append(Replacement, Following), NEW k \in DOMAIN sent
    PROVE  \/ sent[k] = Following
           \/ Resent /\ sent[k] = Original
           \/ ~Resent /\ k \in DOMAIN Replacement /\ sent[k] = Replacement[k]
<1>1. Replacement \in Seq(Builder) /\ <<Original>> \in Seq(Builder) /\ Following \in Builder
      BY ReplacementIs
<1> DEFINE o == <<Original>>
<1>2. DOMAIN o = {1} /\ o[1] = Original
      OBVIOUS
<1>3. o \in Seq(Builder)
      BY <1>1
<1>4. Resent => sent = Append(o, Following)
      BY DEF Resent
<1> HIDE DEF o
<1>5. CASE Resent
  <2>1. Behind(sent, o, Following)
        BY <1>1, <1>3, <1>4, <1>5, BehindIs
  <2>2. sent[k] = Following \/ (k \in DOMAIN o /\ sent[k] = o[k])
        BY <2>1 DEF Behind
  <2> QED BY <1>2, <1>5, <2>2
<1>6. CASE ~Resent
  <2>1. Behind(sent, Replacement, Following)
        BY <1>1, <1>6, BehindIs
  <2> QED BY <1>6, <2>1 DEF Behind
<1> QED BY <1>5, <1>6

LEMMA DeliverIs ==
    ASSUME NEW k, Deliver(k)
    PROVE  /\ k \in wire /\ wire' = wire \ {k}
           /\ UNCHANGED <<context, runVars, sent, losses>>
           /\ accepted(sent[k]) => Merged(got', got, sent[k])
           /\ ~accepted(sent[k]) => got' = got
BY DEF Deliver, Merged

LEMMA CleanStep ==
    ASSUME Ctx, QueueInv, Clean, NEW P, NEW G, Sending(P, G), NEW k \in DOMAIN sent,
           accepted(sent[k]), Merged(got', got, sent[k]), handled' = handled
    PROVE  Clean'
<1>1. \A n \in Covers(sent[k]) : NotRandom(n, ByteAt(sent[k], n))
  <2>1. Resent \/ sent = Append(Replacement, Following)
        BY DEF Sending
  <2>2. CASE sent[k] = Following \/ sent[k] = Original
        BY <2>2, OwnIsClean
  <2>3. CASE k \in DOMAIN Replacement /\ sent[k] = Replacement[k]
        BY <2>3, PieceIsClean DEF Sending
  <2> QED BY <2>1, <2>2, <2>3, SentIs
<1>2. \A n \in DOMAIN got' : NotRandom(n, got'[n])
      BY <1>1 DEF Clean, Merged
<1> QED BY <1>2 DEF Clean, NotRandom

LEMMA StreamStep ==
    ASSUME Ctx, QueueInv, Clean, NEW P, NEW G, Sending(P, G), ~SecondHalfRefused,
           NEW k \in DOMAIN sent, accepted(sent[k]), Merged(got', got, sent[k]),
           UNCHANGED <<context, out, handled, sent>>
    PROVE  Stream(P, G)'
<1> DEFINE h == handled
           f == got'
           b == sent[k]
<1>1. /\ Sizes(P, G) /\ Stream(P, G) /\ Replaces(Replacement, P, G, h)
      /\ Resent \/ sent = Append(Replacement, Following)
      BY DEF Sending
<1>2. \A n \in DOMAIN got : n \in Nat
      BY DEF Clean, NotRandom
<1>3. /\ (Resent' <=> Resent) /\ (Grown(G)' <=> Grown(G)) /\ handled' = h
      /\ \A g : /\ Fresh(g, P)' <=> Fresh(g, P)
                /\ Untouched(g, P, G, h)' <=> Untouched(g, P, G, h)
                /\ Lengthened(g, P, G, h)' <=> Lengthened(g, P, G, h)
                /\ Overtaken(g, P, G, h)' <=> Overtaken(g, P, G, h)
      BY NetUnchanged DEF Resent
<1>4. SUFFICES \/ Untouched(f, P, G, h) /\ (Resent \/ Fresh(f, P))
               \/ Grown(G) /\ (Lengthened(f, P, G, h) \/ Overtaken(f, P, G, h))
      BY <1>3, <1>4 DEF Stream
<1>5. CASE b = Following
      BY <1>1, <1>2, <1>5, TakesNext DEF Stream
<1>6. CASE Resent /\ b = Original
      BY <1>1, <1>2, <1>6, TakesOriginal DEF Stream
<1>7. CASE ~Resent /\ k \in DOMAIN Replacement /\ b = Replacement[k]
  <2>1. Class(b, P, G, h) /\ b \in Builder
    <3>1. Class(Replacement[k], P, G, h)
          BY <1>1, <1>7, PieceFits
    <3>2. Replacement \in Seq(Builder)
          BY <1>1 DEF Replaces
    <3> QED BY <1>7, <3>1, <3>2
  <2>2. \/ Untouched(got, P, G, h) /\ Fresh(got, P)
        \/ Grown(G) /\ (Lengthened(got, P, G, h) \/ Overtaken(got, P, G, h))
        BY <1>1, <1>7 DEF Stream
  <2>3. Merged(f, got, b)
        OBVIOUS
  <2>4. ASSUME G # 0, End(b) = pl + G PROVE Grown(G)
    <3>1. h = "tls-frag" \/ h = "http-mangle"
          BY <1>1, <2>4 DEF Replaces, Longer
    <3>2. Replacement = out
          BY <3>1 DEF Replacement, NoName
    <3> QED BY <1>7, <2>4, <3>2 DEF Grown
  <2> HIDE DEF b, f
  <2>5. CASE Untouched(got, P, G, h) /\ Fresh(got, P)
        BY <1>1, <1>2, <2>1, <2>3, <2>4, <2>5, TakesPiece
  <2>6. CASE Grown(G) /\ (Lengthened(got, P, G, h) \/ Overtaken(got, P, G, h))
        BY <1>1, <1>2, <2>1, <2>3, <2>6, TakesPiece
  <2> QED BY <2>2, <2>5, <2>6
<1> QED BY <1>1, <1>5, <1>6, <1>7, SentIs

\* Where the refused half of a split starts.
LEMMA RefusedIs ==
    ASSUME Ctx, QueueInv, SecondHalfRefused
    PROVE  \E off : /\ Halves(out, off) /\ pl - off > Room /\ ~Extended
                    /\ handled \in {"tls-split", "disorder"} /\ Replacement = out
                    /\ \A k \in DOMAIN out : out[k].seq > 0 => out[k].seq = off
<1>1. handled \in {"tls-split", "disorder"} /\ handled # NoName /\ ~Extended
      BY DEF SecondHalfRefused, NoName
<1>2. PICK off : Halves(out, off)
      BY <1>1 DEF QueueInv, Result
<1>3. ASSUME NEW k \in DOMAIN out, out[k].seq > 0 PROVE out[k].seq = off
  <2>1. Decoy(out[k]) \/ Front(out[k], off) \/ Back(out[k], off)
        BY <1>2 DEF Halves
  <2>2. ~(0 > 0)
        OBVIOUS
  <2> QED BY <1>3, <2>1, <2>2 DEF Decoy, Rejected, Front, FrontHalf, Back, BackHalf
<1>4. PICK k \in DOMAIN out : out[k].seq > 0 /\ Whole - out[k].seq > kMaxMtu
      BY DEF SecondHalfRefused
<1>5. Whole - off > kMaxMtu
      BY <1>3, <1>4
<1>6. off \in Nat /\ pl \in Nat /\ Whole = Hdr + pl /\ Hdr \in Nat /\ kMaxMtu \in Nat
      /\ Hdr = kMaxMtu - Room /\ Room \in Nat
      BY <1>2, RoomIs, SegmentIs DEF Halves
<1>7. pl - off > Room
      BY <1>5, <1>6
<1> QED BY <1>1, <1>2, <1>3, <1>7 DEF Replacement

LEMMA PieceBegins ==
    ASSUME Ctx, NEW off \in 1 .. pl - 1, pl - off > Room, NEW b,
           Decoy(b) \/ Front(b, off) \/ Back(b, off), accepted(b),
           NEW n \in {1, off + 1}, n \in Covers(b)
    PROVE  ByteAt(b, n) = 1
<1>1. off \in Nat /\ off >= 1 /\ Room \in Nat /\ pl \in Nat
      BY RoomIs
<1>2. ~Decoy(b)
      BY DEF Decoy, Rejected, accepted
<1>3. CASE Front(b, off)
  <2>1. Straight(b) /\ Covers(b) = 1 .. Smaller(off, Room) /\ b \in Builder
        BY <1>3, FrontStraight
  <2>2. b.seq = 0 /\ \A m \in 1 .. Len(b.body) : b.body[m] = b.seq + m
        BY <1>3, <2>1 DEF Straight, Front, FrontHalf
  <2>3. Smaller(off, Room) <= off /\ Smaller(off, Room) \in Nat
        BY <1>1 DEF Smaller
  <2>4. n = 1
        BY <1>1, <2>1, <2>3
  <2>5. Covers(b) = 0 + 1 .. 0 + Len(b.body) /\ Len(b.body) \in Nat
        BY <2>1, <2>2 DEF Covers, Builder
  <2>6. 1 \in 1 .. Len(b.body) /\ 1 - 0 = 1 /\ 0 + 1 = 1
        BY <2>4, <2>5
  <2>7. ByteAt(b, n) = b.body[1]
        BY <2>2, <2>4, <2>6 DEF ByteAt
  <2> QED BY <2>2, <2>6, <2>7
<1>4. CASE Back(b, off)
  <2>1. ~(pl - off <= Room)
        BY <1>1
  <2>2. /\ Covers(b) = off + 1 .. off + Room /\ Len(b.body) = Room
        /\ \A m \in 1 .. Len(b.body) : b.body[m] = m
        BY <1>4, <2>1, BackStraight
  <2>3. b.seq = off
        BY <1>4 DEF Back, BackHalf
  <2>4. n = off + 1 /\ n - off = 1 /\ 1 \in 1 .. Room
        BY <1>1, <2>2
  <2>5. ByteAt(b, n) = b.body[1]
        BY <2>3, <2>4 DEF ByteAt
  <2> QED BY <2>2, <2>4, <2>5
<1> QED BY <1>2, <1>3, <1>4

LEMMA TwiceStep ==
    ASSUME Ctx, QueueInv, Twice, Resent \/ sent = Append(Replacement, Following),
           NEW k \in DOMAIN sent, accepted(sent[k]), Merged(got', got, sent[k]),
           UNCHANGED <<context, out, handled, sent>>
    PROVE  Twice'
<1> SUFFICES ASSUME SecondHalfRefused, ~Resent, NEW j \in DOMAIN out, out[j].seq > 0
             PROVE  Begins(1)' /\ Begins(out[j].seq + 1)'
  <2>1. (SecondHalfRefused' <=> SecondHalfRefused) /\ (Resent' <=> Resent) /\ out' = out
        BY NetUnchanged DEF Resent
  <2> QED BY <2>1 DEF Twice, Begins
<1>1. PICK off : /\ Halves(out, off) /\ pl - off > Room /\ Replacement = out
                 /\ \A m \in DOMAIN out : out[m].seq > 0 => out[m].seq = off
      BY RefusedIs
<1>2. off \in 1 .. pl - 1 /\ out[j].seq = off
      BY <1>1 DEF Halves
<1>3. Begins(1) /\ Begins(off + 1)
      BY <1>2 DEF Twice
<1>4. ASSUME NEW n \in {1, off + 1}, n \in Covers(sent[k]) PROVE ByteAt(sent[k], n) = 1
  <2>1. CASE sent[k] = Following
    <3>1. pl \in Nat /\ nextLen \in Nat
          BY RoomIs, StrategyAssumption, Uint16 DEF Ctx
    <3>2. Covers(Following) = pl + 1 .. pl + nextLen
          BY <3>1, ClientSends, OwnBytes
    <3> QED BY <1>2, <1>4, <2>1, <3>1, <3>2
  <2>2. CASE k \in DOMAIN out /\ sent[k] = out[k]
    <3>1. Decoy(out[k]) \/ Front(out[k], off) \/ Back(out[k], off)
          BY <1>1, <2>2 DEF Halves
    <3> QED BY <1>1, <1>2, <1>4, <2>2, <3>1, PieceBegins
  <2> QED BY <1>1, <2>1, <2>2, SentIs
<1>5. ASSUME NEW n \in {1, off + 1} PROVE n \in DOMAIN got' => got'[n] = 1
      BY <1>3, <1>4 DEF Merged, Begins
<1> QED BY <1>2, <1>5, NetUnchanged DEF Begins

LEMMA DeliverStep ==
    ASSUME Ctx, QueueInv, Typed, NetInv, NEW k \in wire, Deliver(k)
    PROVE  NetInv'
<1>1. /\ wire' = wire \ {k} /\ UNCHANGED <<context, out, handled, sent, losses>>
      /\ accepted(sent[k]) => Merged(got', got, sent[k])
      /\ ~accepted(sent[k]) => got' = got
      BY DeliverIs DEF runVars
<1>2. k \in DOMAIN sent /\ sent # <<>>
      BY DEF Typed
<1>3. Clean /\ Delivered /\ Twice
      BY <1>2 DEF NetInv
<1>4. PICK P, G : Sending(P, G)
      BY <1>2 DEF NetInv
<1>5. Resent \/ sent = Append(Replacement, Following)
      BY <1>4 DEF Sending
<1>6. Delivered'
  <2> SUFFICES ASSUME losses = 0, NEW j \in DOMAIN sent, j \notin wire', accepted(sent[j])
               PROVE  Covers(sent[j]) \subseteq DOMAIN got'
      BY <1>1 DEF Delivered, accepted, Covers
  <2>1. CASE j = k
        BY <1>1, <2>1 DEF Merged
  <2>2. CASE j # k
    <3>1. Covers(sent[j]) \subseteq DOMAIN got
          BY <1>1, <1>3, <2>2 DEF Delivered
    <3> QED BY <1>1, <3>1 DEF Merged
  <2> QED BY <2>1, <2>2
<1>7. Clean' /\ Twice' /\ (~SecondHalfRefused => Stream(P, G)')
  <2>1. CASE accepted(sent[k])
        BY <1>1, <1>2, <1>3, <1>4, <1>5, <2>1, CleanStep, TwiceStep, StreamStep
  <2>2. CASE ~accepted(sent[k])
    <3>1. got' = got /\ (Resent' <=> Resent) /\ handled' = handled /\ out' = out
          BY <1>1, <2>2, NetUnchanged DEF Resent
    <3>2. Clean'
          BY <1>3, <3>1 DEF Clean, NotRandom
    <3>3. Twice'
          BY <1>1, <1>3, <3>1, NetUnchanged DEF Twice, Begins
    <3>4. Stream(P, G) => Stream(P, G)'
          BY <1>1, <3>1, NetUnchanged DEF Stream
    <3> QED BY <1>4, <3>2, <3>3, <3>4 DEF Sending
  <2> QED BY <2>1, <2>2
<1>8. Sending(P, G)'
  <2>1. (Resent' <=> Resent) /\ Replacement' = Replacement /\ Following' = Following
        BY <1>1, NetUnchanged DEF Resent
  <2>2. (Replaces(Replacement, P, G, handled) /\ Sizes(P, G))'
        BY <1>1, <1>4, <2>1, NetUnchanged DEF Sending
  <2>3. SecondHalfRefused' <=> SecondHalfRefused
        BY <1>1, NetUnchanged
  <2> QED BY <1>1, <1>5, <1>7, <2>1, <2>2, <2>3 DEF Sending
<1> QED BY <1>1, <1>2, <1>6, <1>7, <1>8 DEF NetInv

LEMMA LoseStep ==
    ASSUME Ctx, Typed, NetInv, NEW k \in wire, Lose(k)
    PROVE  NetInv'
<1>1. UNCHANGED <<context, out, handled, sent, got>> /\ losses' = losses + 1
      BY DEF Lose, runVars
<1>2. losses \in Nat
      BY StrategyAssumption DEF Typed
<1>3. Delivered'
  <2>1. losses' # 0
        BY <1>1, <1>2
  <2> QED BY <2>1 DEF Delivered
<1>4. (Resent' <=> Resent) /\ Replacement' = Replacement /\ Following' = Following
      BY <1>1, NetUnchanged DEF Resent
<1>5. Clean => Clean'
      BY <1>1 DEF Clean, NotRandom
<1>6. Twice => Twice'
      BY <1>1, <1>4, NetUnchanged DEF Twice, Begins
<1>7. \A P, G : Stream(P, G) => Stream(P, G)'
      BY <1>1, <1>4, NetUnchanged DEF Stream
<1>8. ASSUME NEW P, NEW G, Sending(P, G) PROVE Sending(P, G)'
  <2>1. (Replaces(Replacement, P, G, handled) /\ Sizes(P, G))'
        BY <1>1, <1>4, <1>8, NetUnchanged DEF Sending
  <2>2. SecondHalfRefused' <=> SecondHalfRefused
        BY <1>1, NetUnchanged
  <2> QED BY <1>1, <1>4, <1>7, <1>8, <2>1, <2>2 DEF Sending
<1> QED BY <1>1, <1>3, <1>5, <1>6, <1>8 DEF NetInv

\* A stream of which nothing has come.
LEMMA NothingCame ==
    ASSUME NEW g, DOMAIN g = {}, NEW P, NEW G, NEW h
    PROVE  Untouched(g, P, G, h) /\ Fresh(g, P)
BY DEF Untouched, Fresh

LEMMA FirstStep ==
    ASSUME Ctx, QueueInv, Typed, NetInv, SendHandled \/ SendOriginal
    PROVE  NetInv'
<1>1. /\ sent = <<>> /\ UNCHANGED <<context, out, handled, got, losses>>
      /\ sent' = Append(Replacement, Following) /\ wire' = 1 .. Len(Replacement) + 1
      BY DEF SendHandled, SendOriginal, Inject, Replacement, runVars
<1>2. got = <<>> /\ DOMAIN got = {}
  <2>1. got = <<>>
        BY <1>1 DEF NetInv
  <2> QED BY <2>1
<1>3. Behind(sent', Replacement, Following)
      BY <1>1, ReplacementIs, BehindIs
<1>4. sent' # <<>>
      BY <1>3 DEF Behind
<1>5. DOMAIN sent' = wire'
  <2>1. Inject(Replacement)
        BY <1>1 DEF SendHandled, SendOriginal, Replacement
  <2> QED BY <2>1, ReplacementIs, Injected
<1>6. Clean' /\ Delivered' /\ Twice'
      BY <1>1, <1>2, <1>5 DEF Clean, Delivered, Twice, Begins
<1>7. \E P, G : Replaces(Replacement, P, G, handled) /\ Sizes(P, G)
  <2>1. \E P, G : Replaces(Replacement, P, G, handled)
        BY OriginalReplaces DEF QueueInv, Replacement, Result
  <2> QED BY <2>1, SizesFit
<1>8. PICK P, G : Replaces(Replacement, P, G, handled) /\ Sizes(P, G)
      BY <1>7
<1>9. Sending(P, G)'
  <2>1. Replacement' = Replacement /\ Following' = Following
        BY <1>1, NetUnchanged
  <2>2. (Replaces(Replacement, P, G, handled) /\ Sizes(P, G))'
        BY <1>1, <1>8, <2>1, NetUnchanged
  <2>3. (Untouched(got, P, G, handled) /\ Fresh(got, P))'
        BY <1>1, <1>2, NothingCame, NetUnchanged
  <2>4. Stream(P, G)'
        BY <2>3 DEF Stream
  <2> QED BY <1>1, <2>1, <2>2, <2>4 DEF Sending
<1> QED BY <1>4, <1>6, <1>9 DEF NetInv

LEMMA RetransmitStep ==
    ASSUME Ctx, QueueInv, Typed, NetInv, Retransmit
    PROVE  NetInv'
<1>1. /\ sent # <<>> /\ UNCHANGED <<context, out, handled, got, losses>>
      /\ sent' = Append(Repeated, Following) /\ Inject(Repeated)
      BY DEF Retransmit, Timeout, Inject, runVars
<1>2. Repeated = <<Original>> \/ (Repeated = out /\ Repeated = Replacement)
      BY DEF Repeated, Replacement
<1>3. Repeated \in Seq(Builder)
      BY <1>2, ReplacementIs
<1>4. sent' # <<>> /\ DOMAIN sent' = wire'
      BY <1>1, <1>3, ReplacementIs, BehindIs, Injected DEF Behind
<1>5. /\ Original' = Original /\ Following' = Following /\ Replacement' = Replacement
      /\ Repeated' = Repeated
      /\ SecondHalfRefused' <=> SecondHalfRefused
      BY <1>1, NetUnchanged
<1>6. Clean /\ Delivered /\ Twice
      BY <1>1 DEF NetInv
<1>7. PICK P, G : Sending(P, G)
      BY <1>1 DEF NetInv
<1>8. /\ Resent => Resent'
      /\ Resent' \/ sent' = Append(Replacement', Following')
      BY <1>1, <1>2, <1>5 DEF Resent
<1>9. Clean'
      BY <1>1, <1>6 DEF Clean, NotRandom
<1>10. Delivered'
      BY <1>4 DEF Delivered
<1>11. Twice'
      BY <1>1, <1>5, <1>6, <1>8 DEF Twice, Begins
<1>12. Stream(P, G) => Stream(P, G)'
      BY <1>1, <1>8, NetUnchanged DEF Stream
<1>13. (Replaces(Replacement, P, G, handled) /\ Sizes(P, G))'
      BY <1>1, <1>5, <1>7, NetUnchanged DEF Sending
<1>14. Sending(P, G)'
      BY <1>5, <1>7, <1>8, <1>12, <1>13 DEF Sending
<1> QED BY <1>4, <1>9, <1>10, <1>11, <1>14 DEF NetInv

LEMMA NetStep ==
    ASSUME Ctx, QueueInv, Typed, NetInv, [Next]_vars
    PROVE  NetInv'
<1>1. CASE run
  <2>1. UNCHANGED <<context, sent, got>> /\ sent = <<>>
        BY <1>1, RunFrame DEF Running, netVars
  <2> QED BY <2>1 DEF NetInv
<1>2. CASE SendHandled \/ SendOriginal
      BY <1>2, FirstStep
<1>3. CASE Retransmit
      BY <1>3, RetransmitStep
<1>4. CASE \E k \in wire : Deliver(k) \/ Lose(k)
      BY <1>4, DeliverStep, LoseStep
<1>5. CASE UNCHANGED vars
  <2>1. UNCHANGED <<context, out, handled, sent, wire, got, losses>>
        BY <1>5 DEF vars, runVars, netVars
  <2>2. (Resent' <=> Resent) /\ Replacement' = Replacement /\ Following' = Following
        BY <2>1, NetUnchanged DEF Resent
  <2>3. (Clean => Clean') /\ (Delivered => Delivered') /\ (Twice => Twice')
        BY <2>1, <2>2, NetUnchanged
           DEF Clean, NotRandom, Delivered, accepted, Covers, Twice, Begins
  <2>4. \A P, G : Stream(P, G) => Stream(P, G)'
        BY <2>1, <2>2, NetUnchanged DEF Stream
  <2>5. ASSUME NEW P, NEW G, Sending(P, G) PROVE Sending(P, G)'
    <3>1. (Replaces(Replacement, P, G, handled) /\ Sizes(P, G))'
          BY <2>1, <2>2, <2>5, NetUnchanged DEF Sending
    <3>2. SecondHalfRefused' <=> SecondHalfRefused
          BY <2>1, NetUnchanged
    <3> QED BY <2>1, <2>2, <2>4, <2>5, <3>1, <3>2 DEF Sending
  <2> QED BY <2>1, <2>3, <2>5 DEF NetInv
<1> QED BY <1>1, <1>2, <1>3, <1>4, <1>5 DEF Next

Inv == Ctx /\ QueueInv /\ Typed /\ NetInv

LEMMA NetInvariant == Spec => []Inv
<1>1. Init => NetInv
      BY DEF Init, NetInv
<1>2. (Ctx /\ QueueInv /\ Typed /\ NetInv) /\ [Next]_vars => NetInv'
      BY NetStep
<1> QED BY <1>1, <1>2, CtxInvariant, TypedInvariant, PTL DEF Spec, Inv
-----------------------------------------------------------------------------
(* The order of the stream *)

LEMMA Greatest ==
    ASSUME NEW S \in SUBSET Nat, 0 \in S, NEW m \in Nat, \A y \in S : y <= m
    PROVE  Max(S) \in S /\ \A y \in S : y <= Max(S)
<1> DEFINE I == {m - y : y \in S}
<1>1. I \in SUBSET Nat /\ I # {}
      OBVIOUS
<1>2. PICK z \in I : \A k \in I : z <= k
      BY <1>1, LeastNatural
<1>3. PICK x \in S : z = m - x
      BY <1>2
<1>4. ASSUME NEW y \in S PROVE y <= x
  <2>1. m - x <= m - y
        BY <1>2, <1>3
  <2> QED BY <2>1
<1>5. \E w \in S : \A y \in S : w >= y
      BY <1>4
<1>6. Max(S) \in S /\ \A y \in S : Max(S) >= y
      BY <1>5 DEF Max
<1> QED BY <1>6

LEMMA EndsAre ==
    ASSUME Ctx, NEW P, NEW G \in Nat, NEW h, NEW q, Replaces(q, P, G, h),
           NEW k \in DOMAIN q, accepted(q[k])
    PROVE  End(q[k]) \in Nat /\ End(q[k]) <= pl + G
<1> DEFINE s == q[k].seq
           l == Len(q[k].body)
<1>1. q[k] \in Builder /\ (Class(q[k], P, G, h) \/ Late(q[k], h))
      BY DEF Replaces
<1>2. s \in Nat /\ l \in Nat /\ End(q[k]) = s + l
      BY <1>1 DEF Builder, End
<1>3. CASE Class(q[k], P, G, h)
      BY <1>2, <1>3 DEF Class
<1>4. CASE Late(q[k], h)
  <2>1. l = Room /\ pl - s > Room /\ s \in 1 .. pl - 1
        BY <1>4 DEF Late
  <2>2. pl \in Nat /\ Room \in Nat
        BY RoomIs
  <2> HIDE DEF s, l
  <2> QED BY <1>2, <2>1, <2>2
<1> QED BY <1>1, <1>3, <1>4

\* What lies on the sequence numbers behind the segment.
LEMMA GrowthIs ==
    ASSUME Ctx, NEW G \in Nat, G = 0 \/ Grown(G),
           \A k \in DOMAIN out :
              accepted(out[k]) => End(out[k]) \in Nat /\ End(out[k]) <= pl + G
    PROVE  Growth = G
<1> DEFINE S == Ends \cup {0}
           x == Max(S)
<1>1. pl \in Nat
      BY RoomIs
<1>2. Ends = {End(out[k]) : k \in {n \in DOMAIN out : accepted(out[n])}}
      BY DEF Ends, End
<1>3. \A k \in DOMAIN out : accepted(out[k]) => End(out[k]) \in Nat /\ End(out[k]) <= pl + G
      OBVIOUS
<1>4. S \in SUBSET Nat /\ 0 \in S /\ pl + G \in Nat /\ \A y \in S : y <= pl + G
      BY <1>1, <1>2, <1>3
<1>5. x \in S /\ \A y \in S : y <= x
      BY <1>4, Greatest
<1>6. Growth = Larger(0, x - pl)
      BY DEF Growth
<1>7. G # 0 => pl + G \in S
      BY <1>2 DEF Grown
<1> HIDE DEF S, x
<1>8. x \in Nat /\ x <= pl + G /\ (G # 0 => x = pl + G)
      BY <1>4, <1>5, <1>7
<1> QED BY <1>1, <1>6, <1>8 DEF Larger

\* Where a byte of the segment that is kept belongs.
LEMMA PlaceIs ==
    ASSUME NEW P \in Nat, NEW G \in Nat, NEW h, NEW n \in Nat, n >= 1,
           NEW v, Byte(n, v, P, G, h), v \notin {Inserted, Garbage}
    PROVE  \/ n <= P /\ Magnitude(v) = n
           \/ P + G < n /\ Magnitude(v) = n - G
<1>1. CASE n <= P
  <2>1. v = n \/ v = -n
        BY <1>1 DEF Byte, Filler
  <2> QED BY <1>1, <2>1 DEF Magnitude
<1>2. CASE P < n /\ n <= P + G
      BY <1>2 DEF Byte
<1>3. CASE P + G < n
  <2>1. v = n - G \/ v = -(n - G)
        BY <1>3 DEF Byte
  <2>2. n - G \in Nat /\ n - G >= 1
        BY <1>3
  <2> QED BY <1>3, <2>1, <2>2 DEF Magnitude
<1> QED BY <1>1, <1>2, <1>3

LEMMA StreamIsOrdered ==
    ASSUME Ctx, Clean, NEW P, NEW G, Sizes(P, G), NEW h
    PROVE  /\ Untouched(got, P, G, h) => InOrder
           /\ Lengthened(got, P, G, h) => InOrder
           /\ Overtaken(got, P, G, h) /\ G <= nextLen => InOrder
<1>1. P \in Nat /\ G \in Nat /\ P <= pl /\ pl \in Nat /\ nextLen \in Nat
      BY RoomIs, StrategyAssumption, Uint16 DEF Sizes, Ctx
<1>2. /\ \A n \in Kept : n \in DOMAIN got /\ n \in Nat /\ n >= 1
                         /\ got[n] \notin {Inserted, Garbage}
      BY DEF Kept, Clean, NotRandom
<1>3. ASSUME NEW n \in Kept, got[n] = n PROVE Magnitude(got[n]) = n
      BY <1>2, <1>3 DEF Magnitude
<1>4. ASSUME NEW n \in Kept, Byte(n, got[n], P, G, h)
      PROVE  \/ n <= P /\ Magnitude(got[n]) = n
             \/ P + G < n /\ Magnitude(got[n]) = n - G
  <2>1. n \in Nat /\ n >= 1 /\ got[n] \notin {Inserted, Garbage}
        BY <1>2
  <2> QED BY <1>1, <1>4, <2>1, PlaceIs
<1>5. ASSUME Untouched(got, P, G, h) PROVE InOrder
  <2>1. ASSUME NEW n \in Kept PROVE Magnitude(got[n]) = n
    <3>1. CASE n <= P /\ Byte(n, got[n], P, G, h)
          BY <1>1, <1>2, <1>4, <3>1
    <3>2. CASE got[n] = n
          BY <1>3, <3>2
    <3> QED BY <1>2, <1>5, <3>1, <3>2 DEF Untouched
  <2> QED BY <1>2, <2>1 DEF InOrder
<1>6. ASSUME Lengthened(got, P, G, h) PROVE InOrder
  <2>1. ASSUME NEW n \in Kept
        PROVE  \/ n <= P /\ Magnitude(got[n]) = n
               \/ P + G < n /\ n <= pl + G /\ Magnitude(got[n]) = n - G
               \/ pl + G < n /\ Magnitude(got[n]) = n
        BY <1>2, <1>3, <1>4, <1>6 DEF Lengthened
  <2> SUFFICES ASSUME NEW m \in Kept, NEW n \in Kept, m < n
               PROVE  Magnitude(got[m]) < Magnitude(got[n])
      BY DEF InOrder
  <2> DEFINE a == Magnitude(got[m])
             b == Magnitude(got[n])
  <2>2. /\ (m <= P /\ a = m) \/ (P + G < m /\ m <= pl + G /\ a = m - G) \/ (pl + G < m /\ a = m)
        /\ (n <= P /\ b = n) \/ (P + G < n /\ n <= pl + G /\ b = n - G) \/ (pl + G < n /\ b = n)
        /\ m \in Nat /\ n \in Nat
        BY <1>2, <2>1
  <2> HIDE DEF a, b
  <2>3. a < b
        BY <1>1, <2>2
  <2> QED BY <2>3 DEF a, b
<1>7. ASSUME Overtaken(got, P, G, h), G <= nextLen PROVE InOrder
  <2>1. ASSUME NEW n \in Kept
        PROVE  \/ n <= P /\ Magnitude(got[n]) = n
               \/ P + G < n /\ n <= pl /\ Magnitude(got[n]) = n - G
               \/ pl < n /\ Magnitude(got[n]) = n
    <3>1. CASE n <= pl + G /\ n \notin NextSpan /\ Byte(n, got[n], P, G, h)
      <4>1. n <= pl
            BY <1>1, <1>2, <1>7, <3>1 DEF NextSpan
      <4> QED BY <1>4, <3>1, <4>1
    <3>2. CASE n \in NextSpan /\ got[n] = n
          BY <1>1, <1>3, <3>2 DEF NextSpan
    <3> QED BY <1>2, <1>7, <3>1, <3>2 DEF Overtaken
  <2> SUFFICES ASSUME NEW m \in Kept, NEW n \in Kept, m < n
               PROVE  Magnitude(got[m]) < Magnitude(got[n])
      BY DEF InOrder
  <2> DEFINE a == Magnitude(got[m])
             b == Magnitude(got[n])
  <2>2. /\ (m <= P /\ a = m) \/ (P + G < m /\ m <= pl /\ a = m - G) \/ (pl < m /\ a = m)
        /\ (n <= P /\ b = n) \/ (P + G < n /\ n <= pl /\ b = n - G) \/ (pl < n /\ b = n)
        /\ m \in Nat /\ n \in Nat
        BY <1>2, <2>1
  <2> HIDE DEF a, b
  <2>3. a < b
        BY <1>1, <2>2
  <2> QED BY <2>3 DEF a, b
<1> QED BY <1>5, <1>6, <1>7

LEMMA GrownIsLonger ==
    ASSUME Ctx, NEW P, NEW G, Replaces(Replacement, P, G, handled), G # 0
    PROVE  Replacement = out /\ handled \in {"tls-frag", "http-mangle"}
<1>1. handled \in {"tls-frag", "http-mangle"}
      BY DEF Replaces, Longer
<1> QED BY <1>1 DEF Replacement, NoName

\* The next segment was overtaken, and is shorter than what was added.
LEMMA OvertakenIsShort ==
    ASSUME Ctx, NEW P, NEW G, Sending(P, G), Grown(G), Overtaken(got, P, G, handled),
           ~(G <= nextLen)
    PROVE  ShortOvertakes
<1>1. /\ pl \in Nat /\ nextLen \in Nat /\ nextLen >= 1 /\ G \in Nat
      BY RoomIs, StrategyAssumption, Uint16 DEF Sending, Sizes, Ctx
<1>2. Replacement = out
      BY GrownIsLonger DEF Sending, Grown
<1>3. Growth = G
  <2>1. \A k \in DOMAIN out :
           accepted(out[k]) => End(out[k]) \in Nat /\ End(out[k]) <= pl + G
        BY <1>1, <1>2, EndsAre DEF Sending
  <2> QED BY <1>1, <2>1, GrowthIs
<1>4. pl + 1 \in NextSpan
      BY <1>1 DEF NextSpan
<1>5. pl + 1 \in DOMAIN got /\ got[pl + 1] = pl + 1
      BY <1>4 DEF Overtaken
<1> QED BY <1>1, <1>3, <1>5 DEF ShortOvertakes

\* What arrived, if nothing got lost.
LEMMA ArrivedIs ==
    ASSUME Ctx, QueueInv, Typed, NetInv, Arrived
    PROVE  /\ sent = Append(Replacement, Following)
           /\ \A k \in DOMAIN Replacement :
                 accepted(Replacement[k]) => Covers(Replacement[k]) \subseteq DOMAIN got
           /\ NextSpan \subseteq DOMAIN got
<1>1. /\ sent = Append(Replacement, Following) /\ sent # <<>> /\ wire = {} /\ losses = 0
      BY DEF Arrived, Replacement
<1>2. Behind(sent, Replacement, Following)
      BY <1>1, ReplacementIs, BehindIs
<1>3. \A k \in DOMAIN sent : accepted(sent[k]) => Covers(sent[k]) \subseteq DOMAIN got
      BY <1>1 DEF NetInv, Delivered
<1>4. \A k \in DOMAIN Replacement :
         accepted(Replacement[k]) => Covers(Replacement[k]) \subseteq DOMAIN got
      BY <1>2, <1>3 DEF Behind
<1>5. accepted(Following) /\ Covers(Following) = NextSpan
  <2>1. pl \in Nat /\ nextLen \in Nat
        BY RoomIs, StrategyAssumption, Uint16 DEF Ctx
  <2> QED BY <2>1, ClientSends, OwnBytes DEF ClientOwn, NextSpan
<1>6. NextSpan \subseteq DOMAIN got
      BY <1>2, <1>3, <1>5 DEF Behind
<1> QED BY <1>1, <1>4, <1>6

\* The client's repetition can look like what was sent first only where that is the
\* segment itself.
LEMMA RepeatsItself ==
    ASSUME Ctx, QueueInv, Resent, sent = Append(Replacement, Following)
    PROVE  DOMAIN Replacement = {1} /\ Replacement[1] = Original
<1> DEFINE o == <<Original>>
<1>1. Len(o) = 1 /\ o[1] = Original /\ 1 \in DOMAIN o
      OBVIOUS
<1>2. o \in Seq(Builder) /\ sent = Append(o, Following)
      BY ReplacementIs DEF Resent
<1> HIDE DEF o
<1>3. Behind(sent, o, Following) /\ Behind(sent, Replacement, Following)
      BY <1>2, ReplacementIs, BehindIs
<1>4. Len(Replacement) = 1
      BY <1>1, <1>3 DEF Behind
<1>5. DOMAIN Replacement = {1}
      BY <1>4, ReplacementIs
<1>6. sent[1] = Original /\ sent[1] = Replacement[1]
      BY <1>1, <1>3, <1>5 DEF Behind
<1> QED BY <1>5, <1>6

LEMMA RefusedIsTwice ==
    ASSUME Ctx, QueueInv, Typed, NetInv, SecondHalfRefused, Arrived
    PROVE  ~InOrder
<1>1. PICK off : /\ Halves(out, off) /\ pl - off > Room /\ ~Extended /\ Replacement = out
                 /\ \A k \in DOMAIN out : out[k].seq > 0 => out[k].seq = off
      BY RefusedIs
<1>2. /\ sent = Append(out, Following) /\ sent # <<>>
      /\ \A k \in DOMAIN out : accepted(out[k]) => Covers(out[k]) \subseteq DOMAIN got
      BY <1>1, ArrivedIs DEF Arrived
<1>3. PICK j \in DOMAIN out : Front(out[j], off)
      BY <1>1 DEF Halves
<1>4. PICK k \in DOMAIN out : Back(out[k], off)
      BY <1>1 DEF Halves
<1>5. off \in Nat /\ off >= 1 /\ pl \in Nat /\ off \in 1 .. pl - 1 /\ Room \in Nat /\ Room >= 1
      BY <1>1, RoomIs DEF Halves
<1>6. out[j].seq = 0 /\ out[k].seq = off
      BY <1>3, <1>4 DEF Front, FrontHalf, Back, BackHalf
<1>7. ~Resent
  <2>1. Resent => j = k
        BY <1>1, <1>2, <1>3, <1>4, RepeatsItself
  <2> QED BY <1>5, <1>6, <2>1
<1>8. Begins(1) /\ Begins(off + 1)
  <2>1. out[k].seq > 0
        BY <1>5, <1>6
  <2> QED BY <1>2, <1>6, <1>7, <2>1 DEF NetInv, Twice
<1>9. 1 \in DOMAIN got
  <2>1. accepted(out[j]) /\ Covers(out[j]) = 1 .. Smaller(off, Room)
        BY <1>1, <1>3, <1>5, FrontStraight
  <2>2. 1 \in 1 .. Smaller(off, Room)
        BY <1>5 DEF Smaller
  <2> QED BY <1>2, <2>1, <2>2
<1>10. off + 1 \in DOMAIN got
  <2>1. ~(pl - off <= Room)
        BY <1>1, <1>5
  <2>2. accepted(out[k]) /\ Covers(out[k]) = off + 1 .. off + Room
        BY <1>1, <1>4, <1>5, <2>1, BackStraight
  <2>3. off + 1 \in off + 1 .. off + Room
        BY <1>5
  <2> QED BY <1>2, <2>2, <2>3
<1>11. 1 \notin {Inserted, Garbage} /\ Magnitude(1) = 1
      BY DEF Inserted, Garbage, Magnitude
<1>12. 1 \in Kept /\ off + 1 \in Kept /\ 1 < off + 1
      BY <1>5, <1>8, <1>9, <1>10, <1>11 DEF Kept, Begins
<1>13. ~(Magnitude(got[1]) < Magnitude(got[off + 1]))
      BY <1>8, <1>9, <1>10, <1>11 DEF Begins
<1> QED BY <1>12, <1>13 DEF InOrder

\* Once it has all arrived, a second half that replace_payload() refused has always
\* spoilt the order, in whatever order it arrived (packet.cpp:215): what the violation of
\* ServerGetsOriginal shows of one segment is so of each.
THEOREM RefusedSpoilsOrder == Spec => [](SecondHalfRefused /\ Arrived => ~InOrder)
BY NetInvariant, RefusedIsTwice, PTL DEF Inv

\* The server has the client's bytes in the client's order, with no random one but that
\* of oob, which can only take the place of the first; but for a refused second half and
\* a short next segment in front of a longer tls-frag (strategy.cpp:112-540).
THEOREM OrderIsKept == Spec => []StreamInOrder
<1>1. ASSUME Ctx, QueueInv, Typed, NetInv
      PROVE  StreamInOrder
  <2>1. CASE sent = <<>>
    <3>1. got = <<>>
          BY <1>1, <2>1 DEF NetInv
    <3>2. DOMAIN got = {}
          BY <3>1
    <3>3. InOrder
          BY <3>2 DEF InOrder, Kept
    <3> QED BY <3>2, <3>3 DEF StreamInOrder, NoGarbage
  <2>2. CASE sent # <<>>
    <3>1. Clean /\ \E P, G : Sending(P, G)
          BY <1>1, <2>2 DEF NetInv
    <3>2. PICK P, G : Sending(P, G)
          BY <3>1
    <3>3. \A n \in DOMAIN got : got[n] = Garbage => handled = "oob" /\ n = 1
          BY <3>1 DEF Clean, NotRandom
    <3>4. ASSUME ~SecondHalfRefused PROVE InOrder \/ ShortOvertakes
          BY <1>1, <3>1, <3>2, <3>4, StreamIsOrdered, OvertakenIsShort DEF Sending, Stream
    <3> QED BY <3>3, <3>4 DEF StreamInOrder, NoGarbage
  <2> QED BY <2>1, <2>2
<1> QED BY <1>1, NetInvariant, PTL DEF Inv
-----------------------------------------------------------------------------
(* What the server misses *)

Missing == first .. pl + nextLen \ {Magnitude(got[n]) : n \in DOMAIN got}

\* A byte of a longer segment: an inserted one, one in front of those, or one behind.
LEMMA ByteIs ==
    ASSUME NEW P \in Nat, NEW G \in Nat, NEW h, NEW n \in Nat, n >= 1,
           NEW v, Byte(n, v, P, G, h)
    PROVE  /\ n <= P /\ ~(n < Skipped(h)) => Magnitude(v) = n
           /\ P + G < n => Magnitude(v) = n - G
           /\ h # "oob" => \/ Magnitude(v) = 0
                           \/ n <= P /\ Magnitude(v) = n
                           \/ P + G < n /\ Magnitude(v) = n - G
<1>1. Magnitude(0) = 0 /\ Magnitude(n) = n /\ Magnitude(-n) = n
      BY DEF Magnitude
<1>2. ASSUME P + G < n PROVE Magnitude(v) = n - G
  <2>1. v = n - G \/ v = -(n - G)
        BY <1>2 DEF Byte
  <2>2. n - G \in Nat /\ n - G >= 1
        BY <1>2
  <2> QED BY <2>1, <2>2 DEF Magnitude
<1>3. CASE n <= P
  <2>1. v = n \/ v = -n \/ (n < Skipped(h) /\ v = Filler(h))
        BY <1>3 DEF Byte
  <2>2. h # "oob" => Filler(h) = 0
        BY DEF Filler, Inserted
  <2>3. ~(P + G < n)
        BY <1>3
  <2> QED BY <1>1, <1>3, <2>1, <2>2, <2>3
<1>4. CASE P < n /\ n <= P + G
  <2>1. v = 0 /\ ~(n <= P) /\ ~(P + G < n)
        BY <1>4 DEF Byte, Inserted
  <2> QED BY <1>1, <2>1
<1>5. CASE P + G < n
  <2>1. ~(n <= P)
        BY <1>5
  <2> QED BY <1>2, <1>5, <2>1
<1> QED BY <1>3, <1>4, <1>5

LEMMA FirstIs == first = Skipped(handled) /\ first \in 1 .. 6
BY DEF first, Skipped

LEMMA UntouchedMisses ==
    ASSUME Ctx, Clean, Untouched(got, pl, 0, handled),
           (1 .. pl) \ CutOff \subseteq DOMAIN got, NextSpan \subseteq DOMAIN got
    PROVE  Missing \ CutOff = {}
<1>1. pl \in Nat /\ nextLen \in Nat
      BY RoomIs, StrategyAssumption, Uint16 DEF Ctx
<1>2. ASSUME NEW v \in first .. pl + nextLen, v \notin CutOff
      PROVE  v \in DOMAIN got /\ Magnitude(got[v]) = v
  <2>1. v \in Nat /\ v >= 1 /\ ~(v < Skipped(handled)) /\ v <= pl + nextLen
        BY <1>1, FirstIs
  <2>2. v \in DOMAIN got
        BY <1>1, <1>2, <2>1 DEF NextSpan
  <2>3. CASE v <= pl /\ Byte(v, got[v], pl, 0, handled)
    <3>1. 0 \in Nat
          OBVIOUS
    <3>2. v <= pl /\ ~(v < Skipped(handled)) => Magnitude(got[v]) = v
          BY <1>1, <2>1, <2>3, <3>1, ByteIs
    <3> QED BY <2>1, <2>2, <2>3, <3>2
  <2>4. CASE got[v] = v
    <3>1. Magnitude(v) = v
          BY <2>1 DEF Magnitude
    <3> QED BY <2>2, <2>4, <3>1
  <2> QED BY <2>2, <2>3, <2>4 DEF Untouched
<1> QED BY <1>2 DEF Missing

LEMMA LengthenedMisses ==
    ASSUME Ctx, Clean, NEW P, NEW G, Sizes(P, G), G # 0, first <= P, handled # "oob",
           Lengthened(got, P, G, handled),
           1 .. pl + G \subseteq DOMAIN got, NextSpan \subseteq DOMAIN got
    PROVE  Missing \subseteq pl + 1 .. pl + Smaller(G, nextLen)
<1>1. /\ pl \in Nat /\ nextLen \in Nat /\ P \in Nat /\ G \in Nat /\ P < pl /\ G >= 1
      /\ first = Skipped(handled) /\ first \in 1 .. 6
      BY RoomIs, StrategyAssumption, Uint16, FirstIs DEF Ctx, Sizes
<1>2. ASSUME NEW n \in DOMAIN got
      PROVE  /\ n \in Nat /\ n >= 1
             /\ \/ n <= pl + G /\ Byte(n, got[n], P, G, handled)
                \/ pl + G < n /\ Magnitude(got[n]) = n
  <2>1. n \in Nat /\ n >= 1
        BY DEF Clean, NotRandom
  <2>2. got[n] = n => Magnitude(got[n]) = n
        BY <2>1 DEF Magnitude
  <2> QED BY <2>1, <2>2 DEF Lengthened
<1>3. ASSUME NEW v \in Missing PROVE v \in pl + 1 .. pl + Smaller(G, nextLen)
  <2>1. /\ v \in Nat /\ v >= first /\ v >= 1 /\ v <= pl + nextLen
        /\ \A n \in DOMAIN got : Magnitude(got[n]) # v
        BY <1>1 DEF Missing
  <2>2. ~(v <= P)
    <3> SUFFICES ASSUME v <= P PROVE FALSE
        OBVIOUS
    <3>1. v \in DOMAIN got /\ ~(v < Skipped(handled)) /\ v <= pl + G
          BY <1>1, <2>1
    <3>2. Byte(v, got[v], P, G, handled)
          BY <1>1, <1>2, <2>1, <3>1
    <3> QED BY <1>1, <2>1, <3>1, <3>2, ByteIs
  <2>3. ~(v <= pl)
    <3> SUFFICES ASSUME v <= pl PROVE FALSE
        OBVIOUS
    <3> DEFINE n == v + G
    <3>1. n \in 1 .. pl + G /\ P + G < n /\ n - G = v /\ n <= pl + G /\ n \in Nat /\ n >= 1
          BY <1>1, <2>1, <2>2
    <3> HIDE DEF n
    <3>2. Byte(n, got[n], P, G, handled)
          BY <1>1, <1>2, <3>1
    <3> QED BY <1>1, <2>1, <3>1, <3>2, ByteIs
  <2>4. v <= pl + G
    <3> SUFFICES ASSUME ~(v <= pl + G) PROVE FALSE
        OBVIOUS
    <3>1. v \in NextSpan
          BY <1>1, <2>1 DEF NextSpan
    <3> QED BY <1>2, <2>1, <3>1
  <2> QED BY <1>1, <2>1, <2>3, <2>4 DEF Smaller
<1> QED BY <1>3

LEMMA OvertakenMisses ==
    ASSUME Ctx, Clean, NEW P, NEW G, Sizes(P, G), G # 0, first <= P, handled # "oob",
           Overtaken(got, P, G, handled),
           1 .. pl + G \subseteq DOMAIN got, NextSpan \subseteq DOMAIN got
    PROVE  Missing \subseteq pl - G + 1 .. pl - G + Smaller(G, nextLen)
<1>1. /\ pl \in Nat /\ nextLen \in Nat /\ P \in Nat /\ G \in Nat /\ P < pl /\ G >= 1
      /\ first = Skipped(handled) /\ first \in 1 .. 6
      BY RoomIs, StrategyAssumption, Uint16, FirstIs DEF Ctx, Sizes
<1>2. ASSUME NEW n \in DOMAIN got
      PROVE  /\ n \in Nat /\ n >= 1
             /\ \/ /\ n <= pl + G /\ (n <= pl \/ pl + nextLen < n)
                   /\ Byte(n, got[n], P, G, handled)
                \/ pl < n /\ n <= pl + nextLen /\ Magnitude(got[n]) = n
  <2>1. n \in Nat /\ n >= 1
        BY DEF Clean, NotRandom
  <2>2. got[n] = n => Magnitude(got[n]) = n
        BY <2>1 DEF Magnitude
  <2>3. n \in NextSpan <=> pl < n /\ n <= pl + nextLen
        BY <1>1, <2>1 DEF NextSpan
  <2>4. n \notin NextSpan => n <= pl \/ pl + nextLen < n
        BY <1>1, <2>1, <2>3
  <2> QED BY <2>1, <2>2, <2>3, <2>4 DEF Overtaken
<1>3. ASSUME NEW v \in Missing PROVE v \in pl - G + 1 .. pl - G + Smaller(G, nextLen)
  <2>1. /\ v \in Nat /\ v >= first /\ v >= 1 /\ v <= pl + nextLen
        /\ \A n \in DOMAIN got : Magnitude(got[n]) # v
        BY <1>1 DEF Missing
  <2>2. ~(v <= P)
    <3> SUFFICES ASSUME v <= P PROVE FALSE
        OBVIOUS
    <3>1. v \in DOMAIN got /\ ~(v < Skipped(handled)) /\ v <= pl
          BY <1>1, <2>1
    <3>2. Byte(v, got[v], P, G, handled)
          BY <1>1, <1>2, <2>1, <3>1
    <3> QED BY <1>1, <2>1, <3>1, <3>2, ByteIs
  <2>3. v <= pl
    <3> SUFFICES ASSUME ~(v <= pl) PROVE FALSE
        OBVIOUS
    <3>1. v \in NextSpan
          BY <1>1, <2>1 DEF NextSpan
    <3> QED BY <1>1, <1>2, <2>1, <3>1
  <2> DEFINE n == v + G
  <2>4. n \in 1 .. pl + G /\ P + G < n /\ n - G = v /\ n <= pl + G /\ n \in Nat /\ n >= 1
        BY <1>1, <2>1, <2>2, <2>3
  <2> HIDE DEF n
  <2>5. ~Byte(n, got[n], P, G, handled)
        BY <1>1, <2>1, <2>4, ByteIs
  <2>6. pl < n /\ n <= pl + nextLen
        BY <1>2, <2>4, <2>5
  <2> QED BY <1>1, <2>1, <2>3, <2>4, <2>6 DEF Smaller
<1> QED BY <1>3

\* No more bytes are missed than were added and cut off.
Short(G) == Cardinality(Missing \ CutOff) <= Smaller(G, nextLen)

LEMMA MissesAre ==
    ASSUME Ctx, QueueInv, Typed, NetInv, Arrived, ~SecondHalfRefused,
           ~(Extended /\ handled # NoName)
    PROVE  Short(Growth) /\ (Growth = 0 \/ Longer(Growth, handled))
<1>1. CutOff = CutBy(handled)
      BY DEF CutOff, CutBy
<1>2. sent # <<>>
      BY DEF Arrived
<1>3. Clean
      BY <1>2 DEF NetInv
<1>4. PICK P, G : Sending(P, G)
      BY <1>2 DEF NetInv
<1>5. /\ Replaces(Replacement, P, G, handled) /\ Sizes(P, G) /\ Stream(P, G)
      BY <1>4 DEF Sending
<1>6. /\ pl \in Nat /\ nextLen \in Nat /\ nextLen >= 1 /\ P \in Nat /\ G \in Nat
      BY <1>5, RoomIs, StrategyAssumption, Uint16 DEF Ctx, Sizes
<1>7. /\ \A n \in 1 .. pl + G : G # 0 \/ n \notin CutOff => n \in DOMAIN got
      /\ NextSpan \subseteq DOMAIN got
  <2>1. \A n \in 1 .. pl + G : G # 0 \/ n \notin CutOff => Covered(Replacement, n)
        BY <1>1, <1>5 DEF Replaces
  <2> QED BY <2>1, ArrivedIs DEF Covered
<1>8. CASE G = 0
  <2>1. P = pl /\ Untouched(got, pl, 0, handled)
        BY <1>5, <1>8 DEF Sizes, Stream, Grown
  <2>2. (1 .. pl) \ CutOff \subseteq DOMAIN got
        BY <1>6, <1>7, <1>8
  <2>3. Missing \ CutOff = {}
        BY <1>3, <1>7, <2>1, <2>2, UntouchedMisses
  <2>4. Growth = 0
    <3>1. \A k \in DOMAIN out :
             accepted(out[k]) => End(out[k]) \in Nat /\ End(out[k]) <= pl + 0
      <4>1. CASE handled = NoName
            BY <4>1 DEF QueueInv, AllDecoys, Decoy, Rejected, accepted
      <4>2. CASE handled # NoName
        <5>1. Replaces(out, P, 0, handled) /\ 0 \in Nat
              BY <1>5, <1>8, <4>2 DEF Replacement
        <5> QED BY <5>1, EndsAre
      <4> QED BY <4>1, <4>2
    <3>2. 0 \in Nat
          OBVIOUS
    <3> QED BY <3>1, <3>2, GrowthIs
  <2> QED BY <1>6, <2>3, <2>4, FS_EmptySet DEF Short, Smaller
<1>9. CASE G # 0
  <2>1. Replacement = out /\ handled \in {"tls-frag", "http-mangle"} /\ handled # "oob"
        BY <1>5, <1>9, GrownIsLonger
  <2>2. P < pl /\ first <= P /\ Longer(G, handled)
        BY <1>5, <1>9, FirstIs DEF Replaces
  <2>3. ~(Untouched(got, P, G, handled) /\ (Resent \/ Fresh(got, P)))
    <3>1. ASSUME Fresh(got, P) PROVE FALSE
      <4>1. pl \in DOMAIN got
            BY <1>6, <1>7, <1>9, <2>2
      <4> QED BY <1>6, <2>2, <3>1, <4>1 DEF Fresh
    <3>2. ASSUME Resent PROVE FALSE
      <4>1. 1 \in DOMAIN out /\ out[1] = Original
            BY <2>1, <3>2, ArrivedIs, RepeatsItself
      <4>2. accepted(Original) /\ Original.seq = 0 /\ Len(Original.body) = pl
            BY ClientSends DEF ClientOwn
      <4>3. Class(Original, P, G, handled)
            BY <1>5, <2>1, <4>1, <4>2, PieceFits
      <4>4. End(Original) = 0 + pl
            BY <4>2 DEF End
      <4> QED BY <1>6, <1>9, <2>2, <4>3, <4>4 DEF Class
    <3> QED BY <3>1, <3>2
  <2>4. Grown(G) /\ (Lengthened(got, P, G, handled) \/ Overtaken(got, P, G, handled))
        BY <1>5, <2>3 DEF Stream
  <2>5. Growth = G
    <3>1. \A k \in DOMAIN out :
             accepted(out[k]) => End(out[k]) \in Nat /\ End(out[k]) <= pl + G
          BY <1>5, <1>6, <2>1, EndsAre
    <3> QED BY <1>6, <2>4, <3>1, GrowthIs
  <2>6. PICK a \in Int : Missing \subseteq a + 1 .. a + Smaller(G, nextLen)
    <3>0. 1 .. pl + G \subseteq DOMAIN got
          BY <1>7, <1>9
    <3>1. CASE Lengthened(got, P, G, handled)
          BY <1>3, <1>5, <1>6, <1>7, <1>9, <2>1, <2>2, <3>0, <3>1, LengthenedMisses
    <3>2. CASE Overtaken(got, P, G, handled)
      <4>1. Missing \subseteq pl - G + 1 .. pl - G + Smaller(G, nextLen)
            BY <1>3, <1>5, <1>7, <1>9, <2>1, <2>2, <3>0, <3>2, OvertakenMisses
      <4>2. pl - G \in Int
            BY <1>6
      <4> QED BY <4>1, <4>2
    <3> QED BY <2>4, <3>1, <3>2
  <2> DEFINE s == Smaller(G, nextLen)
             I == a + 1 .. a + s
  <2>7. s \in Nat
        BY <1>6 DEF Smaller
  <2> HIDE DEF s
  <2>8. IsFiniteSet(I) /\ Cardinality(I) <= s
    <3>1. a + 1 \in Int /\ a + s \in Int
          BY <2>7
    <3>2. /\ IsFiniteSet(a + 1 .. a + s)
          /\ Cardinality(a + 1 .. a + s)
               = IF a + 1 > a + s THEN 0 ELSE (a + s) - (a + 1) + 1
          BY <3>1, FS_Interval
    <3>3. (IF a + 1 > a + s THEN 0 ELSE (a + s) - (a + 1) + 1) <= s
          BY <2>7
    <3> QED BY <3>2, <3>3
  <2> DEFINE M == Missing \ CutOff
  <2>9. M \in SUBSET I
        BY <2>6 DEF s
  <2> HIDE DEF I, M
  <2>10. Cardinality(M) <= s
    <3>1. IsFiniteSet(M) /\ Cardinality(M) <= Cardinality(I)
          BY <2>8, <2>9, FS_Subset
    <3>2. Cardinality(M) \in Nat /\ Cardinality(I) \in Nat
          BY <2>8, <3>1, FS_CardinalityType
    <3> QED BY <2>7, <2>8, <3>1, <3>2
  <2>11. Short(G)
        BY <2>10 DEF Short, s, M
  <2> QED BY <2>2, <2>5, <2>11
<1> QED BY <1>8, <1>9

\* A handled segment is replaced by all of itself, but for as many bytes as tls-frag and
\* http-mangle add to it, and what does not fit into a builder (strategy.hpp:81-84).
THEOREM AllIsSent == Spec => []NothingMissing
<1>1. ASSUME Ctx, QueueInv, Typed, NetInv
      PROVE  NothingMissing
  <2> SUFFICES ASSUME Arrived, ~SecondHalfRefused, ~(Extended /\ handled # NoName)
               PROVE  /\ Cardinality(Missing \ CutOff) <= Smaller(Growth, nextLen)
                      /\ Growth <= (CASE handled = "tls-frag"    -> 5
                                      [] handled = "http-mangle" -> 1
                                      [] OTHER                   -> 0)
      BY DEF NothingMissing, Missing
  <2>1. Short(Growth) /\ (Growth = 0 \/ Longer(Growth, handled))
        BY <1>1, MissesAre
  <2>2. \/ Growth = 0
        \/ Growth = 5 /\ handled = "tls-frag"
        \/ Growth = 1 /\ handled = "http-mangle"
        BY <2>1 DEF Longer
  <2>3. Growth <= (CASE handled = "tls-frag"    -> 5
                     [] handled = "http-mangle" -> 1
                     [] OTHER                   -> 0)
        BY <2>2
  <2> QED BY <2>1, <2>3 DEF Short
<1> QED BY <1>1, NetInvariant, PTL DEF Inv
=============================================================================
