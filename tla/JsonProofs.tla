------------------------------ MODULE JsonProofs ------------------------------
(***************************************************************************)
(* Proofs about Json for texts of any length over all of Unicode: what the *)
(* writer makes of a text, and what the reader makes of that.              *)
(***************************************************************************)
EXTENDS Json, WellFoundedInduction, SequenceTheorems, TLAPS

(***************************************************************************)
(* Induction over the natural numbers, stated with a set, and definitions  *)
(* by recursion towards the end of a sequence                              *)
(***************************************************************************)
LEMMA LessThan == OpToRel(<, Nat) = {ss \in Nat \X Nat : ss[1] < ss[2]}
BY Zenon DEF OpToRel

LEMMA Induction ==
  ASSUME NEW n \in Nat, NEW T, 0 \in T, \A k \in 1 .. n : k - 1 \in T => k \in T
  PROVE  0 .. n \subseteq T
<1> DEFINE R == {ss \in Nat \X Nat : ss[1] < ss[2]}
           Rest == {k \in 0 .. n : k \notin T}
<1>1. IsWellFoundedOn(R, Nat)
  BY NatLessThanWellFounded, LessThan, Zenon
<1>2. ASSUME Rest # {} PROVE FALSE
  <2>1. Rest \in SUBSET Nat
    OBVIOUS
  <2>2. PICK k \in Rest : \A j \in Rest : ~(<<j, k>> \in R)
    <3> HIDE DEF R, Rest
    <3> QED BY <1>1, <1>2, <2>1, WFMin, Zenon
  <2>3. k \in 1 .. n /\ k - 1 \in 0 .. n /\ k \notin T
    BY <2>2
  <2>4. ~(<<k - 1, k>> \notin R)
    BY <2>3
  <2>5. k - 1 \notin Rest
    <3> HIDE DEF R, Rest
    <3> QED BY <2>2, <2>4
  <2> QED BY <2>3, <2>5
<1> QED BY <1>2

\* What holds of a place as soon as it holds of all later ones.
LEMMA Downward ==
  ASSUME NEW lo \in Int, NEW hi \in Int, NEW T,
         \A q \in lo .. hi : (q + 1 .. hi \subseteq T) => q \in T
  PROVE  lo .. hi \subseteq T
<1>1. CASE hi < lo
  BY <1>1
<1>2. CASE lo <= hi
  <2> DEFINE U == {m \in 0 .. hi - lo : hi - m .. hi \subseteq T}
  <2>1. 0 \in U
    <3>1. hi + 1 .. hi \subseteq T
      OBVIOUS
    <3> QED BY <1>2, <3>1
  <2>2. ASSUME NEW m \in 1 .. hi - lo, m - 1 \in U PROVE m \in U
    <3>1. (hi - m) + 1 .. hi \subseteq T
      BY <2>2
    <3>2. hi - m \in lo .. hi /\ hi - m \in T
      BY <3>1
    <3> QED BY <3>1, <3>2
  <2>3. hi - lo \in Nat
    BY <1>2
  <2>4. 0 .. hi - lo \subseteq U
    <3> HIDE DEF U
    <3> QED BY <2>1, <2>2, <2>3, Induction
  <2>5. hi - (hi - lo) .. hi \subseteq T
    BY <2>3, <2>4
  <2> QED BY <2>5
<1> QED BY <1>1, <1>2

\* f goes on with its value at a later place, next[q], unless q is not in Go.
Leads(lo, hi, S, Go, next, base, step) ==
  \A q \in lo .. hi :
    /\ q \in Go => next[q] \in q + 1 .. hi /\ \A v \in S : step[q][v] \in S
    /\ q \notin Go => base[q] \in S
Follows(f, lo, hi, Go, next, base, step) ==
  \A q \in lo .. hi : f[q] = IF q \in Go THEN step[q][f[next[q]]] ELSE base[q]

LEMMA Jumps ==
  ASSUME NEW lo \in Int, NEW hi \in Int, lo <= hi, NEW S, NEW Go, NEW next, NEW base, NEW step,
         Leads(lo, hi, S, Go, next, base, step)
  PROVE  \E f \in [lo .. hi -> S] : Follows(f, lo, hi, Go, next, base, step)
<1> USE DEF Leads
<1> DEFINE Fits(f, q) == f[q] = IF q \in Go THEN step[q][f[next[q]]] ELSE base[q]
           Defined(a) == \E f \in [a .. hi -> S] : \A q \in a .. hi : Fits(f, q)
           T == {m \in 0 .. hi - lo : Defined(hi - m)}
<1>1. 0 \in T
  <2>1. hi \notin Go /\ base[hi] \in S
    OBVIOUS
  <2>2. [q \in hi .. hi |-> base[hi]] \in [hi .. hi -> S]
    BY <2>1
  <2>3. \A q \in hi .. hi : Fits([x \in hi .. hi |-> base[hi]], q)
    BY <2>1
  <2>4. Defined(hi - 0)
    BY <2>2, <2>3
  <2> QED BY <2>4
<1>2. ASSUME NEW m \in 1 .. hi - lo, m - 1 \in T PROVE m \in T
  <2> DEFINE a == hi - m
  <2>1. a \in lo .. hi - 1 /\ hi - (m - 1) = a + 1 /\ a \in Int
    OBVIOUS
  <2>2. PICK f \in [a + 1 .. hi -> S] : \A q \in a + 1 .. hi : Fits(f, q)
    BY <1>2, <2>1
  <2> HIDE DEF a
  <2> DEFINE v == IF a \in Go THEN step[a][f[next[a]]] ELSE base[a]
             g == [q \in a .. hi |-> IF q = a THEN v ELSE f[q]]
  <2>3. v \in S
    <3>1. CASE a \in Go
      <4>1. f[next[a]] \in S
        BY <2>1, <3>1
      <4> QED BY <2>1, <3>1, <4>1
    <3> QED BY <2>1, <3>1
  <2>4. g \in [a .. hi -> S]
    BY <2>1, <2>3
  <2>5. ASSUME NEW q \in a .. hi PROVE Fits(g, q)
    <3>1. q \in Go => g[next[q]] = f[next[q]]
      BY <2>1
    <3>2. CASE q = a
      BY <3>1, <3>2, <2>1
    <3>3. CASE q # a
      <4>1. q \in a + 1 .. hi /\ g[q] = f[q]
        BY <2>1, <3>3
      <4> QED BY <2>2, <3>1, <4>1
    <3> QED BY <3>2, <3>3
  <2>6. Defined(a)
    <3> HIDE DEF g
    <3> QED BY <2>4, <2>5
  <2> QED BY <2>6 DEF a
<1>3. 0 .. hi - lo \subseteq T
  <2> HIDE DEF T
  <2> QED BY <1>1, <1>2, Induction
<1>4. hi - lo \in T /\ hi - (hi - lo) = lo
  <2> HIDE DEF T
  <2> QED BY <1>3
<1>5. Defined(hi - (hi - lo))
  BY <1>4, Zenon
<1> HIDE DEF Fits
<1>6. Defined(lo)
  BY <1>4, <1>5
<1> QED BY <1>6 DEF Fits, Follows

-----------------------------------------------------------------------------
(* Texts put together from pieces.                                         *)

Bytes == Seq(Nat)

JoinedFrom(ps) ==
  LET from[i \in 1 .. Len(ps) + 1] == IF i > Len(ps) THEN <<>> ELSE ps[i] \o from[i + 1]
  IN from
Joined(ps) == JoinedFrom(ps)[1]

LEMMA JoinedFacts ==
  ASSUME NEW ps \in Seq(Bytes)
  PROVE  /\ JoinedFrom(ps) \in [1 .. Len(ps) + 1 -> Bytes]
         /\ JoinedFrom(ps)[Len(ps) + 1] = <<>>
         /\ \A i \in 1 .. Len(ps) : JoinedFrom(ps)[i] = ps[i] \o JoinedFrom(ps)[i + 1]
<1> DEFINE lo == 1
           n == Len(ps) + 1
           Go == 1 .. Len(ps)
           next == [i \in lo .. n |-> i + 1]
           base == [i \in lo .. n |-> <<>>]
           step == [i \in lo .. n |-> [v \in Bytes |-> ps[i] \o v]]
           Is(f) == f = [i \in lo .. n |-> IF i > Len(ps) THEN <<>> ELSE ps[i] \o f[i + 1]]
<1>1. lo = 1 /\ n = Len(ps) + 1 /\ Len(ps) \in Nat /\ n \in Int /\ lo \in Int /\ lo <= n
  OBVIOUS
<1>2. /\ \A i \in lo .. n : i \in Go <=> ~(i > Len(ps))
      /\ \A i \in lo .. n : i \in Go => next[i] = i + 1 /\ i + 1 \in i + 1 .. n
      /\ \A i \in lo .. n : base[i] = <<>> /\ <<>> \in Bytes
  BY DEF Bytes
<1>3. \A i \in lo .. n : i \in Go => \A v \in Bytes : step[i][v] = ps[i] \o v /\ ps[i] \o v \in Bytes
  <2>1. \A i \in Go : ps[i] \in Bytes
    OBVIOUS
  <2> QED BY <2>1 DEF Bytes
<1> HIDE DEF lo, n, Go, next, base, step
<1>4. PICK f \in [lo .. n -> Bytes] :
        Follows(f, lo, n, Go, next, base, step)
  <2>1. Leads(lo, n, Bytes, Go, next, base, step)
    BY <1>2, <1>3, Zenon DEF Leads
  <2> QED BY <1>1, <2>1, Jumps
<1>5. ASSUME NEW i \in lo .. n
      PROVE f[i] = IF i > Len(ps) THEN <<>> ELSE ps[i] \o f[i + 1]
  <2>1. CASE i > Len(ps)
    BY <1>2, <1>4, <2>1, Zenon DEF Follows
  <2>2. CASE ~(i > Len(ps))
    <3>1. i \in Go /\ next[i] = i + 1 /\ i + 1 \in i + 1 .. n
      BY <1>2, <2>2, Zenon
    <3>2. f[i + 1] \in Bytes
      BY <1>1, <3>1
    <3>3. step[i][f[i + 1]] = ps[i] \o f[i + 1]
      BY <1>3, <3>1, <3>2, Zenon
    <3> QED BY <1>4, <2>2, <3>1, <3>3, Zenon DEF Follows
  <2> QED BY <2>1, <2>2, Zenon
<1>6. Is(f)
  <2>1. f = [i \in lo .. n |-> f[i]]
    OBVIOUS
  <2> QED BY <1>5, <2>1
<1>7. JoinedFrom(ps) = CHOOSE g : Is(g)
  BY DEF JoinedFrom, n, lo
<1> DEFINE J == JoinedFrom(ps)
<1>8. Is(J)
  <2> HIDE DEF Is
  <2> QED BY <1>6, <1>7
<1>9. \A i \in lo .. n : J[i] = IF i > Len(ps) THEN <<>> ELSE ps[i] \o J[i + 1]
  <2> HIDE DEF J
  <2> QED BY <1>8, Zenon
<1>10. \A i \in lo .. n : J[i] = f[i]
  <2> DEFINE T == {i \in lo .. n : J[i] = f[i]}
  <2> HIDE DEF J
  <2>1. ASSUME NEW i \in lo .. n, i + 1 .. n \subseteq T PROVE i \in T
    <3>1. ~(i > Len(ps)) => i + 1 \in i + 1 .. n
      BY <1>1
    <3>2. J[i] = f[i]
      BY <1>5, <1>9, <2>1, <3>1, Zenon
    <3> QED BY <3>2
  <2> HIDE DEF T
  <2>2. lo .. n \subseteq T
    BY <1>1, <2>1, Downward, Zenon
  <2> QED BY <2>2 DEF T
<1>11. J \in [lo .. n -> Bytes]
  <2>1. J = [i \in lo .. n |-> J[i]]
    BY <1>8
  <2> HIDE DEF J
  <2> QED BY <1>10, <2>1
<1> HIDE DEF J
<1>12. J[n] = <<>> /\ \A i \in 1 .. Len(ps) : J[i] = ps[i] \o J[i + 1]
  <2>1. n \in lo .. n /\ n > Len(ps) /\ \A i \in 1 .. Len(ps) : i \in lo .. n /\ ~(i > Len(ps))
    BY <1>1
  <2> QED BY <1>9, <2>1, Zenon
<1> QED BY <1>1, <1>11, <1>12 DEF J

\* r is s and then t.
Glued(r, s, t) ==
  /\ r \in Bytes /\ Len(s) \in Nat /\ Len(t) \in Nat /\ Len(r) = Len(s) + Len(t)
  /\ \A k \in 1 .. Len(s) : r[k] = s[k]
  /\ \A k \in 1 .. Len(t) : r[Len(s) + k] = t[k]

LEMMA Put ==
  ASSUME NEW s \in Bytes, NEW t \in Bytes, NEW r, r = s \o t
  PROVE  Glued(r, s, t)
BY DEF Bytes, Glued

\* Of t, b[i] bytes come before the i-th of the pieces p, and nothing after the n-th.
Cut(b, n, p, t) ==
  /\ b \in [1 .. n + 1 -> Nat] /\ b[1] = 0 /\ b[n + 1] = Len(t)
  /\ \A i \in 1 .. n :
       /\ b[i + 1] = b[i] + Len(p[i]) /\ b[i + 1] <= Len(t)
       /\ \A k \in 1 .. Len(p[i]) : t[b[i] + k] = p[i][k]
Cuts(b, ps) == Cut(b, Len(ps), ps, Joined(ps))

\* The j that are put together from the p, from the last backwards.
LEMMA CutsOf ==
  ASSUME NEW n \in Nat, NEW p, NEW j, \A i \in 1 .. n + 1 : Len(j[i]) \in Nat, Len(j[n + 1]) = 0,
         \A i \in 1 .. n : Glued(j[i], p[i], j[i + 1])
  PROVE  \E b : Cut(b, n, p, j[1])
<1> DEFINE l == [i \in 1 .. n + 1 |-> Len(j[i])]
           w == [i \in 1 .. n |-> Len(p[i])]
           t == j[1]
<1>1. l \in [1 .. n + 1 -> Nat] /\ l[n + 1] = 0 /\ w \in [1 .. n -> Nat]
  BY DEF Glued
<1>2. ASSUME NEW i \in 1 .. n
      PROVE  /\ l[i] = w[i] + l[i + 1] /\ w[i] = Len(p[i])
             /\ \A k \in 1 .. w[i] : j[i][k] = p[i][k]
             /\ \A k \in 1 .. l[i + 1] : j[i][w[i] + k] = j[i + 1][k]
  <2>1. l[i] = Len(j[i]) /\ w[i] = Len(p[i]) /\ l[i + 1] = Len(j[i + 1])
    OBVIOUS
  <2> HIDE DEF l, w
  <2> QED BY <2>1 DEF Glued
<1>3. l[1] = Len(t)
  OBVIOUS
<1> HIDE DEF l, w
<1> DEFINE Ends(i) == l[i] <= l[1] /\ \A k \in 1 .. l[i] : t[(l[1] - l[i]) + k] = j[i][k]
           T == {m \in 0 .. n : Ends(m + 1)}
<1>4. 0 .. n \subseteq T
  <2>1. 0 \in T
    BY <1>1
  <2>2. ASSUME NEW m \in 1 .. n, m - 1 \in T PROVE m \in T
    <3>1. Ends(m)
      BY <2>2
    <3>2. l[m] \in Nat /\ l[m + 1] \in Nat /\ w[m] \in Nat /\ l[1] \in Nat /\ l[m] = w[m] + l[m + 1]
      BY <1>1, <1>2
    <3>3. ASSUME NEW k \in 1 .. l[m + 1] PROVE t[(l[1] - l[m + 1]) + k] = j[m + 1][k]
      <4>a. w[m] + k \in 1 .. l[m]
        BY <3>2
      <4>b. l[1] - l[m + 1] = (l[1] - l[m]) + w[m]
        BY <3>2
      <4>1. w[m] + k \in 1 .. l[m] /\ (l[1] - l[m + 1]) + k = (l[1] - l[m]) + (w[m] + k)
        BY <3>2, <4>a, <4>b
      <4>2. t[(l[1] - l[m]) + (w[m] + k)] = j[m][w[m] + k]
        BY <3>1, <4>1
      <4>3. j[m][w[m] + k] = j[m + 1][k]
        BY <1>2
      <4> QED BY <4>1, <4>2, <4>3
    <3>4. Ends(m + 1)
      BY <3>1, <3>2, <3>3
    <3> HIDE DEF Ends
    <3> QED BY <3>4
  <2> HIDE DEF T
  <2> QED BY <2>1, <2>2, Induction
<1>5. ASSUME NEW i \in 1 .. n + 1 PROVE Ends(i)
  <2>1. i - 1 \in 0 .. n /\ (i - 1) + 1 = i
    OBVIOUS
  <2>2. i - 1 \in T
    BY <1>4, <2>1
  <2> HIDE DEF Ends
  <2>3. Ends((i - 1) + 1)
    BY <2>2
  <2> QED BY <2>1, <2>3
<1> DEFINE b == [i \in 1 .. n + 1 |-> l[1] - l[i]]
<1>6. b \in [1 .. n + 1 -> Nat] /\ b[1] = 0 /\ b[n + 1] = l[1]
  BY <1>1, <1>5
<1>7. ASSUME NEW i \in 1 .. n
      PROVE  /\ b[i + 1] = b[i] + w[i] /\ b[i + 1] <= l[1]
             /\ \A k \in 1 .. w[i] : t[b[i] + k] = p[i][k]
  <2>1. b[i] = l[1] - l[i] /\ b[i + 1] = l[1] - l[i + 1]
    OBVIOUS
  <2>2. l[i] \in Nat /\ l[i + 1] \in Nat /\ w[i] \in Nat /\ l[1] \in Nat /\ l[i] = w[i] + l[i + 1]
    BY <1>1, <1>2
  <2>3. Ends(i)
    BY <1>5
  <2> HIDE DEF b
  <2>4. ASSUME NEW k \in 1 .. w[i] PROVE t[b[i] + k] = p[i][k]
    <3>1. k \in 1 .. l[i]
      BY <2>2
    <3>2. t[b[i] + k] = j[i][k]
      BY <2>1, <2>3, <3>1
    <3> QED BY <1>2, <3>2
  <2> QED BY <2>1, <2>2, <2>4
<1> HIDE DEF b
<1>8. b[n + 1] = Len(t)
  BY <1>3, <1>6
<1>9. ASSUME NEW i \in 1 .. n
      PROVE  /\ b[i + 1] = b[i] + Len(p[i]) /\ b[i + 1] <= Len(t)
             /\ \A k \in 1 .. Len(p[i]) : t[b[i] + k] = p[i][k]
  <2>1. w[i] = Len(p[i])
    BY <1>2
  <2> QED BY <1>3, <1>7, <2>1
<1>10. Cut(b, n, p, t)
  BY <1>6, <1>8, <1>9 DEF Cut
<1> QED BY <1>10

LEMMA Places ==
  ASSUME NEW ps \in Seq(Bytes)
  PROVE  \E b : Cuts(b, ps)
<1> DEFINE J == JoinedFrom(ps)
           n == Len(ps)
<1>1. n \in Nat /\ \A i \in 1 .. n : ps[i] \in Bytes
  OBVIOUS
<1>2. /\ \A i \in 1 .. n + 1 : J[i] \in Bytes
      /\ J[n + 1] = <<>> /\ \A i \in 1 .. n : J[i] = ps[i] \o J[i + 1]
  BY JoinedFacts
<1>3. Joined(ps) = J[1]
  BY DEF Joined
<1> HIDE DEF n, J
<1>4. \A i \in 1 .. n + 1 : Len(J[i]) \in Nat
  BY <1>2 DEF Bytes
<1>5. ASSUME NEW i \in 1 .. n PROVE Glued(J[i], ps[i], J[i + 1])
  <2>1. i + 1 \in 1 .. n + 1
    BY <1>1
  <2>2. ps[i] \in Bytes /\ J[i + 1] \in Bytes /\ J[i] = ps[i] \o J[i + 1]
    BY <1>1, <1>2, <2>1
  <2> QED BY <2>2, Put
<1>6. Len(J[n + 1]) = 0
  BY <1>2
<1>7. PICK b : Cut(b, n, ps, J[1])
  BY <1>1, <1>4, <1>5, <1>6, CutsOf
<1>8. Cuts(b, ps)
  BY <1>3, <1>7 DEF n, Cuts
<1> QED BY <1>8

-----------------------------------------------------------------------------
(* Digits.                                                                 *)

Powers == {2, 4, 16, 32, 64, 256, 1024, 4096, 65536, 262144}

LEMMA Divided ==
  ASSUME NEW n \in Nat, NEW k \in Powers
  PROVE  n \div k \in Nat /\ n % k \in 0 .. k - 1 /\ n = k * (n \div k) + (n % k)
BY DEF Powers

LEMMA Undivided ==
  ASSUME NEW a \in Nat, NEW b \in Nat, NEW k \in Powers, NEW c \in 0 .. k - 1, a = k * b + c
  PROVE  a \div k = b /\ a % k = c
BY DEF Powers

LEMMA Quarters ==
  ASSUME NEW n \in Nat
  PROVE  /\ n = 4096 * (n \div 4096) + 256 * ((n \div 256) % 16) + 16 * ((n \div 16) % 16) + (n % 16)
         /\ (n \div 256) % 16 \in 0 .. 15 /\ (n \div 16) % 16 \in 0 .. 15 /\ n % 16 \in 0 .. 15
<1> DEFINE a == n \div 16
           b == n \div 256
           c == n \div 4096
<1>1. /\ a \in Nat /\ b \in Nat /\ c \in Nat /\ n % 16 \in 0 .. 15 /\ n = 16 * a + (n % 16)
      /\ 256 * b <= n /\ n < 256 * b + 256 /\ 4096 * c <= n /\ n < 4096 * c + 4096
  OBVIOUS
<1> HIDE DEF a, b, c
<1>2. 16 * b <= a /\ a < 16 * b + 16 /\ 16 * c <= b /\ b < 16 * c + 16
  BY <1>1
<1>3. a = 16 * b + (a % 16) /\ b = 16 * c + (b % 16) /\ a % 16 \in 0 .. 15 /\ b % 16 \in 0 .. 15
  BY <1>1, <1>2
<1>4. n = 4096 * c + 256 * (b % 16) + 16 * (a % 16) + (n % 16)
  BY <1>1, <1>3
<1> QED BY <1>1, <1>3, <1>4 DEF a, b, c

LEMMA Sixths ==
  ASSUME NEW n \in Nat
  PROVE  /\ n = 262144 * (n \div 262144) + 4096 * ((n \div 4096) % 64) + 64 * ((n \div 64) % 64) + (n % 64)
         /\ n = 4096 * (n \div 4096) + 64 * ((n \div 64) % 64) + (n % 64)
         /\ n = 64 * (n \div 64) + (n % 64)
         /\ n \div 262144 \in Nat /\ n \div 4096 \in Nat /\ n \div 64 \in Nat
         /\ (n \div 4096) % 64 \in 0 .. 63 /\ (n \div 64) % 64 \in 0 .. 63 /\ n % 64 \in 0 .. 63
<1> DEFINE a == n \div 64
           b == n \div 4096
           c == n \div 262144
<1>1. /\ a \in Nat /\ b \in Nat /\ c \in Nat /\ n % 64 \in 0 .. 63 /\ n = 64 * a + (n % 64)
      /\ 4096 * b <= n /\ n < 4096 * b + 4096 /\ 262144 * c <= n /\ n < 262144 * c + 262144
  OBVIOUS
<1> HIDE DEF a, b, c
<1>2. 64 * b <= a /\ a < 64 * b + 64 /\ 64 * c <= b /\ b < 64 * c + 64
  BY <1>1
<1>3. a = 64 * b + (a % 64) /\ b = 64 * c + (b % 64) /\ a % 64 \in 0 .. 63 /\ b % 64 \in 0 .. 63
  BY <1>1, <1>2
<1> DEFINE x == n % 64
           y == a % 64
           z == b % 64
<1>4. /\ x \in 0 .. 63 /\ y \in 0 .. 63 /\ z \in 0 .. 63
      /\ n = 64 * a + x /\ a = 64 * b + y /\ b = 64 * c + z
  BY <1>1, <1>3
<1> HIDE DEF x, y, z
<1>5. n = 4096 * b + 64 * y + x /\ n = 262144 * c + 4096 * z + 64 * y + x
  BY <1>1, <1>4
<1> QED BY <1>1, <1>4, <1>5 DEF a, b, c, x, y, z

-----------------------------------------------------------------------------
(* What the writer sees of a character in a text.                          *)

\* The characters, without NUL and the first halves of surrogate pairs.
Character == {cp \in Nat : 0 < cp /\ cp < 1114112 /\ ~(55295 < cp /\ cp < 56320)}
Seen(cp) == IF cp < 57343 \/ (65536 <= cp /\ cp < 262144) THEN cp
            ELSE IF cp < 65536 THEN 65533
            ELSE 16777216 * (cp \div 262144) + (cp % 262144)

LEMMA Utf8Bytes ==
  ASSUME NEW cp \in Nat
  PROVE  /\ cp <= 127 => UTF8(cp) = <<cp>>
         /\ 128 <= cp /\ cp <= 2047 => UTF8(cp) = <<192 + (cp \div 64), SixBits(cp, 1)>>
         /\ 2048 <= cp /\ cp <= 65535 =>
              UTF8(cp) = <<224 + (cp \div 4096), SixBits(cp, 64), SixBits(cp, 1)>>
         /\ 65536 <= cp /\ cp <= 1114111 =>
              UTF8(cp) = <<240 + (cp \div 262144), SixBits(cp, 4096), SixBits(cp, 64), SixBits(cp, 1)>>
<1>1. CASE cp <= 127
  BY <1>1 DEF UTF8
<1>2. CASE 128 <= cp /\ cp <= 2047
  BY <1>2 DEF UTF8
<1>3. CASE 2048 <= cp /\ cp <= 65535
  BY <1>3 DEF UTF8
<1>4. CASE 65536 <= cp /\ cp <= 1114111
  BY <1>4 DEF UTF8
<1> QED BY <1>1, <1>2, <1>3, <1>4

LEMMA SixBitsAre ==
  ASSUME NEW cp \in Nat
  PROVE  /\ SixBits(cp, 1) = 128 + (cp % 64)
         /\ SixBits(cp, 64) = 128 + ((cp \div 64) % 64)
         /\ SixBits(cp, 4096) = 128 + ((cp \div 4096) % 64)
<1>1. cp \div 1 = cp
  OBVIOUS
<1> QED BY <1>1 DEF SixBits, Low

LEMMA LowBits ==
  /\ \A c \in 0 .. 63 : Low(128 + c, 64) = c
  /\ \A a \in 0 .. 31 : Low(192 + a, 32) = a
  /\ \A a \in 0 .. 15 : Low(224 + a, 16) = a
  /\ \A a \in 0 .. 7 : Low(240 + a, 8) = a
BY DEF Low

LEMMA ByFirst ==
  ASSUME NEW s, NEW i \in Nat, s[i] \in Nat
  PROVE  /\ s[i] < 128 => Utf8ToCodepoint(s, i) = [cp |-> s[i], bytes |-> 1]
         /\ 128 <= s[i] /\ s[i] < 224 => Utf8ToCodepoint(s, i) = SeenAs(s, i, 2, 128, BitsOf(s, i, 2))
         /\ 224 <= s[i] /\ s[i] < 240 =>
              Utf8ToCodepoint(s, i) = SeenAs(s, i, 3, 2048, NoSurrogate(BitsOf(s, i, 3)))
         /\ 240 <= s[i] /\ s[i] < 248 => Utf8ToCodepoint(s, i) = SeenAs(s, i, 4, 65536, BitsOf(s, i, 4))
BY DEF Utf8ToCodepoint

LEMMA TheBits ==
  ASSUME NEW s, NEW i
  PROVE  /\ BitsOf(s, i, 2) = 64 * Low(s[i], 32) + Low(s[i + 1], 64)
         /\ BitsOf(s, i, 3) = 4096 * Low(s[i], 16) + 64 * Low(s[i + 1], 64) + Low(s[i + 2], 64)
         /\ BitsOf(s, i, 4) = 16777216 * Low(s[i], 8) + 4096 * Low(s[i + 1], 64)
                               + 64 * Low(s[i + 2], 64) + Low(s[i + 3], 64)
BY DEF BitsOf

LEMMA SeenWhole ==
  ASSUME NEW s, Len(s) \in Nat, NEW i \in Nat, NEW n \in Nat, i + n - 1 <= Len(s),
         NEW least \in Nat, NEW cp \in Nat, cp >= least
  PROVE  SeenAs(s, i, n, least, cp) = [cp |-> cp, bytes |-> n]
BY DEF SeenAs

\* The bytes of cp follow the first b of s.
StandsAt(cp, s, b) ==
  /\ b \in Nat /\ Len(s) \in Nat /\ b + Len(UTF8(cp)) <= Len(s)
  /\ \A k \in 1 .. Len(UTF8(cp)) : s[b + k] = UTF8(cp)[k]

\* What the writer takes the bytes of cp for.
SeenOf(cp, s, b) ==
  /\ Utf8ToCodepoint(s, b + 1) = [cp |-> Seen(cp), bytes |-> Len(UTF8(cp))]
  /\ s[b + 1] = UTF8(cp)[1] /\ UTF8(cp)[1] \in Nat /\ Len(UTF8(cp)) \in 1 .. 4
  /\ cp < 128 => UTF8(cp)[1] = cp
  /\ cp >= 128 => UTF8(cp)[1] >= 192

LEMMA SeenOne ==
  ASSUME NEW s, NEW cp \in Nat, NEW b, StandsAt(cp, s, b), cp <= 127
  PROVE  SeenOf(cp, s, b)
<1>1. UTF8(cp) = <<cp>>
  BY Utf8Bytes
<1>2. s[b + 1] = cp /\ Len(UTF8(cp)) = 1 /\ UTF8(cp)[1] = cp /\ b + 1 \in Nat
  BY <1>1 DEF StandsAt
<1>3. Utf8ToCodepoint(s, b + 1) = [cp |-> cp, bytes |-> 1]
  BY <1>2, ByFirst
<1>4. Seen(cp) = cp
  BY DEF Seen
<1> QED BY <1>2, <1>3, <1>4 DEF SeenOf

LEMMA SeenTwo ==
  ASSUME NEW s, NEW cp \in Nat, NEW b, StandsAt(cp, s, b), 128 <= cp, cp <= 2047
  PROVE  SeenOf(cp, s, b)
<1> DEFINE a == cp \div 64
           c == cp % 64
           i == b + 1
<1>1. UTF8(cp) = <<192 + a, 128 + c>>
  BY Utf8Bytes, SixBitsAre
<1>2. a \in Nat /\ c \in 0 .. 63 /\ cp = 64 * a + c
  BY Sixths
<1> HIDE DEF a, c
<1>3. a \in 2 .. 31
  BY <1>2
<1>4. /\ Len(UTF8(cp)) = 2 /\ UTF8(cp)[1] = 192 + a /\ b \in Nat /\ Len(s) \in Nat
      /\ s[b + 1] = 192 + a /\ s[b + 2] = 128 + c /\ b + 2 <= Len(s)
  BY <1>1 DEF StandsAt
<1>5. /\ i \in Nat /\ s[i] = 192 + a /\ s[i + 1] = 128 + c /\ i + 2 - 1 <= Len(s)
  BY <1>4
<1> HIDE DEF i
<1>6. BitsOf(s, i, 2) = cp
  <2>1. Low(192 + a, 32) = a /\ Low(128 + c, 64) = c
    BY <1>2, <1>3, LowBits
  <2> QED BY <1>2, <1>5, <2>1, TheBits
<1>7. Utf8ToCodepoint(s, i) = SeenAs(s, i, 2, 128, cp)
  BY <1>3, <1>5, <1>6, ByFirst
<1>8. SeenAs(s, i, 2, 128, cp) = [cp |-> cp, bytes |-> 2]
  BY <1>4, <1>5, SeenWhole
<1>9. Seen(cp) = cp
  BY DEF Seen
<1> QED BY <1>3, <1>4, <1>7, <1>8, <1>9 DEF SeenOf, i

LEMMA SeenThree ==
  ASSUME NEW s, NEW cp \in Nat, NEW b, StandsAt(cp, s, b), 2048 <= cp, cp <= 65535
  PROVE  SeenOf(cp, s, b)
<1> DEFINE a == cp \div 4096
           c == (cp \div 64) % 64
           e == cp % 64
           i == b + 1
<1>1. UTF8(cp) = <<224 + a, 128 + c, 128 + e>>
  BY Utf8Bytes, SixBitsAre
<1>2. a \in Nat /\ c \in 0 .. 63 /\ e \in 0 .. 63 /\ cp = 4096 * a + 64 * c + e
  BY Sixths
<1> HIDE DEF a, c, e
<1>3. a \in 0 .. 15
  BY <1>2
<1>4. /\ Len(UTF8(cp)) = 3 /\ UTF8(cp)[1] = 224 + a /\ b \in Nat /\ Len(s) \in Nat
      /\ s[b + 1] = 224 + a /\ s[b + 2] = 128 + c /\ s[b + 3] = 128 + e /\ b + 3 <= Len(s)
  BY <1>1 DEF StandsAt
<1>5. /\ i \in Nat /\ s[i] = 224 + a /\ s[i + 1] = 128 + c /\ s[i + 2] = 128 + e /\ i + 3 - 1 <= Len(s)
  BY <1>4
<1> HIDE DEF i
<1>6. BitsOf(s, i, 3) = cp
  <2>1. Low(224 + a, 16) = a /\ Low(128 + c, 64) = c /\ Low(128 + e, 64) = e
    BY <1>2, <1>3, LowBits
  <2>2. BitsOf(s, i, 3) = 4096 * a + 64 * c + e
    BY <1>5, <2>1, TheBits
  <2> QED BY <1>2, <2>2
<1>7. Utf8ToCodepoint(s, i) = SeenAs(s, i, 3, 2048, NoSurrogate(cp))
  BY <1>3, <1>5, <1>6, ByFirst
<1> DEFINE v == Seen(cp)
<1>8. NoSurrogate(cp) = v /\ v \in Nat /\ v >= 2048
  BY DEF NoSurrogate, Seen
<1> HIDE DEF v
<1>9. SeenAs(s, i, 3, 2048, v) = [cp |-> v, bytes |-> 3]
  <2>1. ~(Len(s) - i + 1 < 3) /\ ~(v < 2048)
    BY <1>4, <1>5, <1>8
  <2>2. SeenAs(s, i, 3, 2048, v) =
          IF Len(s) - i + 1 < 3 THEN [cp |-> 65533, bytes |-> 1]
          ELSE [cp |-> IF v < 2048 THEN 65533 ELSE v, bytes |-> 3]
    BY SMT DEF SeenAs
  <2> QED BY <2>1, <2>2, SMT
<1> QED BY <1>3, <1>4, <1>7, <1>8, <1>9 DEF SeenOf, i, v

LEMMA SeenFour ==
  ASSUME NEW s, NEW cp \in Nat, NEW b, StandsAt(cp, s, b), 65536 <= cp, cp <= 1114111
  PROVE  SeenOf(cp, s, b)
<1> DEFINE a == cp \div 262144
           c == (cp \div 4096) % 64
           e == (cp \div 64) % 64
           f == cp % 64
           i == b + 1
<1>1. UTF8(cp) = <<240 + a, 128 + c, 128 + e, 128 + f>>
  BY Utf8Bytes, SixBitsAre
<1>2. /\ a \in Nat /\ c \in 0 .. 63 /\ e \in 0 .. 63 /\ f \in 0 .. 63
      /\ cp = 262144 * a + 4096 * c + 64 * e + f
  BY Sixths
<1>3. Seen(cp) = 16777216 * a + 4096 * c + 64 * e + f
  <2> DEFINE r == cp % 262144
  <2>1. Seen(cp) = IF cp < 262144 THEN cp ELSE 16777216 * a + r
    BY DEF Seen
  <2> DEFINE q == 4096 * c + 64 * e + f
             k == 262144
  <2>2. k \in Powers /\ k \in Nat /\ r = cp % k
    BY DEF Powers
  <2> HIDE DEF a, c, e, f, r
  <2>4. q \in Nat /\ q < k /\ cp = k * a + q
    BY <1>2
  <2> HIDE DEF q, k
  <2>5. q \in 0 .. k - 1
    BY <2>2, <2>4
  <2>6. r = q
    <3>1. a \in Nat
      BY <1>2
    <3>2. cp % k = q
      BY <2>2, <2>4, <2>5, <3>1, Undivided
    <3> QED BY <2>2, <3>2
  <2>3. cp < 262144 => a = 0
    BY <1>2
  <2> QED BY <1>2, <2>1, <2>3, <2>6 DEF q
<1> HIDE DEF a, c, e, f
<1>4. a \in 0 .. 4
  BY <1>2
<1>5. /\ Len(UTF8(cp)) = 4 /\ UTF8(cp)[1] = 240 + a /\ b \in Nat /\ Len(s) \in Nat
      /\ s[b + 1] = 240 + a /\ s[b + 2] = 128 + c /\ s[b + 3] = 128 + e
      /\ s[b + 4] = 128 + f /\ b + 4 <= Len(s)
  BY <1>1 DEF StandsAt
<1>6. /\ i \in Nat /\ s[i] = 240 + a /\ s[i + 1] = 128 + c /\ s[i + 2] = 128 + e
      /\ s[i + 3] = 128 + f /\ i + 4 - 1 <= Len(s)
  BY <1>5
<1> HIDE DEF i
<1>7. BitsOf(s, i, 4) = Seen(cp)
  <2>1. Low(240 + a, 8) = a /\ Low(128 + c, 64) = c /\ Low(128 + e, 64) = e /\ Low(128 + f, 64) = f
    BY <1>2, <1>4, LowBits
  <2> QED BY <1>3, <1>6, <2>1, TheBits
<1>8. Utf8ToCodepoint(s, i) = SeenAs(s, i, 4, 65536, Seen(cp))
  BY <1>4, <1>6, <1>7, ByFirst
<1> DEFINE v == Seen(cp)
<1>9. v \in Nat /\ v >= 65536
  BY <1>2, <1>3, <1>4
<1> HIDE DEF v
<1>10. SeenAs(s, i, 4, 65536, v) = [cp |-> v, bytes |-> 4]
  <2> DEFINE least == 65536
             n == 4
  <2>1. v >= least /\ least \in Nat /\ n \in Nat /\ i + n - 1 <= Len(s)
    BY <1>6, <1>9
  <2> HIDE DEF least, n
  <2>2. Len(s) \in Nat /\ i \in Nat /\ v \in Nat
    BY <1>5, <1>6, <1>9
  <2>3. SeenAs(s, i, n, least, v) = [cp |-> v, bytes |-> n]
    BY <2>1, <2>2, SeenWhole
  <2> QED BY <2>3 DEF least, n
<1> QED BY <1>4, <1>5, <1>8, <1>10 DEF SeenOf, i, v

LEMMA SeenCharacter ==
  ASSUME NEW s, NEW cp \in Character, NEW b, StandsAt(cp, s, b)
  PROVE  SeenOf(cp, s, b)
<1>1. cp \in Nat /\ cp <= 1114111
  BY DEF Character
<1>2. cp <= 127 \/ (128 <= cp /\ cp <= 2047) \/ (2048 <= cp /\ cp <= 65535) \/ 65536 <= cp
  BY <1>1
<1> QED BY <1>1, <1>2, SeenOne, SeenTwo, SeenThree, SeenFour

LEMMA UTF8Type ==
  ASSUME NEW cp \in Nat
  PROVE  UTF8(cp) \in Bytes
<1>1. SixBits(cp, 1) \in Nat /\ SixBits(cp, 64) \in Nat /\ SixBits(cp, 4096) \in Nat
  BY SixBitsAre
<1>2. cp \div 64 \in Nat /\ cp \div 4096 \in Nat /\ cp \div 262144 \in Nat
  BY Sixths
<1>3. CASE cp <= 127
  <2>1. UTF8(cp) = <<cp>>
    BY <1>3, Utf8Bytes
  <2> QED BY <2>1 DEF Bytes
<1>4. CASE 128 <= cp /\ cp <= 2047
  <2>1. UTF8(cp) = <<192 + (cp \div 64), SixBits(cp, 1)>>
    BY <1>4, Utf8Bytes
  <2> QED BY <1>1, <1>2, <2>1 DEF Bytes
<1>5. CASE 2048 <= cp /\ cp <= 65535
  <2>1. UTF8(cp) = <<224 + (cp \div 4096), SixBits(cp, 64), SixBits(cp, 1)>>
    BY <1>5, Utf8Bytes
  <2> QED BY <1>1, <1>2, <2>1 DEF Bytes
<1>6. CASE 65536 <= cp /\ cp <= 1114111
  <2>1. UTF8(cp) = <<240 + (cp \div 262144), SixBits(cp, 4096), SixBits(cp, 64), SixBits(cp, 1)>>
    BY <1>6, Utf8Bytes
  <2> QED BY <1>1, <1>2, <2>1 DEF Bytes
<1>7. CASE 1114111 < cp
  <2>1. UTF8(cp) = <<>>
    BY <1>7 DEF UTF8
  <2> QED BY <2>1 DEF Bytes
<1> QED BY <1>3, <1>4, <1>5, <1>6, <1>7

-----------------------------------------------------------------------------
(* What is written for a character.                                        *)

LEMMA Escaping ==
  ASSUME NEW s, NEW i, NEW v \in Nat, NEW n, Utf8ToCodepoint(s, i) = [cp |-> v, bytes |-> n]
  PROVE  /\ s[i] \in DOMAIN ShortEscape =>
              EscapedChar(s, i) = [text |-> <<Backslash, ShortEscape[s[i]]>>, bytes |-> 1]
         /\ s[i] \notin DOMAIN ShortEscape /\ Plain(v) => EscapedChar(s, i) = [text |-> <<v>>, bytes |-> n]
         /\ s[i] \notin DOMAIN ShortEscape /\ v < 65536 /\ ~Plain(v) =>
              EscapedChar(s, i) = [text |-> UnicodeEscape(v), bytes |-> n]
         /\ s[i] \notin DOMAIN ShortEscape /\ ~(v < 65536) /\ ~Plain(v) =>
              EscapedChar(s, i) = [text |-> SurrogatePair(v), bytes |-> n]
<1>1. Utf8ToCodepoint(s, i).cp = v /\ Utf8ToCodepoint(s, i).bytes = n
  OBVIOUS
<1>2. CASE s[i] \in DOMAIN ShortEscape
  BY <1>1, <1>2 DEF EscapedChar
<1>3. CASE s[i] \notin DOMAIN ShortEscape /\ Plain(v)
  BY <1>1, <1>3 DEF EscapedChar
<1>4. CASE s[i] \notin DOMAIN ShortEscape /\ v < 65536 /\ ~Plain(v)
  BY <1>1, <1>4 DEF EscapedChar
<1>5. CASE s[i] \notin DOMAIN ShortEscape /\ ~(v < 65536) /\ ~Plain(v)
  BY <1>1, <1>5 DEF EscapedChar
<1> QED BY <1>2, <1>3, <1>4, <1>5

LEMMA ShortEscapes ==
  /\ DOMAIN ShortEscape = {34, 92, 8, 12, 10, 13, 9}
  /\ \A c \in DOMAIN ShortEscape :
       /\ ShortEscape[c] \in Nat /\ ShortEscape[c] \in DOMAIN Escapes
       /\ Escapes[ShortEscape[c]] = c /\ c < 128
<1>1. DOMAIN ShortEscape = {34, 92, 8, 12, 10, 13, 9}
  BY Zenon DEF ShortEscape
<1>2. DOMAIN Escapes = {34, 47, 92, 98, 102, 110, 114, 116}
  BY Zenon DEF Escapes
<1>3. /\ ShortEscape[34] = 34 /\ ShortEscape[92] = 92 /\ ShortEscape[8] = 98 /\ ShortEscape[12] = 102
      /\ ShortEscape[10] = 110 /\ ShortEscape[13] = 114 /\ ShortEscape[9] = 116
  BY DEF ShortEscape
<1>4. /\ Escapes[34] = 34 /\ Escapes[92] = 92 /\ Escapes[98] = 8 /\ Escapes[102] = 12
      /\ Escapes[110] = 10 /\ Escapes[114] = 13 /\ Escapes[116] = 9
  BY DEF Escapes
<1> QED BY <1>1, <1>2, <1>3, <1>4

Escape(cp) ==
  IF cp \in DOMAIN ShortEscape THEN <<Backslash, ShortEscape[cp]>>
  ELSE IF Plain(cp) THEN <<cp>>
  ELSE IF Seen(cp) < 65536 THEN UnicodeEscape(Seen(cp))
  ELSE SurrogatePair(Seen(cp))

LEMMA SeenFacts ==
  ASSUME NEW cp \in Character
  PROVE  /\ cp \in Nat /\ Seen(cp) \in Nat
         /\ cp < 128 => Seen(cp) = cp
         /\ cp >= 128 => Seen(cp) >= 128
         /\ Plain(Seen(cp)) <=> Plain(cp)
<1>1. cp \in Nat
  BY DEF Character
<1> DEFINE a == cp \div 262144
           r == cp % 262144
<1>2. a \in Nat /\ r \in Nat /\ cp = 262144 * a + r
  <2> DEFINE k == 262144
  <2>1. k \in Powers
    BY DEF Powers
  <2> HIDE DEF k
  <2>2. /\ cp \div k \in Nat /\ cp % k \in 0 .. k - 1 /\ cp = k * (cp \div k) + (cp % k)
    BY <1>1, <2>1, Divided
  <2>3. k \in Nat
    BY DEF k
  <2>4. cp \div k \in Nat /\ cp % k \in Nat /\ cp = k * (cp \div k) + (cp % k)
    BY <2>2, <2>3
  <2> QED BY <2>4 DEF k
<1>3. Seen(cp) = IF cp < 57343 \/ (65536 <= cp /\ cp < 262144) THEN cp
                 ELSE IF cp < 65536 THEN 65533 ELSE 16777216 * a + r
  BY DEF Seen
<1> HIDE DEF a, r
<1>4. Seen(cp) \in Nat /\ (cp < 128 => Seen(cp) = cp) /\ (cp >= 128 => Seen(cp) >= 128)
  BY <1>1, <1>2, <1>3
<1>5. Plain(Seen(cp)) <=> Plain(cp)
  BY <1>1, <1>4 DEF Plain
<1> QED BY <1>1, <1>4, <1>5

LEMMA EscapedAt ==
  ASSUME NEW s, NEW cp \in Character, NEW b, StandsAt(cp, s, b)
  PROVE  EscapedChar(s, b + 1) = [text |-> Escape(cp), bytes |-> Len(UTF8(cp))]
<1> DEFINE v == Seen(cp)
           n == Len(UTF8(cp))
           i == b + 1
           short == cp \in DOMAIN ShortEscape
<1>1. /\ Utf8ToCodepoint(s, i) = [cp |-> v, bytes |-> n]
      /\ s[i] \in Nat /\ n \in 1 .. 4 /\ s[i] = UTF8(cp)[1]
      /\ cp < 128 => s[i] = cp
      /\ cp >= 128 => s[i] >= 192
  BY SeenCharacter DEF SeenOf
<1>2. /\ cp \in Nat /\ v \in Nat /\ (cp < 128 => v = cp) /\ (Plain(v) <=> Plain(cp))
  BY SeenFacts
<1>4. short => cp < 128 /\ s[i] = cp
  BY <1>1, ShortEscapes
<1>3. s[i] \in DOMAIN ShortEscape => short
  <2>1. s[i] \in DOMAIN ShortEscape => s[i] < 128
    BY ShortEscapes
  <2> HIDE DEF i
  <2> QED BY <1>1, <1>2, <2>1
<1>5. Plain(cp) => v = cp
  BY <1>2 DEF Plain
<1>6. short => n = 1
  BY <1>2, <1>4, Utf8Bytes
<1> HIDE DEF v, n, i, short
<1>7. Escape(cp) = IF short THEN <<Backslash, ShortEscape[cp]>> ELSE IF Plain(cp) THEN <<cp>>
                   ELSE IF v < 65536 THEN UnicodeEscape(v) ELSE SurrogatePair(v)
  BY DEF Escape, v, short
<1>8. CASE short
  <2>1. s[i] \in DOMAIN ShortEscape /\ s[i] = cp
    BY <1>4, <1>8 DEF short
  <2>2. EscapedChar(s, i) = [text |-> <<Backslash, ShortEscape[s[i]]>>, bytes |-> 1]
    BY <1>1, <1>2, <2>1, Escaping
  <2>3. Escape(cp) = <<Backslash, ShortEscape[cp]>>
    BY <1>7, <1>8
  <2>4. n = 1
    BY <1>6, <1>8
  <2>5. EscapedChar(s, i) = [text |-> Escape(cp), bytes |-> n]
    BY <2>1, <2>2, <2>3, <2>4, Zenon
  <2> QED BY <2>5 DEF i, n
<1>9. CASE ~short /\ Plain(cp)
  <2>1. EscapedChar(s, i) = [text |-> <<v>>, bytes |-> n]
    BY <1>1, <1>2, <1>3, <1>9, Escaping
  <2> QED BY <1>5, <1>7, <1>9, <2>1 DEF i, n
<1>10. CASE ~short /\ ~Plain(cp)
  <2>1. EscapedChar(s, i) = [text |-> IF v < 65536 THEN UnicodeEscape(v) ELSE SurrogatePair(v), bytes |-> n]
    BY <1>1, <1>2, <1>3, <1>10, Escaping
  <2> QED BY <1>7, <1>10, <2>1 DEF i, n
<1> QED BY <1>8, <1>9, <1>10

-----------------------------------------------------------------------------
(* How the reader takes an escape.                                         *)

LEMMA OneChar ==
  ASSUME NEW d, NEW q \in Nat, NEW end \in Nat
  PROVE  /\ At(d, q) # Backslash =>
              DecodedChar(d, q, end) = [ok |-> TRUE, s |-> <<At(d, q)>>, at |-> q + 1]
         /\ At(d, q) = Backslash /\ q + 1 < end /\ At(d, q + 1) \in DOMAIN Escapes =>
              DecodedChar(d, q, end) = [ok |-> TRUE, s |-> <<Escapes[At(d, q + 1)]>>, at |-> q + 2]
         /\ At(d, q) = Backslash /\ q + 1 < end /\ At(d, q + 1) = LetterU /\ CodePoint(d, q + 2, end).ok =>
              DecodedChar(d, q, end) = [ok |-> TRUE, s |-> UTF8(CodePoint(d, q + 2, end).cp),
                                        at |-> CodePoint(d, q + 2, end).at]
<1>1. LetterU \notin DOMAIN Escapes
  <2>1. DOMAIN Escapes = {34, 47, 92, 98, 102, 110, 114, 116}
    BY Zenon DEF Escapes
  <2> QED BY <2>1 DEF LetterU
<1>2. CASE At(d, q) # Backslash
  BY <1>2 DEF DecodedChar
<1>3. CASE At(d, q) = Backslash /\ q + 1 < end /\ At(d, q + 1) \in DOMAIN Escapes
  BY <1>1, <1>3 DEF DecodedChar
<1>4. CASE At(d, q) = Backslash /\ q + 1 < end /\ At(d, q + 1) = LetterU /\ CodePoint(d, q + 2, end).ok
  BY <1>1, <1>4 DEF DecodedChar
<1> QED BY <1>2, <1>3, <1>4

LEMMA HexDigits ==
  ASSUME NEW c \in Nat
  PROVE  /\ c \in DOMAIN HexDigit <=> c \in 48 .. 57 \/ c \in 97 .. 102 \/ c \in 65 .. 70
         /\ c \in DOMAIN HexDigit =>
              HexDigit[c] = IF c \in 48 .. 57 THEN c - 48 ELSE IF c >= 97 THEN c - 87 ELSE c - 55
BY DEF HexDigit, Digits

Digit(n) == IF n < 10 THEN 48 + n ELSE 87 + n

LEMMA DigitRead ==
  ASSUME NEW n \in 0 .. 15
  PROVE  Digit(n) \in DOMAIN HexDigit /\ HexDigit[Digit(n)] = n /\ Digit(n) \in Nat
<1>1. Digit(n) \in Nat /\ (n < 10 => Digit(n) = 48 + n) /\ (n >= 10 => Digit(n) = 87 + n)
  BY DEF Digit
<1> DEFINE c == Digit(n)
<1> HIDE DEF c
<1>2. c \in 48 .. 57 \/ c \in 97 .. 102 \/ c \in 65 .. 70
  BY <1>1 DEF c
<1>3. c \in DOMAIN HexDigit
  BY <1>1, <1>2, HexDigits DEF c
<1>4. HexDigit[c] = n
  BY <1>1, <1>3, HexDigits DEF c
<1> QED BY <1>1, <1>3, <1>4 DEF c

LEMMA FourRead ==
  ASSUME NEW d, NEW p \in Nat, NEW end \in Nat, p + 4 <= end, NEW a, NEW b, NEW c, NEW e,
         At(d, p) = a, At(d, p + 1) = b, At(d, p + 2) = c, At(d, p + 3) = e,
         {a, b, c, e} \subseteq DOMAIN HexDigit
  PROVE  FourDigits(d, p, end) =
           [ok |-> TRUE, at |-> p + 4,
            cp |-> 4096 * HexDigit[a] + 256 * HexDigit[b] + 16 * HexDigit[c] + HexDigit[e]]
<1> DEFINE digits == [i \in 1 .. 4 |-> At(d, p + i - 1)]
<1>1. digits[1] = a /\ digits[2] = b /\ digits[3] = c /\ digits[4] = e
  <2>1. p + 1 - 1 = p /\ p + 2 - 1 = p + 1 /\ p + 3 - 1 = p + 2 /\ p + 4 - 1 = p + 3
    OBVIOUS
  <2> QED BY <2>1
<1>3. end - p >= 4
  OBVIOUS
<1>4. FourDigits(d, p, end) = IF end - p >= 4 /\ AllHex(digits) THEN [ok |-> TRUE, at |-> p + 4, cp |-> HexNumber(digits)]
     ELSE [ok |-> FALSE, at |-> p + 4, cp |-> 0]
  BY Zenon DEF FourDigits
<1> HIDE DEF digits
<1>2. AllHex(digits)
  BY <1>1 DEF AllHex
<1>5. HexNumber(digits) = 4096 * HexDigit[a] + 256 * HexDigit[b] + 16 * HexDigit[c] + HexDigit[e]
  BY <1>1 DEF HexNumber
<1> QED BY <1>2, <1>3, <1>4, <1>5

LEMMA SingleRead ==
  ASSUME NEW d, NEW p \in Nat, NEW end \in Nat, FourDigits(d, p, end).cp \in Nat,
         ~(55295 < FourDigits(d, p, end).cp /\ FourDigits(d, p, end).cp < 56320)
  PROVE  CodePoint(d, p, end) = FourDigits(d, p, end)
BY DEF CodePoint

LEMMA PairRead ==
  ASSUME NEW d, NEW p \in Nat, NEW end \in Nat, NEW hi \in Nat, NEW lo \in Nat,
         FourDigits(d, p, end) = [ok |-> TRUE, at |-> p + 4, cp |-> hi], 55296 <= hi, hi <= 56319,
         SecondEscape(d, p + 4, end),
         FourDigits(d, p + 6, end) = [ok |-> TRUE, at |-> p + 10, cp |-> lo]
  PROVE  CodePoint(d, p, end) = [ok |-> TRUE, at |-> p + 10, cp |-> OfSurrogates(hi, lo)]
<1> DEFINE high == FourDigits(d, p, end)
           low == FourDigits(d, p + 6, end)
<1>1. high.ok /\ high.at = p + 4 /\ high.cp = hi /\ low.ok /\ low.at = p + 10 /\ low.cp = lo
  OBVIOUS
<1>2. ~(hi < 55296) /\ ~(56319 < hi)
  OBVIOUS
<1>3. ~(~high.ok \/ high.cp < 55296 \/ 56319 < high.cp)
  BY <1>1, <1>2
<1>4. SecondEscape(d, p + 4, end) /\ low.ok
  BY <1>1
<1>5. CodePoint(d, p, end) = [ok |-> TRUE, at |-> p + 10, cp |-> OfSurrogates(high.cp, low.cp)]
  BY <1>3, <1>4, SMT DEF CodePoint
<1> HIDE DEF high, low
<1> QED BY <1>1, <1>5

\* The text e is in d from the location q on, before the location end.
Stands(e, d, q, end) ==
  /\ q \in Nat /\ end \in Nat /\ Len(e) \in Nat /\ q + Len(e) <= end
  /\ \A k \in 1 .. Len(e) : At(d, q + (k - 1)) = e[k]

LEMMA LowDigits ==
  ASSUME NEW x \in Nat
  PROVE  x % 65536 = 4096 * ((x \div 4096) % 16) + 256 * ((x \div 256) % 16)
                     + 16 * ((x \div 16) % 16) + (x % 16)
<1> DEFINE m == x \div 4096
           a == m % 16
           z == m \div 16
           b == (x \div 256) % 16
           c == (x \div 16) % 16
           e == x % 16
           r == 4096 * a + 256 * b + 16 * c + e
           k == 65536
<1>1. b \in 0 .. 15 /\ c \in 0 .. 15 /\ e \in 0 .. 15 /\ x = 4096 * m + 256 * b + 16 * c + e
  BY Quarters
<1>2. m \in Nat /\ k \in Powers /\ k \in Nat /\ 16 \in Powers
  BY DEF Powers
<1> HIDE DEF m, b, c, e
<1>3. z \in Nat /\ a \in 0 .. 15 /\ m = 16 * z + a
  BY <1>2
<1> HIDE DEF a, z
<1>4. r \in Nat /\ r < k /\ x = k * z + r
  BY <1>1, <1>3
<1> HIDE DEF r, k
<1>5. r \in 0 .. k - 1
  BY <1>2, <1>4
<1>6. x % k = r
  BY <1>2, <1>3, <1>4, <1>5, Undivided
<1> QED BY <1>6 DEF r, k, a, b, c, e, m

LEMMA HexTextIs ==
  ASSUME NEW x
  PROVE  HexText(x) = <<Digit((x \div 4096) % 16), Digit((x \div 256) % 16),
                        Digit((x \div 16) % 16), Digit(x % 16)>>
BY DEF HexText, Digit

LEMMA UnicodeEscapeIs ==
  ASSUME NEW x, NEW a \in Nat, NEW b \in Nat, NEW c \in Nat, NEW e \in Nat, HexText(x) = <<a, b, c, e>>
  PROVE  /\ UnicodeEscape(x) \in Bytes /\ Len(UnicodeEscape(x)) = 6
         /\ UnicodeEscape(x)[1] = Backslash /\ UnicodeEscape(x)[2] = LetterU
         /\ UnicodeEscape(x)[3] = a /\ UnicodeEscape(x)[4] = b
         /\ UnicodeEscape(x)[5] = c /\ UnicodeEscape(x)[6] = e
<1> DEFINE s == <<Backslash, LetterU>>
           t == <<a, b, c, e>>
           r == UnicodeEscape(x)
<1>1. r = s \o t
  BY DEF UnicodeEscape
<1>2. s \in Bytes /\ t \in Bytes
  BY DEF Bytes, Backslash, LetterU
<1>3. Len(s) = 2 /\ s[1] = Backslash /\ s[2] = LetterU
  OBVIOUS
<1>4. Len(t) = 4 /\ t[1] = a /\ t[2] = b /\ t[3] = c /\ t[4] = e
  OBVIOUS
<1> HIDE DEF s, t, r
<1>5. Glued(r, s, t)
  BY <1>1, <1>2, Put, Zenon
<1>6. /\ r \in Bytes /\ Len(r) = 6
      /\ \A k \in 1 .. 2 : r[k] = s[k]
      /\ \A k \in 1 .. 4 : r[2 + k] = t[k]
  BY <1>3, <1>4, <1>5 DEF Glued
<1>7. r[1] = s[1] /\ r[2] = s[2] /\ r[2 + 1] = t[1] /\ r[2 + 2] = t[2] /\ r[2 + 3] = t[3] /\ r[2 + 4] = t[4]
  BY <1>6
<1> QED BY <1>3, <1>4, <1>6, <1>7 DEF r

\* What four digits hold of a number.
Word(x) == x % 65536

\* An escape at the location q, for w.
EscapeOf(w, d, q, end) ==
  /\ At(d, q) = Backslash /\ At(d, q + 1) = LetterU /\ q + 6 <= end
  /\ q \in Nat /\ end \in Nat /\ w \in Nat
  /\ FourDigits(d, q + 2, end) = [ok |-> TRUE, at |-> q + 6, cp |-> w]

LEMMA EscapeRead ==
  ASSUME NEW x \in Nat, NEW d, NEW q, NEW end, Stands(UnicodeEscape(x), d, q, end)
  PROVE  EscapeOf(Word(x), d, q, end)
<1> DEFINE n1 == (x \div 4096) % 16
           n2 == (x \div 256) % 16
           n3 == (x \div 16) % 16
           n4 == x % 16
           a == Digit(n1)
           b == Digit(n2)
           c == Digit(n3)
           e == Digit(n4)
           u == UnicodeEscape(x)
<1>1. HexText(x) = <<a, b, c, e>>
  BY HexTextIs, Zenon
<1>2. n1 \in 0 .. 15 /\ n2 \in 0 .. 15 /\ n3 \in 0 .. 15 /\ n4 \in 0 .. 15
  <2>1. x \div 4096 \in Nat /\ 16 \in Powers
    BY DEF Powers
  <2> QED BY <2>1, Quarters
<1>3. x % 65536 = 4096 * n1 + 256 * n2 + 16 * n3 + n4
  BY LowDigits
<1> HIDE DEF n1, n2, n3, n4
<1>4. /\ {a, b, c, e} \subseteq DOMAIN HexDigit
      /\ a \in Nat /\ b \in Nat /\ c \in Nat /\ e \in Nat
      /\ HexDigit[a] = n1 /\ HexDigit[b] = n2 /\ HexDigit[c] = n3 /\ HexDigit[e] = n4
  BY <1>2, DigitRead
<1> HIDE DEF a, b, c, e, u
<1>5. /\ q \in Nat /\ end \in Nat /\ q + 6 <= end
      /\ At(d, q) = Backslash /\ At(d, q + 1) = LetterU
      /\ At(d, q + 2) = a /\ At(d, q + 3) = b /\ At(d, q + 4) = c /\ At(d, q + 5) = e
  <2>1. Len(u) = 6 /\ u[1] = Backslash /\ u[2] = LetterU /\ u[3] = a /\ u[4] = b /\ u[5] = c /\ u[6] = e
    BY <1>1, <1>4, UnicodeEscapeIs DEF u
  <2>2. q \in Nat /\ end \in Nat /\ q + 6 <= end /\ \A k \in 1 .. 6 : At(d, q + (k - 1)) = u[k]
    BY <2>1 DEF Stands, u
  <2>3. /\ At(d, q + (1 - 1)) = u[1] /\ At(d, q + (2 - 1)) = u[2] /\ At(d, q + (3 - 1)) = u[3]
        /\ At(d, q + (4 - 1)) = u[4] /\ At(d, q + (5 - 1)) = u[5] /\ At(d, q + (6 - 1)) = u[6]
    <3> HIDE DEF u
    <3> QED BY <2>2
  <2>4. /\ q + (1 - 1) = q /\ q + (2 - 1) = q + 1 /\ q + (3 - 1) = q + 2 /\ q + (4 - 1) = q + 3
        /\ q + (5 - 1) = q + 4 /\ q + (6 - 1) = q + 5
    BY <2>2
  <2> QED BY <2>1, <2>2, <2>3, <2>4
<1> DEFINE p == q + 2
<1>6. /\ p \in Nat /\ p + 4 <= end /\ p + 4 = q + 6
      /\ At(d, p) = a /\ At(d, p + 1) = b /\ At(d, p + 2) = c /\ At(d, p + 3) = e
  <2>1. p + 1 = q + 3 /\ p + 2 = q + 4 /\ p + 3 = q + 5 /\ p + 4 = q + 6 /\ p \in Nat
    BY <1>5
  <2> QED BY <1>5, <2>1
<1> HIDE DEF p
<1> DEFINE v == 4096 * HexDigit[a] + 256 * HexDigit[b] + 16 * HexDigit[c] + HexDigit[e]
           w == Word(x)
           next == q + 6
<1>7. FourDigits(d, p, end) = [ok |-> TRUE, at |-> p + 4, cp |-> v]
  BY <1>4, <1>5, <1>6, FourRead
<1>8. v = w /\ w \in Nat
  BY <1>3, <1>4 DEF Word
<1>9. p + 4 = next
  BY <1>6
<1> HIDE DEF v, w, next
<1>10. FourDigits(d, p, end) = [ok |-> TRUE, at |-> next, cp |-> w]
  BY <1>7, <1>8, <1>9, Zenon
<1> QED BY <1>5, <1>8, <1>10 DEF p, w, next, EscapeOf

\* Not the first half of a surrogate pair.
NotHigh(w) == w \in Nat /\ ~(55295 < w /\ w < 56320)

LEMMA UnicodeRead ==
  ASSUME NEW x \in Nat, NEW d, NEW q, NEW end, Stands(UnicodeEscape(x), d, q, end), NotHigh(Word(x))
  PROVE  DecodedChar(d, q, end) = [ok |-> TRUE, s |-> UTF8(Word(x)), at |-> q + 6]
<1> DEFINE w == Word(x)
           p == q + 2
           next == q + 6
<1>1. EscapeOf(w, d, q, end)
  BY EscapeRead
<1>2. /\ At(d, q) = Backslash /\ At(d, q + 1) = LetterU /\ q + 1 < end
      /\ q \in Nat /\ end \in Nat /\ p \in Nat /\ w \in Nat
  BY <1>1 DEF EscapeOf
<1>3. FourDigits(d, p, end) = [ok |-> TRUE, at |-> next, cp |-> w]
  BY <1>1 DEF EscapeOf
<1> HIDE DEF p, next
<1>4. FourDigits(d, p, end).ok /\ FourDigits(d, p, end).cp = w /\ FourDigits(d, p, end).at = next
  BY <1>3
<1>5. CodePoint(d, p, end) = FourDigits(d, p, end)
  BY <1>2, <1>4, SingleRead DEF NotHigh
<1>6. CodePoint(d, p, end).ok /\ CodePoint(d, p, end).cp = w /\ CodePoint(d, p, end).at = next
  BY <1>4, <1>5
<1>7. DecodedChar(d, q, end) = [ok |-> TRUE, s |-> UTF8(CodePoint(d, p, end).cp), at |-> CodePoint(d, p, end).at]
  BY <1>2, <1>6, OneChar DEF p
<1>8. DecodedChar(d, q, end) = [ok |-> TRUE, s |-> UTF8(w), at |-> next]
  BY <1>6, <1>7
<1> QED BY <1>8 DEF next

LEMMA StandApart ==
  ASSUME NEW s \in Bytes, NEW t \in Bytes, NEW r, r = s \o t, NEW d, NEW q, NEW end, Stands(r, d, q, end)
  PROVE  Stands(s, d, q, end) /\ Stands(t, d, q + Len(s), end)
<1>1. Glued(r, s, t)
  BY Put, Zenon
<1>2. /\ q \in Nat /\ end \in Nat /\ Len(s) \in Nat /\ Len(t) \in Nat /\ q + Len(s) + Len(t) <= end
  BY <1>1 DEF Glued, Stands
<1>3. ASSUME NEW k \in 1 .. Len(s) PROVE At(d, q + (k - 1)) = s[k]
  <2>1. k \in 1 .. Len(r)
    BY <1>1 DEF Glued
  <2> QED BY <1>1, <2>1 DEF Glued, Stands
<1>4. ASSUME NEW k \in 1 .. Len(t) PROVE At(d, (q + Len(s)) + (k - 1)) = t[k]
  <2>1. Len(s) + k \in 1 .. Len(r)
    BY <1>1 DEF Glued
  <2>2. At(d, q + ((Len(s) + k) - 1)) = r[Len(s) + k]
    BY <2>1, Zenon DEF Stands
  <2>3. q + ((Len(s) + k) - 1) = (q + Len(s)) + (k - 1)
    BY <1>2
  <2>4. r[Len(s) + k] = t[k]
    BY <1>1 DEF Glued
  <2> QED BY <2>2, <2>3, <2>4
<1> QED BY <1>2, <1>3, <1>4 DEF Stands

LEMMA UnicodeEscapeType ==
  ASSUME NEW x \in Nat
  PROVE  UnicodeEscape(x) \in Bytes /\ Len(UnicodeEscape(x)) = 6
         /\ \A k \in 3 .. 6 : UnicodeEscape(x)[k] \in DOMAIN HexDigit
<1> DEFINE n1 == (x \div 4096) % 16
           n2 == (x \div 256) % 16
           n3 == (x \div 16) % 16
           n4 == x % 16
           u == UnicodeEscape(x)
<1>1. HexText(x) = <<Digit(n1), Digit(n2), Digit(n3), Digit(n4)>>
  BY HexTextIs, Zenon
<1>2. n1 \in 0 .. 15 /\ n2 \in 0 .. 15 /\ n3 \in 0 .. 15 /\ n4 \in 0 .. 15
  <2>1. x \div 4096 \in Nat
    OBVIOUS
  <2> QED BY <2>1, Quarters
<1> HIDE DEF n1, n2, n3, n4, u
<1>3. /\ Digit(n1) \in Nat /\ Digit(n2) \in Nat /\ Digit(n3) \in Nat /\ Digit(n4) \in Nat
      /\ Digit(n1) \in DOMAIN HexDigit /\ Digit(n2) \in DOMAIN HexDigit
      /\ Digit(n3) \in DOMAIN HexDigit /\ Digit(n4) \in DOMAIN HexDigit
  BY <1>2, DigitRead
<1>4. u \in Bytes /\ Len(u) = 6 /\ u[3] = Digit(n1) /\ u[4] = Digit(n2) /\ u[5] = Digit(n3) /\ u[6] = Digit(n4)
  BY <1>1, <1>3, UnicodeEscapeIs DEF u
<1>5. \A k \in 3 .. 6 : k = 3 \/ k = 4 \/ k = 5 \/ k = 6
  OBVIOUS
<1>6. \A k \in 3 .. 6 : u[k] \in DOMAIN HexDigit
  BY <1>3, <1>4, <1>5
<1> QED BY <1>4, <1>6 DEF u

FirstHalf(v) == 55296 + ((v - 65536) \div 1024)
SecondHalf(v) == 56320 + ((v - 65536) % 1024)

Supplementary == {v \in Nat : v >= 65536}

LEMMA Halves ==
  ASSUME NEW v \in Supplementary
  PROVE  /\ SurrogatePair(v) = UnicodeEscape(FirstHalf(v)) \o UnicodeEscape(SecondHalf(v))
         /\ FirstHalf(v) \in Nat /\ SecondHalf(v) \in Nat /\ SecondHalf(v) < 57344
         /\ 56320 <= SecondHalf(v) /\ 55296 <= FirstHalf(v)
         /\ v = 65536 + 1024 * (FirstHalf(v) - 55296) + (SecondHalf(v) - 56320)
<1>1. SurrogatePair(v) = UnicodeEscape(FirstHalf(v)) \o UnicodeEscape(SecondHalf(v))
  BY DEF SurrogatePair, FirstHalf, SecondHalf
<1> DEFINE m == v - 65536
           a == m \div 1024
           b == m % 1024
<1>2. m \in Nat /\ v = 65536 + m
  BY DEF Supplementary
<1>3. a \in Nat /\ b \in Nat /\ b < 1024 /\ m = 1024 * a + b
  <2> HIDE DEF m
  <2> QED BY <1>2
<1>4. FirstHalf(v) = 55296 + a /\ SecondHalf(v) = 56320 + b
  BY DEF FirstHalf, SecondHalf
<1> HIDE DEF m, a, b
<1>5. /\ FirstHalf(v) \in Nat /\ SecondHalf(v) \in Nat /\ SecondHalf(v) < 57344
      /\ 56320 <= SecondHalf(v) /\ 55296 <= FirstHalf(v)
      /\ v = 65536 + 1024 * (FirstHalf(v) - 55296) + (SecondHalf(v) - 56320)
  BY <1>2, <1>3, <1>4
<1> QED BY <1>1, <1>5

LEMMA BothStand ==
  ASSUME NEW v \in Supplementary, NEW d, NEW q, NEW end, Stands(SurrogatePair(v), d, q, end)
  PROVE  Stands(UnicodeEscape(FirstHalf(v)), d, q, end) /\ Stands(UnicodeEscape(SecondHalf(v)), d, q + 6, end)
<1> DEFINE e1 == UnicodeEscape(FirstHalf(v))
           e2 == UnicodeEscape(SecondHalf(v))
           e == SurrogatePair(v)
<1>a. e = e1 \o e2 /\ FirstHalf(v) \in Nat /\ SecondHalf(v) \in Nat
  BY Halves
<1>1. e = e1 \o e2 /\ e1 \in Bytes /\ Len(e1) = 6 /\ e2 \in Bytes
  BY <1>a, UnicodeEscapeType, SMT
<1> HIDE DEF e1, e2, e
<1>2. Stands(e1, d, q, end) /\ Stands(e2, d, q + Len(e1), end)
  BY <1>1, StandApart, Zenon DEF e
<1>3. Stands(e2, d, q + 6, end)
  BY <1>1, <1>2, SMT
<1> QED BY <1>2, <1>3 DEF e1, e2

LEMMA Words16 ==
  ASSUME NEW x \in Nat
  PROVE  /\ x < 65536 => Word(x) = x
         /\ 65536 <= x /\ x < 131072 => Word(x) = x - 65536
BY DEF Word

Paired == {v \in Supplementary : v < 1114112}

LEMMA Surrogates ==
  ASSUME NEW v \in Paired
  PROVE  /\ Word(FirstHalf(v)) = FirstHalf(v) /\ Word(SecondHalf(v)) = SecondHalf(v)
         /\ FirstHalf(v) <= 56319
         /\ OfSurrogates(FirstHalf(v), SecondHalf(v)) = v
<1> DEFINE hi == FirstHalf(v)
           lo == SecondHalf(v)
           a == hi - 55296
           b == lo - 56320
<1>a. /\ hi \in Nat /\ lo \in Nat /\ lo < 57344 /\ 56320 <= lo /\ 55296 <= hi
      /\ v = 65536 + 1024 * (hi - 55296) + (lo - 56320)
  <2>1. v \in Supplementary
    BY DEF Paired
  <2> QED BY <2>1, Halves
<1>b. v \in Nat /\ v < 1114112
  BY DEF Supplementary, Paired
<1> HIDE DEF hi, lo
<1>1. /\ hi \in Nat /\ lo \in Nat /\ a \in Nat /\ b \in Nat /\ lo < 57344
      /\ v = 65536 + 1024 * a + b /\ hi = 55296 + a /\ lo = 56320 + b /\ v \in Nat /\ v < 1114112
  BY <1>a, <1>b
<1> HIDE DEF a, b
<1>2. a < 1024 /\ b < 1024
  BY <1>1
<1>3. Low(hi, 1024) = a /\ Low(lo, 1024) = b
  BY <1>1, <1>2 DEF Low
<1>4. Word(hi) = hi /\ Word(lo) = lo /\ hi <= 56319
  BY <1>1, <1>2, Words16
<1>5. OfSurrogates(hi, lo) = v
  BY <1>1, <1>3 DEF OfSurrogates
<1> QED BY <1>4, <1>5 DEF hi, lo

LEMMA PairTaken ==
  ASSUME NEW v \in Paired, NEW d, NEW q, NEW end, Stands(SurrogatePair(v), d, q, end)
  PROVE  DecodedChar(d, q, end) = [ok |-> TRUE, s |-> UTF8(v), at |-> q + 12]
<1> DEFINE hi == FirstHalf(v)
           lo == SecondHalf(v)
           p == q + 2
           m == q + 6
           next == q + 12
<1>a. v \in Supplementary
  BY DEF Paired
<1>1. hi \in Nat /\ lo \in Nat /\ 55296 <= hi /\ hi <= 56319 /\ OfSurrogates(hi, lo) = v
  BY <1>a, Halves, Surrogates
<1>2. Word(hi) = hi /\ Word(lo) = lo
  BY Surrogates
<1>3. EscapeOf(Word(hi), d, q, end) /\ EscapeOf(Word(lo), d, m, end)
  BY <1>1, <1>a, BothStand, EscapeRead
<1> HIDE DEF hi, lo
<1>4. EscapeOf(hi, d, q, end) /\ EscapeOf(lo, d, m, end)
  BY <1>2, <1>3
<1>5. /\ At(d, q) = Backslash /\ At(d, q + 1) = LetterU /\ q + 1 < end
      /\ q \in Nat /\ end \in Nat /\ p \in Nat /\ p + 4 = m /\ p + 6 = m + 2 /\ p + 10 = next
  BY <1>4 DEF EscapeOf
<1>6. FourDigits(d, p, end) = [ok |-> TRUE, at |-> p + 4, cp |-> hi]
  <2>1. FourDigits(d, p, end) = [ok |-> TRUE, at |-> m, cp |-> hi]
    BY <1>4 DEF EscapeOf
  <2>2. p + 4 = m
    BY <1>5
  <2> HIDE DEF p, m
  <2> QED BY <2>1, <2>2, Zenon
<1>7. FourDigits(d, p + 6, end) = [ok |-> TRUE, at |-> p + 10, cp |-> lo]
  <2>1. FourDigits(d, m + 2, end) = [ok |-> TRUE, at |-> m + 6, cp |-> lo]
    BY <1>4 DEF EscapeOf
  <2>2. m + 6 = p + 10 /\ m + 2 = p + 6
    BY <1>5
  <2> HIDE DEF p, m
  <2> QED BY <2>1, <2>2, Zenon
<1>8. SecondEscape(d, p + 4, end)
  <2>1. m + 6 <= end /\ At(d, m) = Backslash /\ At(d, m + 1) = LetterU /\ m \in Nat /\ end \in Nat
    BY <1>4 DEF EscapeOf
  <2>2. end - m >= 6
    BY <2>1
  <2>3. SecondEscape(d, m, end)
    BY <2>1, <2>2 DEF SecondEscape
  <2> QED BY <1>5, <2>3
<1> HIDE DEF p, m, next
<1>9. CodePoint(d, p, end) = [ok |-> TRUE, at |-> p + 10, cp |-> OfSurrogates(hi, lo)]
  BY <1>1, <1>5, <1>6, <1>7, <1>8, PairRead
<1>10. CodePoint(d, p, end).ok /\ CodePoint(d, p, end).cp = v /\ CodePoint(d, p, end).at = next
  BY <1>1, <1>5, <1>9
<1>11. DecodedChar(d, q, end) = [ok |-> TRUE, s |-> UTF8(CodePoint(d, p, end).cp), at |-> CodePoint(d, p, end).at]
  BY <1>5, <1>10, OneChar DEF p
<1>12. DecodedChar(d, q, end) = [ok |-> TRUE, s |-> UTF8(v), at |-> next]
  BY <1>10, <1>11
<1> QED BY <1>12 DEF next

\* The high half that is written for a character beyond 262143, which is none.
FarHigh(cp) == 16384 * (cp \div 262144) + ((cp % 262144) \div 1024) - 10304

LEMMA FarHalves ==
  ASSUME NEW cp \in Character, cp >= 262144
  PROVE  /\ Seen(cp) \in Supplementary
         /\ Word(FirstHalf(Seen(cp))) = FarHigh(cp) /\ FarHigh(cp) \in Nat
         /\ FarHigh(cp) < 55296
         /\ Word(SecondHalf(Seen(cp))) = 56320 + (cp % 1024) /\ cp % 1024 \in Nat
<1> DEFINE k == 262144
           t == 1024
           a == cp \div k
           r == cp % k
           h == r \div t
           l == r % t
           v == Seen(cp)
<1>1. cp \in Nat /\ cp >= k /\ cp < 1114112 /\ k = 262144 /\ t = 1024
  BY DEF Character
<1>p. k \in Powers /\ t \in Powers /\ k \in Nat /\ t \in Nat /\ cp \in Nat
  BY DEF Character, Powers
<1>2. v = 16777216 * a + r
  BY <1>1 DEF Seen
<1>3. FarHigh(cp) = 16384 * a + h - 10304
  BY DEF FarHigh
<1> HIDE DEF v
<1>4. Word(SecondHalf(Seen(cp))) = Word(56320 + ((v - 65536) % t))
  BY DEF SecondHalf, v
<1>5. Word(FirstHalf(Seen(cp))) = Word(55296 + ((v - 65536) \div t))
  BY DEF FirstHalf, v
<1>6. cp % 1024 = cp % t
  OBVIOUS
<1> HIDE DEF k, t
<1>7. a \in Nat /\ r \in Nat /\ r < k /\ cp = k * a + r
  <2>1. a \in Nat /\ r \in 0 .. k - 1 /\ cp = k * a + r
    BY <1>p, Divided
  <2> QED BY <1>p, <2>1
<1>8. r \in Nat /\ r < 262144 /\ cp = 262144 * a + r
  BY <1>1, <1>7
<1> HIDE DEF a, r
<1>9. h \in Nat /\ l \in 0 .. t - 1 /\ r = t * h + l
  BY <1>p, <1>8, Divided
<1> HIDE DEF h, l
<1>10. l \in Nat /\ l < 1024 /\ r = 1024 * h + l
  BY <1>1, <1>9
<1>11. a >= 1 /\ a <= 4 /\ h < 256 /\ (a = 4 => h < 64)
  <2>1. h \in Nat /\ a \in Nat
    BY <1>7, <1>9
  <2> QED BY <1>1, <1>8, <1>10, <2>1
<1>12. /\ v - 65536 \in Nat /\ 16384 * a + h - 64 \in Nat /\ 256 * a + h \in Nat
       /\ v - 65536 = t * (16384 * a + h - 64) + l
       /\ cp = t * (256 * a + h) + l
  <2>1. h \in Nat /\ a \in Nat
    BY <1>7, <1>9
  <2> QED BY <1>1, <1>2, <1>8, <1>10, <1>11, <2>1
<1>13. (v - 65536) \div t = 16384 * a + h - 64 /\ (v - 65536) % t = l
  <2> DEFINE x == v - 65536
             y == 16384 * a + h - 64
  <2>1. x \in Nat /\ y \in Nat /\ x = t * y + l
    BY <1>12
  <2> HIDE DEF x, y
  <2>2. x \div t = y /\ x % t = l
    BY <1>7, <1>p, <1>9, <2>1, Undivided
  <2> QED BY <2>2 DEF x, y
<1>14. cp % t = l
  <2> DEFINE y == 256 * a + h
  <2>1. y \in Nat /\ cp = t * y + l
    BY <1>12
  <2> HIDE DEF y
  <2>2. l \in 0 .. t - 1 /\ t \in Powers /\ cp \in Nat
    BY <1>p, <1>9
  <2>3. cp \div t = y /\ cp % t = l
    BY <2>1, <2>2, Undivided
  <2> QED BY <2>3
<1>15. Word(56320 + l) = 56320 + l
  BY <1>10, Words16
<1>16. Word(55296 + (16384 * a + h - 64)) = 16384 * a + h - 10304
  <2> DEFINE x == 55296 + (16384 * a + h - 64)
  <2>1. x \in Nat /\ 65536 <= x /\ x < 131072 /\ x - 65536 = 16384 * a + h - 10304
    BY <1>7, <1>9, <1>11
  <2> HIDE DEF x
  <2>2. Word(x) = x - 65536
    BY <2>1, Words16
  <2> QED BY <2>1, <2>2 DEF x
<1>17. 16384 * a + h - 10304 \in Nat /\ 16384 * a + h - 10304 < 55296
  BY <1>7, <1>9, <1>11
<1>18. v \in Supplementary
  BY <1>2, <1>7, <1>8, <1>11 DEF Supplementary
<1> QED BY <1>3, <1>4, <1>5, <1>6, <1>10, <1>13, <1>14, <1>15, <1>16, <1>17, <1>18 DEF v

-----------------------------------------------------------------------------
(* What the reader makes of what is written for a character: the character *)
(* in most cases, and always characters that the writer can tell again.    *)
ReadBack(cp) ==
  IF cp < 57343 \/ (65536 <= cp /\ cp < 262144) THEN UTF8(cp)
  ELSE IF cp < 65536 THEN UTF8(65533)
  ELSE UTF8(FarHigh(cp)) \o UTF8(56320 + (cp % 1024))

ShortKind(cp) == cp \in DOMAIN ShortEscape /\ Escape(cp) = <<Backslash, ShortEscape[cp]>> /\ ReadBack(cp) = <<cp>>
PlainKind(cp) == /\ cp \in Nat /\ cp \notin DOMAIN ShortEscape
                 /\ Escape(cp) = <<cp>> /\ ReadBack(cp) = <<cp>>
NumberKind(cp, x) == x \in Nat /\ NotHigh(Word(x)) /\ Escape(cp) = UnicodeEscape(x) /\ ReadBack(cp) = UTF8(Word(x))
PairKind(cp) == cp \in Paired /\ Escape(cp) = SurrogatePair(cp) /\ ReadBack(cp) = UTF8(cp)
FarKind(cp, v) ==
  /\ v \in Supplementary /\ NotHigh(Word(FirstHalf(v))) /\ NotHigh(Word(SecondHalf(v)))
  /\ Escape(cp) = SurrogatePair(v)
  /\ ReadBack(cp) = UTF8(Word(FirstHalf(v))) \o UTF8(Word(SecondHalf(v)))

LEMMA Kinds ==
  ASSUME NEW cp \in Character
  PROVE  ShortKind(cp) \/ PlainKind(cp) \/ NumberKind(cp, Seen(cp)) \/ PairKind(cp) \/ FarKind(cp, Seen(cp))
<1>1. cp \in Nat /\ cp < 1114112 /\ NotHigh(cp)
  BY DEF Character, NotHigh
<1>2. Seen(cp) \in Nat /\ (Plain(Seen(cp)) <=> Plain(cp))
  BY SeenFacts
<1>3. CASE cp \in DOMAIN ShortEscape
  <2>1. cp < 128
    BY <1>3, ShortEscapes
  <2>2. ReadBack(cp) = <<cp>>
    BY <1>1, <2>1, Utf8Bytes DEF ReadBack
  <2>3. Escape(cp) = <<Backslash, ShortEscape[cp]>>
    BY <1>3 DEF Escape
  <2> QED BY <1>3, <2>2, <2>3 DEF ShortKind
<1>4. CASE cp \notin DOMAIN ShortEscape /\ Plain(cp)
  <2>1. cp <= 127
    BY <1>4 DEF Plain
  <2>2. ReadBack(cp) = <<cp>>
    BY <1>1, <2>1, Utf8Bytes DEF ReadBack
  <2>3. Escape(cp) = <<cp>>
    BY <1>4 DEF Escape
  <2> QED BY <1>1, <1>4, <2>2, <2>3 DEF PlainKind
<1>5. CASE cp \notin DOMAIN ShortEscape /\ ~Plain(cp) /\ cp < 65536
  <2> DEFINE x == Seen(cp)
  <2>1. x = IF cp < 57343 THEN cp ELSE 65533
    BY <1>1, <1>5 DEF Seen
  <2>2. ReadBack(cp) = IF cp < 57343 THEN UTF8(cp) ELSE UTF8(65533)
    BY <1>1, <1>5 DEF ReadBack
  <2>3. x < 65536
    BY <1>1, <1>5, <2>1
  <2>4. Escape(cp) = UnicodeEscape(x)
    BY <1>5, <2>3 DEF Escape
  <2> HIDE DEF x
  <2>5. x \in Nat
    BY <1>1, <2>1
  <2>6. Word(x) = x
    BY <2>3, <2>5, Words16
  <2>7. NotHigh(x)
    BY <1>1, <2>1, <2>5 DEF NotHigh
  <2>8. ReadBack(cp) = UTF8(x)
    BY <2>1, <2>2
  <2> QED BY <2>4, <2>5, <2>6, <2>7, <2>8 DEF NumberKind, x
<1>6. CASE 65536 <= cp /\ cp < 262144
  <2>1. Seen(cp) = cp /\ ReadBack(cp) = UTF8(cp)
    BY <1>6 DEF Seen, ReadBack
  <2>2. cp \notin DOMAIN ShortEscape /\ ~Plain(cp)
    BY <1>1, <1>6, ShortEscapes DEF Plain
  <2>3. Escape(cp) = SurrogatePair(cp)
    BY <1>1, <1>6, <2>1, <2>2 DEF Escape
  <2>4. cp \in Paired
    BY <1>1, <1>6 DEF Paired, Supplementary
  <2> QED BY <2>1, <2>3, <2>4 DEF PairKind
<1>7. CASE 262144 <= cp
  <2> DEFINE v == Seen(cp)
  <2>1. /\ v \in Supplementary /\ Word(FirstHalf(v)) = FarHigh(cp) /\ FarHigh(cp) \in Nat /\ FarHigh(cp) < 55296
        /\ Word(SecondHalf(v)) = 56320 + (cp % 1024) /\ cp % 1024 \in Nat
    BY <1>1, <1>7, FarHalves
  <2>2. ReadBack(cp) = UTF8(FarHigh(cp)) \o UTF8(56320 + (cp % 1024))
    BY <1>1, <1>7 DEF ReadBack
  <2>3. cp \notin DOMAIN ShortEscape /\ ~Plain(cp)
    BY <1>1, <1>7, ShortEscapes DEF Plain
  <2> HIDE DEF v
  <2>4. ~(v < 65536)
    BY <2>1 DEF Supplementary
  <2>5. Escape(cp) = SurrogatePair(v)
    BY <2>3, <2>4 DEF Escape, v
  <2>6. NotHigh(Word(FirstHalf(v))) /\ NotHigh(Word(SecondHalf(v)))
    BY <2>1 DEF NotHigh
  <2>7. ReadBack(cp) = UTF8(Word(FirstHalf(v))) \o UTF8(Word(SecondHalf(v)))
    BY <2>1, <2>2
  <2> QED BY <2>1, <2>5, <2>6, <2>7 DEF FarKind, v
<1> QED BY <1>1, <1>3, <1>4, <1>5, <1>6, <1>7

LEMMA PairType ==
  ASSUME NEW v \in Supplementary
  PROVE  SurrogatePair(v) \in Bytes /\ Len(SurrogatePair(v)) = 12
<1> DEFINE e1 == UnicodeEscape(FirstHalf(v))
           e2 == UnicodeEscape(SecondHalf(v))
           e == SurrogatePair(v)
<1>1. e = e1 \o e2 /\ FirstHalf(v) \in Nat /\ SecondHalf(v) \in Nat
  BY Halves
<1>2. e1 \in Bytes /\ Len(e1) = 6 /\ e2 \in Bytes /\ Len(e2) = 6
  BY <1>1, UnicodeEscapeType
<1> HIDE DEF e1, e2, e
<1>3. Glued(e, e1, e2)
  BY <1>1, <1>2, Put, Zenon
<1> QED BY <1>2, <1>3 DEF Glued, e

LEMMA EscapeType ==
  ASSUME NEW cp \in Character
  PROVE  /\ Escape(cp) \in Bytes /\ Len(Escape(cp)) \in Nat /\ Len(Escape(cp)) >= 1
         /\ ReadBack(cp) \in Bytes
<1>1. CASE ShortKind(cp)
  <2>1. ShortEscape[cp] \in Nat /\ Backslash \in Nat /\ cp \in Nat
    BY <1>1, ShortEscapes DEF ShortKind, Backslash, Character
  <2>2. Escape(cp) = <<Backslash, ShortEscape[cp]>> /\ ReadBack(cp) = <<cp>>
    BY <1>1 DEF ShortKind
  <2> QED BY <2>1, <2>2 DEF Bytes
<1>2. CASE PlainKind(cp)
  BY <1>2 DEF PlainKind, Bytes
<1>3. CASE NumberKind(cp, Seen(cp))
  BY <1>3, UnicodeEscapeType, UTF8Type DEF NumberKind, NotHigh
<1>4. CASE PairKind(cp)
  <2>1. cp \in Supplementary /\ cp \in Nat
    BY <1>4 DEF PairKind, Paired, Supplementary
  <2>2. Escape(cp) = SurrogatePair(cp) /\ ReadBack(cp) = UTF8(cp)
    BY <1>4 DEF PairKind
  <2>3. SurrogatePair(cp) \in Bytes /\ Len(SurrogatePair(cp)) = 12
    BY <2>1, PairType
  <2>4. UTF8(cp) \in Bytes
    BY <2>1, UTF8Type
  <2> QED BY <2>2, <2>3, <2>4
<1>5. CASE FarKind(cp, Seen(cp))
  <2> DEFINE v == Seen(cp)
             s == UTF8(Word(FirstHalf(v)))
             t == UTF8(Word(SecondHalf(v)))
  <2>1. Escape(cp) = SurrogatePair(v) /\ v \in Supplementary
    BY <1>5 DEF FarKind
  <2>2. s \in Bytes /\ t \in Bytes
    BY <1>5, UTF8Type DEF FarKind, NotHigh
  <2>3. ReadBack(cp) = s \o t
    BY <1>5 DEF FarKind
  <2> HIDE DEF s, t
  <2>4. ReadBack(cp) \in Bytes
    BY <2>2, <2>3 DEF Bytes
  <2> QED BY <2>1, <2>4, PairType
<1> QED BY <1>1, <1>2, <1>3, <1>4, <1>5, Kinds

Result == [ok : BOOLEAN, s : Bytes]

\* The function of DecodeString.
DecodeOf(f, d, end) ==
  /\ f \in [0 .. end -> Result]
  /\ \A q \in 0 .. end :
       f[q] = IF q = end THEN [ok |-> TRUE, s |-> <<>>]
              ELSE IF DecodedChar(d, q, end).ok
              THEN [ok |-> f[DecodedChar(d, q, end).at].ok,
                    s |-> DecodedChar(d, q, end).s \o f[DecodedChar(d, q, end).at].s]
              ELSE [ok |-> FALSE, s |-> <<>>]

\* From q to m the bytes s are decoded.
Gives(f, q, s, m) == f[q].ok = f[m].ok /\ f[q].s = s \o f[m].s

LEMMA OneTaken ==
  ASSUME NEW d, NEW end \in Nat, NEW f, DecodeOf(f, d, end), NEW q \in Nat, q < end, NEW s, NEW m,
         DecodedChar(d, q, end) = [ok |-> TRUE, s |-> s, at |-> m]
  PROVE  Gives(f, q, s, m)
<1>1. DecodedChar(d, q, end).ok /\ DecodedChar(d, q, end).at = m /\ DecodedChar(d, q, end).s = s
  OBVIOUS
<1>2. q \in 0 .. end /\ q # end
  OBVIOUS
<1>3. f[q] = [ok |-> f[m].ok, s |-> s \o f[m].s]
  BY <1>1, <1>2, Zenon DEF DecodeOf
<1> DEFINE r == f[q]
           a == f[m].ok
           b == s \o f[m].s
<1> HIDE DEF a, b, r
<1>4. r.ok = a /\ r.s = b
  <2>1. r = [ok |-> a, s |-> b]
    BY <1>3, Zenon DEF a, b, r
  <2> QED BY <2>1
<1> QED BY <1>4 DEF Gives, a, b, r

LEMMA Associative ==
  ASSUME NEW s \in Seq(Nat), NEW t \in Seq(Nat), NEW r \in Seq(Nat)
  PROVE  s \o (t \o r) = (s \o t) \o r
OBVIOUS

LEMMA TwoTaken ==
  ASSUME NEW f, NEW q, NEW s \in Bytes, NEW m, NEW t \in Bytes, NEW n, f[n].s \in Bytes,
         Gives(f, q, s, m), Gives(f, m, t, n)
  PROVE  Gives(f, q, s \o t, n)
<1>1. f[q].ok = f[n].ok
  BY DEF Gives
<1> DEFINE r == f[n].s
<1>2. f[q].s = s \o (t \o r)
  BY DEF Gives
<1> HIDE DEF r
<1>3. s \o (t \o r) = (s \o t) \o r
  <2>1. s \in Seq(Nat) /\ t \in Seq(Nat) /\ r \in Seq(Nat)
    BY DEF Bytes, r
  <2> QED BY <2>1, Associative
<1> QED BY <1>1, <1>2, <1>3 DEF Gives, r

LEMMA EndStands ==
  ASSUME NEW e, NEW d, NEW q, NEW end, Stands(e, d, q, end), Len(e) >= 1
  PROVE  q \in Nat /\ end \in Nat /\ q < end /\ q + Len(e) \in 0 .. end /\ At(d, q) = e[1]
<1>1. q \in Nat /\ end \in Nat /\ Len(e) \in Nat /\ q + Len(e) <= end
  BY DEF Stands
<1>2. At(d, q + (1 - 1)) = e[1]
  BY <1>1 DEF Stands
<1>3. q + (1 - 1) = q
  BY <1>1
<1> QED BY <1>1, <1>2, <1>3

LEMMA PieceTaken ==
  ASSUME NEW cp \in Character, NEW d, NEW q, NEW end, Stands(Escape(cp), d, q, end),
         NEW f, DecodeOf(f, d, end)
  PROVE  Gives(f, q, ReadBack(cp), q + Len(Escape(cp)))
<1> DEFINE e == Escape(cp)
           next == q + Len(e)
<1>1. q \in Nat /\ end \in Nat /\ q < end /\ next \in 0 .. end /\ At(d, q) = e[1]
  BY EscapeType, EndStands
<1>2. CASE ShortKind(cp)
  <2>1. e = <<Backslash, ShortEscape[cp]>>
    BY <1>2 DEF ShortKind
  <2>2. Len(e) = 2 /\ e[1] = Backslash /\ e[2] = ShortEscape[cp]
    BY <2>1
  <2> HIDE DEF e
  <2>3. next = q + 2 /\ q + 1 < end /\ At(d, q) = Backslash
    BY <1>1, <2>2
  <2>4. At(d, q + 1) = ShortEscape[cp]
    <3>1. At(d, q + (2 - 1)) = e[2]
      BY <2>2 DEF Stands, e
    <3>2. q + (2 - 1) = q + 1
      BY <1>1
    <3> QED BY <2>2, <3>1, <3>2
  <2>5. ShortEscape[cp] \in DOMAIN Escapes /\ Escapes[ShortEscape[cp]] = cp
    BY <1>2, ShortEscapes DEF ShortKind
  <2> HIDE DEF next
  <2>6. DecodedChar(d, q, end) = [ok |-> TRUE, s |-> <<cp>>, at |-> next]
    BY <1>1, <2>3, <2>4, <2>5, OneChar
  <2>7. Gives(f, q, <<cp>>, next)
    BY <1>1, <2>6, OneTaken
  <2>8. ReadBack(cp) = <<cp>>
    BY <1>2 DEF ShortKind
  <2> QED BY <2>7, <2>8 DEF next, e
<1>3. CASE PlainKind(cp)
  <2>1. e = <<cp>> /\ cp \notin DOMAIN ShortEscape /\ ReadBack(cp) = <<cp>>
    BY <1>3 DEF PlainKind
  <2>2. cp # Backslash
    BY <2>1, ShortEscapes DEF Backslash
  <2>3. Len(e) = 1 /\ e[1] = cp
    BY <2>1
  <2> HIDE DEF e
  <2>4. next = q + 1 /\ At(d, q) = cp
    BY <1>1, <2>3
  <2> HIDE DEF next
  <2>5. DecodedChar(d, q, end) = [ok |-> TRUE, s |-> <<cp>>, at |-> next]
    BY <1>1, <2>2, <2>4, OneChar
  <2>6. Gives(f, q, <<cp>>, next)
    BY <1>1, <2>5, OneTaken
  <2> QED BY <2>1, <2>6 DEF next, e
<1>4. CASE NumberKind(cp, Seen(cp))
  <2> DEFINE x == Seen(cp)
  <2>1. x \in Nat /\ NotHigh(Word(x)) /\ e = UnicodeEscape(x) /\ ReadBack(cp) = UTF8(Word(x))
    BY <1>4 DEF NumberKind
  <2> HIDE DEF x
  <2>2. Len(e) = 6
    BY <2>1, UnicodeEscapeType
  <2>3. Stands(UnicodeEscape(x), d, q, end)
    BY <2>1
  <2>4. DecodedChar(d, q, end) = [ok |-> TRUE, s |-> UTF8(Word(x)), at |-> q + 6]
    BY <2>1, <2>3, UnicodeRead
  <2>5. Gives(f, q, UTF8(Word(x)), q + 6)
    BY <1>1, <2>4, OneTaken
  <2> QED BY <2>1, <2>2, <2>5, Zenon
<1>5. CASE PairKind(cp)
  <2>1. cp \in Paired /\ cp \in Supplementary /\ e = SurrogatePair(cp) /\ ReadBack(cp) = UTF8(cp)
    BY <1>5 DEF PairKind, Paired
  <2>2. Len(e) = 12
    BY <2>1, PairType
  <2>3. Stands(SurrogatePair(cp), d, q, end)
    BY <2>1
  <2>4. DecodedChar(d, q, end) = [ok |-> TRUE, s |-> UTF8(cp), at |-> q + 12]
    BY <2>1, <2>3, PairTaken
  <2>5. Gives(f, q, UTF8(cp), q + 12)
    BY <1>1, <2>4, OneTaken
  <2> QED BY <2>1, <2>2, <2>5, Zenon
<1>6. CASE FarKind(cp, Seen(cp))
  <2> DEFINE v == Seen(cp)
             x == FirstHalf(v)
             y == SecondHalf(v)
             s == UTF8(Word(x))
             t == UTF8(Word(y))
             m == q + 6
  <2>1. /\ v \in Supplementary /\ e = SurrogatePair(v) /\ ReadBack(cp) = s \o t
        /\ NotHigh(Word(x)) /\ NotHigh(Word(y))
    BY <1>6 DEF FarKind
  <2> HIDE DEF v
  <2>2. x \in Nat /\ y \in Nat /\ Len(e) = 12
    BY <2>1, Halves, PairType
  <2>3. Stands(UnicodeEscape(x), d, q, end) /\ Stands(UnicodeEscape(y), d, m, end)
    BY <2>1, BothStand
  <2> HIDE DEF x, y
  <2>a. DecodedChar(d, q, end) = [ok |-> TRUE, s |-> s, at |-> m]
    BY <2>1, <2>2, <2>3, UnicodeRead
  <2> HIDE DEF m
  <2>b. DecodedChar(d, m, end) = [ok |-> TRUE, s |-> t, at |-> m + 6]
    BY <2>1, <2>2, <2>3, UnicodeRead
  <2>5. s \in Bytes /\ t \in Bytes
    BY <2>1, UTF8Type DEF NotHigh
  <2>6. m \in Nat /\ m < end /\ m + 6 = next
    BY <1>1, <2>2 DEF m
  <2> HIDE DEF s, t, next
  <2>7. Gives(f, q, s, m) /\ Gives(f, m, t, next)
    BY <1>1, <2>a, <2>b, <2>6, OneTaken
  <2>8. f[next].s \in Bytes
    BY <1>1 DEF DecodeOf, Result
  <2>9. Gives(f, q, s \o t, next)
    BY <2>5, <2>7, <2>8, TwoTaken
  <2> QED BY <2>1, <2>9 DEF next, e
<1> QED BY <1>2, <1>3, <1>4, <1>5, <1>6, Kinds

\* The function of ReadString.
ScanOf(g, d) ==
  \A q \in 0 .. Len(d) + 1 :
    g[q] = CASE q >= Len(d)           -> [ok |-> FALSE, at |-> Len(d)]
             [] At(d, q) = Quote      -> [ok |-> TRUE, at |-> q + 1]
             [] At(d, q) = Backslash  -> g[q + 2]
             [] OTHER                 -> g[q + 1]

\* From q the function goes on behind the character there, or behind the next.
OneSkip(g, d, q) ==
  /\ At(d, q) = Backslash => g[q] = g[q + 2]
  /\ At(d, q) # Backslash /\ At(d, q) # Quote => g[q] = g[q + 1]
  /\ At(d, q) = Quote => g[q] = [ok |-> TRUE, at |-> q + 1]

LEMMA OneSkipped ==
  ASSUME NEW d, Len(d) \in Nat, NEW g, ScanOf(g, d), NEW q \in Nat, q < Len(d)
  PROVE  OneSkip(g, d, q)
<1>1. q \in 0 .. Len(d) + 1 /\ ~(q >= Len(d))
  OBVIOUS
<1>2. Quote # Backslash
  BY DEF Quote, Backslash
<1>3. CASE At(d, q) = Backslash
  BY <1>1, <1>2, <1>3 DEF ScanOf, OneSkip
<1>4. CASE At(d, q) # Backslash /\ At(d, q) # Quote
  BY <1>1, <1>4 DEF ScanOf, OneSkip
<1>5. CASE At(d, q) = Quote
  BY <1>1, <1>2, <1>5 DEF ScanOf, OneSkip
<1> QED BY <1>2, <1>3, <1>4, <1>5 DEF OneSkip

LEMMA NoHexDigit ==
  ASSUME NEW c \in DOMAIN HexDigit
  PROVE  c # Backslash /\ c # Quote
<1>1. DOMAIN HexDigit = Digits \cup (97 .. 102) \cup (65 .. 70)
  BY Zenon DEF HexDigit
<1> QED BY <1>1 DEF Digits, Backslash, Quote

LEMMA UnicodeSkipped ==
  ASSUME NEW x \in Nat, NEW d, Len(d) \in Nat, NEW q, NEW end, Stands(UnicodeEscape(x), d, q, end),
         end < Len(d), NEW g, ScanOf(g, d)
  PROVE  g[q] = g[q + 6]
<1> DEFINE u == UnicodeEscape(x)
<1>1. Len(u) = 6 /\ \A k \in 3 .. 6 : u[k] # Backslash /\ u[k] # Quote
  BY UnicodeEscapeType, NoHexDigit
<1>2. At(d, q) = Backslash /\ q \in Nat /\ end \in Nat /\ q + 6 <= end
  <2>1. EscapeOf(Word(x), d, q, end)
    BY EscapeRead
  <2> QED BY <2>1 DEF EscapeOf
<1> HIDE DEF u
<1>3. \A k \in 3 .. 6 : At(d, q + (k - 1)) # Backslash /\ At(d, q + (k - 1)) # Quote
  <2>1. \A k \in 1 .. Len(u) : At(d, q + (k - 1)) = u[k]
    BY DEF Stands, u
  <2> QED BY <1>1, <2>1
<1>4. \A k \in 3 .. 6 : g[q + (k - 1)] = g[(q + (k - 1)) + 1]
  <2> TAKE k \in 3 .. 6
  <2> DEFINE m == q + (k - 1)
  <2>1. m \in Nat /\ m < Len(d)
    BY <1>2
  <2>2. At(d, m) # Backslash /\ At(d, m) # Quote
    BY <1>3
  <2> HIDE DEF m
  <2>3. OneSkip(g, d, m)
    BY <2>1, OneSkipped
  <2>4. g[m] = g[m + 1]
    BY <2>2, <2>3 DEF OneSkip
  <2> QED BY <2>4 DEF m
<1>5. g[q] = g[q + 2]
  <2>1. q < Len(d)
    BY <1>2
  <2>2. OneSkip(g, d, q)
    BY <1>2, <2>1, OneSkipped
  <2> QED BY <1>2, <2>2 DEF OneSkip
<1>6. /\ g[q + (3 - 1)] = g[(q + (3 - 1)) + 1] /\ g[q + (4 - 1)] = g[(q + (4 - 1)) + 1]
      /\ g[q + (5 - 1)] = g[(q + (5 - 1)) + 1] /\ g[q + (6 - 1)] = g[(q + (6 - 1)) + 1]
  BY <1>4
<1>7. /\ q + (3 - 1) = q + 2 /\ (q + (3 - 1)) + 1 = q + 3 /\ q + (4 - 1) = q + 3 /\ (q + (4 - 1)) + 1 = q + 4
      /\ q + (5 - 1) = q + 4 /\ (q + (5 - 1)) + 1 = q + 5 /\ q + (6 - 1) = q + 5 /\ (q + (6 - 1)) + 1 = q + 6
  BY <1>2
<1> QED BY <1>5, <1>6, <1>7

LEMMA PieceSkipped ==
  ASSUME NEW cp \in Character, NEW d, Len(d) \in Nat, NEW q, NEW end, Stands(Escape(cp), d, q, end),
         end < Len(d), NEW g, ScanOf(g, d)
  PROVE  g[q] = g[q + Len(Escape(cp))]
<1> DEFINE e == Escape(cp)
<1>1. q \in Nat /\ end \in Nat /\ q < end /\ At(d, q) = e[1] /\ q < Len(d)
  BY EscapeType, EndStands
<1>s. OneSkip(g, d, q)
  BY <1>1, OneSkipped
<1>2. CASE ShortKind(cp)
  <2>1. e = <<Backslash, ShortEscape[cp]>>
    BY <1>2 DEF ShortKind
  <2>2. Len(e) = 2 /\ e[1] = Backslash
    BY <2>1
  <2> HIDE DEF e
  <2>3. g[q] = g[q + 2]
    BY <1>1, <1>s, <2>2 DEF OneSkip
  <2> QED BY <2>2, <2>3 DEF e
<1>3. CASE PlainKind(cp)
  <2>1. e = <<cp>> /\ cp \notin DOMAIN ShortEscape
    BY <1>3 DEF PlainKind
  <2>2. Len(e) = 1 /\ e[1] # Backslash /\ e[1] # Quote
    BY <2>1, ShortEscapes DEF Backslash, Quote
  <2> HIDE DEF e
  <2>3. g[q] = g[q + 1]
    BY <1>1, <1>s, <2>2 DEF OneSkip
  <2> QED BY <2>2, <2>3 DEF e
<1>4. CASE NumberKind(cp, Seen(cp))
  <2> DEFINE x == Seen(cp)
  <2>1. x \in Nat /\ e = UnicodeEscape(x)
    BY <1>4 DEF NumberKind
  <2> HIDE DEF x
  <2>2. Len(e) = 6 /\ Stands(UnicodeEscape(x), d, q, end)
    BY <2>1, UnicodeEscapeType
  <2>3. g[q] = g[q + 6]
    BY <1>1, <2>1, <2>2, UnicodeSkipped
  <2> QED BY <2>2, <2>3, Zenon
<1>5. ASSUME NEW v \in Supplementary, e = SurrogatePair(v) PROVE g[q] = g[q + Len(e)]
  <2> DEFINE x == FirstHalf(v)
             y == SecondHalf(v)
             m == q + 6
  <2>1. x \in Nat /\ y \in Nat /\ Len(e) = 12
    BY <1>5, Halves, PairType
  <2>2. Stands(UnicodeEscape(x), d, q, end) /\ Stands(UnicodeEscape(y), d, m, end)
    BY <1>5, BothStand
  <2> HIDE DEF x, y, e
  <2>3. g[q] = g[m]
    BY <1>1, <2>1, <2>2, UnicodeSkipped
  <2>4. m + 6 = q + 12
    BY <1>1
  <2> HIDE DEF m
  <2>5. g[m] = g[m + 6]
    BY <1>1, <2>1, <2>2, UnicodeSkipped
  <2> QED BY <2>1, <2>3, <2>4, <2>5
<1>6. CASE PairKind(cp) \/ FarKind(cp, Seen(cp))
  <2>1. \E v \in Supplementary : e = SurrogatePair(v)
    BY <1>6 DEF PairKind, FarKind, Paired
  <2> HIDE DEF e
  <2>2. g[q] = g[q + Len(e)]
    BY <1>5, <2>1, Zenon
  <2> QED BY <2>2 DEF e
<1> QED BY <1>2, <1>3, <1>4, <1>6, Kinds

-----------------------------------------------------------------------------
(* What the recursive functions of Json are: for any text they have a      *)
(* value everywhere.                                                       *)

LEMMA AtType ==
  ASSUME NEW d \in Bytes, NEW p \in Nat
  PROVE  At(d, p) \in Nat
BY DEF At, Bytes

LEMMA HexType ==
  ASSUME NEW c \in DOMAIN HexDigit
  PROVE  HexDigit[c] \in Nat
<1>1. DOMAIN HexDigit = Digits \cup (97 .. 102) \cup (65 .. 70)
  BY Zenon DEF HexDigit
<1>2. c \in Nat
  BY <1>1 DEF Digits
<1> QED BY <1>2, HexDigits

\* An escape that was read ends before the location end.
Within(u, p, end) == u.ok => u.cp \in Nat /\ u.at \in p .. end

LEMMA FourDigitsType ==
  ASSUME NEW d, NEW p \in Nat, NEW end \in Nat
  PROVE  Within(FourDigits(d, p, end), p, end)
<1> DEFINE digits == [i \in 1 .. 4 |-> At(d, p + i - 1)]
           u == FourDigits(d, p, end)
           next == p + 4
<1>1. u = IF end - p >= 4 /\ AllHex(digits) THEN [ok |-> TRUE, at |-> next, cp |-> HexNumber(digits)]
          ELSE [ok |-> FALSE, at |-> next, cp |-> 0]
  BY Zenon DEF FourDigits
<1> HIDE DEF digits, u
<1>2. CASE end - p >= 4 /\ AllHex(digits)
  <2>1. \A i \in 1 .. 4 : HexDigit[digits[i]] \in Nat
    BY <1>2, HexType DEF AllHex
  <2>2. HexNumber(digits) \in Nat
    BY <2>1 DEF HexNumber
  <2>3. next \in p .. end
    BY <1>2
  <2> HIDE DEF next
  <2>4. u.ok = TRUE /\ u.at = next /\ u.cp = HexNumber(digits)
    BY <1>1, <1>2
  <2> QED BY <2>2, <2>3, <2>4 DEF Within, u
<1>3. CASE ~(end - p >= 4 /\ AllHex(digits))
  <2> HIDE DEF next
  <2>1. u.ok = FALSE
    BY <1>1, <1>3
  <2> QED BY <2>1 DEF Within, u
<1> QED BY <1>2, <1>3

LEMMA CodePointType ==
  ASSUME NEW d, NEW p \in Nat, NEW end \in Nat
  PROVE  Within(CodePoint(d, p, end), p, end)
<1> DEFINE high == FourDigits(d, p, end)
           low == FourDigits(d, p + 6, end)
           u == CodePoint(d, p, end)
           cp == OfSurrogates(high.cp, low.cp)
<1>1. Within(high, p, end) /\ Within(low, p + 6, end)
  BY FourDigitsType
<1>2. u = IF ~high.ok \/ high.cp < 55296 \/ 56319 < high.cp THEN high
          ELSE IF SecondEscape(d, p + 4, end) /\ low.ok
               THEN [ok |-> TRUE, at |-> p + 10, cp |-> cp]
               ELSE [ok |-> FALSE, at |-> p + 4, cp |-> 0]
  BY SMT DEF CodePoint
<1> HIDE DEF high, low, u, cp
<1>3. CASE ~high.ok \/ high.cp < 55296 \/ 56319 < high.cp
  <2>1. u = high
    BY <1>2, <1>3
  <2> QED BY <1>1, <2>1 DEF u
<1>4. CASE high.ok /\ ~(high.cp < 55296 \/ 56319 < high.cp) /\ SecondEscape(d, p + 4, end) /\ low.ok
  <2>1. u.at = p + 10 /\ u.cp = cp
    BY <1>2, <1>4
  <2>2. p + 10 <= end
    BY <1>4 DEF SecondEscape
  <2>3. high.cp \in Nat /\ low.cp \in Nat
    BY <1>1, <1>4 DEF Within
  <2>4. cp \in Nat
    BY <2>3 DEF cp, OfSurrogates, Low
  <2> QED BY <2>1, <2>2, <2>4 DEF Within, u
<1>5. CASE high.ok /\ ~(high.cp < 55296 \/ 56319 < high.cp) /\ ~(SecondEscape(d, p + 4, end) /\ low.ok)
  <2>1. u.ok = FALSE
    BY <1>2, <1>5
  <2> QED BY <2>1 DEF Within, u
<1> QED BY <1>3, <1>4, <1>5

LEMMA DecodedCharType ==
  ASSUME NEW d \in Bytes, NEW end \in Nat, NEW q \in 0 .. end, q # end, DecodedChar(d, q, end).ok
  PROVE  DecodedChar(d, q, end).s \in Bytes /\ DecodedChar(d, q, end).at \in q + 1 .. end
<1> DEFINE char == DecodedChar(d, q, end)
           c == At(d, q)
           escape == At(d, q + 1)
           u == CodePoint(d, q + 2, end)
<1>1. q \in Nat /\ q + 1 \in Nat /\ q + 1 <= end /\ q + 2 \in Nat
  OBVIOUS
<1>2. c \in Nat /\ escape \in Nat
  BY <1>1, AtType
<1>3. CASE c # Backslash
  <2>1. char = [ok |-> TRUE, s |-> <<c>>, at |-> q + 1]
    BY <1>1, <1>3, OneChar
  <2> HIDE DEF char, c
  <2>2. char.s = <<c>> /\ char.at = q + 1
    BY <2>1
  <2>3. <<c>> \in Bytes
    BY <1>2 DEF Bytes
  <2> QED BY <1>1, <2>2, <2>3 DEF char
<1>4. CASE c = Backslash /\ q + 1 < end /\ escape \in DOMAIN Escapes
  <2>1. char = [ok |-> TRUE, s |-> <<Escapes[escape]>>, at |-> q + 2]
    BY <1>1, <1>4, OneChar
  <2>2. Escapes[escape] \in Nat
    <3>1. DOMAIN Escapes = {34, 47, 92, 98, 102, 110, 114, 116}
      BY Zenon DEF Escapes
    <3> HIDE DEF escape
    <3> QED BY <1>4, <3>1 DEF Escapes
  <2> HIDE DEF char, escape
  <2>3. char.s = <<Escapes[escape]>> /\ char.at = q + 2
    BY <2>1
  <2>4. <<Escapes[escape]>> \in Bytes
    BY <2>2 DEF Bytes
  <2> QED BY <1>1, <1>4, <2>3, <2>4 DEF char
<1>5. CASE c = Backslash /\ q + 1 < end /\ escape \notin DOMAIN Escapes /\ escape = LetterU /\ u.ok
  <2>1. char = [ok |-> TRUE, s |-> UTF8(u.cp), at |-> u.at]
    BY <1>1, <1>5, OneChar
  <2>2. u.cp \in Nat /\ u.at \in q + 2 .. end
    BY <1>1, <1>5, CodePointType DEF Within
  <2> HIDE DEF char, u
  <2>3. char.s = UTF8(u.cp) /\ char.at = u.at
    BY <2>1
  <2> QED BY <1>1, <2>2, <2>3, UTF8Type DEF char
<1>6. CASE /\ c = Backslash /\ ~(q + 1 < end /\ escape \in DOMAIN Escapes)
           /\ ~(q + 1 < end /\ escape = LetterU /\ u.ok)
  <2>1. char.ok = FALSE
    BY <1>6 DEF DecodedChar
  <2> QED BY <2>1
<1> QED BY <1>3, <1>4, <1>5, <1>6

LEMMA DecodeStringIs ==
  ASSUME NEW d \in Bytes, NEW end \in Nat
  PROVE  \E f : DecodeOf(f, d, end) /\ \A p : DecodeString(d, p, end) = f[p]
<1> DEFINE lo == 0
           Char(q) == DecodedChar(d, q, end)
           Go == {q \in 0 .. end : q # end /\ Char(q).ok}
           next == [q \in 0 .. end |-> Char(q).at]
           base == [q \in 0 .. end |-> IF q = end THEN [ok |-> TRUE, s |-> <<>>] ELSE [ok |-> FALSE, s |-> <<>>]]
           step == [q \in 0 .. end |-> [r \in Result |-> [ok |-> r.ok, s |-> Char(q).s \o r.s]]]
           Value(f, q) == IF q = end THEN [ok |-> TRUE, s |-> <<>>]
                          ELSE IF Char(q).ok THEN [ok |-> f[Char(q).at].ok, s |-> Char(q).s \o f[Char(q).at].s]
                          ELSE [ok |-> FALSE, s |-> <<>>]
           Is(f) == f = [q \in 0 .. end |-> Value(f, q)]
           F == CHOOSE f : Is(f)
<1>1. \A p : DecodeString(d, p, end) = F[p]
  BY Zenon DEF DecodeString
<1>2. lo \in Int /\ end \in Int /\ lo <= end /\ lo .. end = 0 .. end
  OBVIOUS
<1>3. Leads(lo, end, Result, Go, next, base, step)
  <2> SUFFICES ASSUME NEW q \in 0 .. end
               PROVE  /\ q \in Go => next[q] \in q + 1 .. end /\ \A r \in Result : step[q][r] \in Result
                      /\ q \notin Go => base[q] \in Result
    BY <1>2, Zenon DEF Leads
  <2>1. base[q] \in Result
    BY DEF Result, Bytes
  <2>2. ASSUME q \in Go PROVE next[q] \in q + 1 .. end /\ Char(q).s \in Bytes
    BY <2>2, DecodedCharType
  <2>3. ASSUME q \in Go, NEW r \in Result PROVE step[q][r] \in Result
    <3> DEFINE s == Char(q).s
               t == r.s
    <3>1. s \in Bytes /\ t \in Bytes /\ r.ok \in BOOLEAN
      BY <2>2, <2>3 DEF Result
    <3>2. step[q][r] = [ok |-> r.ok, s |-> s \o t]
      BY Zenon
    <3> HIDE DEF s, t, step
    <3>3. s \o t \in Bytes
      BY <3>1 DEF Bytes
    <3> QED BY <3>1, <3>2, <3>3 DEF Result
  <2> HIDE DEF step, next, Go, base
  <2> QED BY <2>1, <2>2, <2>3
<1>4. PICK f \in [lo .. end -> Result] : Follows(f, lo, end, Go, next, base, step)
  <2> HIDE DEF lo, Go, next, base, step
  <2> QED BY <1>2, <1>3, Jumps
<1>5. f \in [0 .. end -> Result]
  BY <1>2
<1>6. ASSUME NEW q \in 0 .. end PROVE f[q] = Value(f, q)
  <2>1. f[q] = IF q \in Go THEN step[q][f[next[q]]] ELSE base[q]
    <3> HIDE DEF Go, next, base, step
    <3> QED BY <1>2, <1>4, Zenon DEF Follows
  <2>2. CASE q \in Go
    <3>1. next[q] = Char(q).at /\ q # end /\ Char(q).ok
      BY <2>2
    <3>2. f[next[q]] \in Result
      <4>1. next[q] \in 0 .. end
        <5>1. next[q] \in q + 1 .. end
          BY <1>2, <1>3, <2>2, Zenon DEF Leads
        <5> HIDE DEF next
        <5> QED BY <5>1
      <4> HIDE DEF next
      <4> QED BY <1>5, <4>1
    <3>3. step[q][f[next[q]]] = [ok |-> f[next[q]].ok, s |-> Char(q).s \o f[next[q]].s]
      BY <3>2, Zenon
    <3> HIDE DEF step, next, Go, base
    <3> QED BY <2>1, <2>2, <3>1, <3>3, Zenon
  <2>3. CASE q \notin Go
    <3>1. base[q] = Value(f, q)
      BY <2>3, Zenon
    <3> HIDE DEF step, next, Go, base, Value
    <3> QED BY <2>1, <2>3, <3>1, Zenon
  <2> QED BY <2>2, <2>3
<1>7. Is(f)
  <2>1. f = [q \in 0 .. end |-> f[q]]
    BY <1>5
  <2> HIDE DEF Value
  <2> QED BY <1>6, <2>1, Zenon
<1>8. Is(F)
  <2> HIDE DEF Is
  <2> QED BY <1>7
<1>9. \A q \in 0 .. end : F[q] = Value(F, q)
  <2> HIDE DEF F, Value
  <2> QED BY <1>8, Zenon
<1>10. \A q \in 0 .. end : F[q] = f[q]
  <2> DEFINE T == {q \in lo .. end : F[q] = f[q]}
  <2> HIDE DEF F
  <2>1. ASSUME NEW q \in lo .. end, q + 1 .. end \subseteq T PROVE q \in T
    <3>1. q \in 0 .. end
      BY <1>2
    <3>2. q # end /\ Char(q).ok => Char(q).at \in q + 1 .. end
      BY <3>1, DecodedCharType
    <3>3. q # end /\ Char(q).ok => F[Char(q).at] = f[Char(q).at]
      BY <2>1, <3>2
    <3>4. F[q] = Value(F, q) /\ f[q] = Value(f, q)
      BY <1>6, <1>9, <3>1
    <3>5. F[q] = f[q]
      BY <3>3, <3>4, Zenon
    <3> QED BY <3>5
  <2> HIDE DEF T, lo
  <2>2. lo .. end \subseteq T
    BY <1>2, <2>1, Downward, Zenon
  <2> QED BY <1>2, <2>2 DEF T
<1>11. F \in [0 .. end -> Result]
  <2>1. F = [q \in 0 .. end |-> F[q]]
    <3> HIDE DEF F, Value
    <3>1. F = [q \in 0 .. end |-> Value(F, q)]
      BY <1>8
    <3> QED BY <3>1
  <2> HIDE DEF F
  <2> QED BY <1>5, <1>10, <2>1
<1>12. DecodeOf(F, d, end)
  <2> HIDE DEF F
  <2> QED BY <1>9, <1>11, Zenon DEF DecodeOf
<1> QED BY <1>1, <1>12, Zenon

LEMMA ReadStringIs ==
  ASSUME NEW d, Len(d) \in Nat
  PROVE  \E g : ScanOf(g, d) /\ \A p : ReadString(d, p) = g[p]
<1> DEFINE lo == 0
           hi == Len(d) + 1
           S == [ok : BOOLEAN, at : Nat]
           Ends == [ok |-> FALSE, at |-> Len(d)]
           Go == {q \in 0 .. hi : ~(q >= Len(d)) /\ At(d, q) # Quote}
           next == [q \in 0 .. hi |-> IF At(d, q) = Backslash THEN q + 2 ELSE q + 1]
           base == [q \in 0 .. hi |-> IF q >= Len(d) THEN Ends ELSE [ok |-> TRUE, at |-> q + 1]]
           step == [q \in 0 .. hi |-> [r \in S |-> r]]
           Value(g, q) == CASE q >= Len(d)           -> Ends
                            [] At(d, q) = Quote      -> [ok |-> TRUE, at |-> q + 1]
                            [] At(d, q) = Backslash  -> g[q + 2]
                            [] OTHER                 -> g[q + 1]
           Is(g) == g = [q \in 0 .. Len(d) + 1 |-> Value(g, q)]
           G == CHOOSE g : Is(g)
<1>1. \A p : ReadString(d, p) = G[p]
  BY Zenon DEF ReadString
<1>2. lo \in Int /\ hi \in Int /\ lo <= hi /\ lo .. hi = 0 .. hi
  OBVIOUS
<1>3. Quote # Backslash
  BY DEF Quote, Backslash
<1>4. ASSUME NEW q \in 0 .. hi
      PROVE  /\ q \in Go => next[q] \in q + 1 .. hi
             /\ \A r \in S : step[q][r] = r
             /\ base[q] \in S
  OBVIOUS
<1>5. Leads(lo, hi, S, Go, next, base, step)
  <2> HIDE DEF lo, hi, S, Go, next, base, step
  <2> QED BY <1>2, <1>4, Zenon DEF Leads
<1>6. PICK f \in [lo .. hi -> S] : Follows(f, lo, hi, Go, next, base, step)
  <2> HIDE DEF lo, hi, S, Go, next, base, step
  <2> QED BY <1>2, <1>5, Jumps
<1>7. f \in [0 .. hi -> S]
  BY <1>2
<1>8. ASSUME NEW q \in 0 .. hi PROVE f[q] = Value(f, q)
  <2>1. f[q] = IF q \in Go THEN step[q][f[next[q]]] ELSE base[q]
    <3> HIDE DEF hi, Go, next, base, step
    <3> QED BY <1>2, <1>6, Zenon DEF Follows
  <2>2. CASE q \in Go
    <3>1. next[q] = IF At(d, q) = Backslash THEN q + 2 ELSE q + 1
      OBVIOUS
    <3>2. next[q] \in 0 .. hi
      <4>1. next[q] \in q + 1 .. hi
        BY <1>4, <2>2
      <4> HIDE DEF next
      <4> QED BY <4>1
    <3>3. f[next[q]] \in S
      <4> HIDE DEF next, hi, S
      <4> QED BY <1>7, <3>2
    <3>4. f[q] = f[next[q]]
      <4> HIDE DEF S, step, hi, next, Go, base
      <4> QED BY <1>4, <2>1, <2>2, <3>3, Zenon
    <3>5. ~(q >= Len(d)) /\ At(d, q) # Quote
      BY <2>2
    <3> HIDE DEF next, base, step, Go
    <3> QED BY <3>1, <3>4, <3>5
  <2>3. CASE q \notin Go
    <3>a. base[q] = IF q >= Len(d) THEN Ends ELSE [ok |-> TRUE, at |-> q + 1]
      OBVIOUS
    <3>b. q >= Len(d) \/ (~(q >= Len(d)) /\ At(d, q) = Quote)
      BY <2>3
    <3> HIDE DEF Go, next, base, step
    <3>c. CASE q >= Len(d)
      BY <3>a, <3>c
    <3>d. CASE ~(q >= Len(d)) /\ At(d, q) = Quote
      BY <1>3, <3>a, <3>d
    <3>1. base[q] = Value(f, q)
      BY <3>b, <3>c, <3>d
    <3> HIDE DEF step, next, Go, base, Value, hi
    <3> QED BY <2>1, <2>3, <3>1, Zenon
  <2> QED BY <2>2, <2>3
<1>9. Is(f)
  <2>1. f = [q \in 0 .. Len(d) + 1 |-> f[q]]
    BY <1>7
  <2> HIDE DEF Value
  <2> QED BY <1>8, <2>1, Zenon
<1>10. Is(G)
  <2> HIDE DEF Is
  <2> QED BY <1>9
<1>11. \A q \in 0 .. Len(d) + 1 : G[q] = Value(G, q)
  <2> HIDE DEF G, Value
  <2> QED BY <1>10, Zenon
<1>12. ScanOf(G, d)
  <2> HIDE DEF G
  <2> QED BY <1>11, Zenon DEF ScanOf
<1> QED BY <1>1, <1>12, Zenon

\* u is a character at the i-th byte of s.
CharacterAt(u, s, i) == u.cp \in Nat /\ u.bytes \in Nat /\ u.bytes >= 1 /\ i + u.bytes <= Len(s) + 1

LEMMA SeenAsType ==
  ASSUME NEW s \in Bytes, NEW i \in 1 .. Len(s), NEW n \in 2 .. 4, NEW least, NEW cp,
         i + n - 1 <= Len(s) => cp \in Nat
  PROVE  CharacterAt(SeenAs(s, i, n, least, cp), s, i)
<1> DEFINE u == SeenAs(s, i, n, least, cp)
           v == IF cp < least THEN 65533 ELSE cp
<1>1. Len(s) \in Nat
  BY DEF Bytes
<1>2. CASE Len(s) - i + 1 < n
  <2>1. u.cp = 65533 /\ u.bytes = 1
    BY <1>2 DEF SeenAs
  <2> HIDE DEF u
  <2>2. CharacterAt(u, s, i)
    BY <1>1, <2>1 DEF CharacterAt
  <2> QED BY <2>2 DEF u
<1>3. CASE ~(Len(s) - i + 1 < n)
  <2>1. u.cp = v /\ u.bytes = n
    BY <1>3 DEF SeenAs
  <2>2. v \in Nat
    BY <1>1, <1>3
  <2> HIDE DEF u, v
  <2>3. CharacterAt(u, s, i)
    BY <1>1, <1>3, <2>1, <2>2 DEF CharacterAt
  <2> QED BY <2>3 DEF u
<1> QED BY <1>2, <1>3

LEMMA BitsType ==
  ASSUME NEW s \in Bytes, NEW i \in 1 .. Len(s), NEW n \in 2 .. 4, i + n - 1 <= Len(s)
  PROVE  BitsOf(s, i, n) \in Nat /\ NoSurrogate(BitsOf(s, i, n)) \in Nat
<1> DEFINE a == s[i]
           b == s[i + 1]
           c == s[i + 2]
           e == s[i + 3]
           r == BitsOf(s, i, n)
<1>1. Len(s) \in Nat /\ \A k \in 1 .. Len(s) : s[k] \in Nat
  BY DEF Bytes
<1>2. a \in Nat /\ b \in Nat /\ (n >= 3 => c \in Nat) /\ (n = 4 => e \in Nat)
  BY <1>1
<1>3. /\ n = 2 => r = 64 * Low(a, 32) + Low(b, 64)
      /\ n = 3 => r = 4096 * Low(a, 16) + 64 * Low(b, 64) + Low(c, 64)
      /\ n = 4 => r = 16777216 * Low(a, 8) + 4096 * Low(b, 64) + 64 * Low(c, 64) + Low(e, 64)
  <2>1. CASE n = 2
    BY <2>1, TheBits
  <2>2. CASE n = 3
    BY <2>2, TheBits
  <2>3. CASE n = 4
    BY <2>3, TheBits
  <2> QED BY <2>1, <2>2, <2>3
<1> HIDE DEF a, b, c, e, r
<1>4. n = 2 \/ n = 3 \/ n = 4
  OBVIOUS
<1>5. r \in Nat
  <2>1. CASE n = 2
    <3>1. 64 * Low(a, 32) + Low(b, 64) \in Nat
      BY <1>2 DEF Low
    <3> QED BY <1>3, <2>1, <3>1
  <2>2. CASE n = 3
    <3>1. 4096 * Low(a, 16) + 64 * Low(b, 64) + Low(c, 64) \in Nat
      BY <1>2, <2>2 DEF Low
    <3> QED BY <1>3, <2>2, <3>1
  <2>3. CASE n = 4
    <3>1. 16777216 * Low(a, 8) + 4096 * Low(b, 64) + 64 * Low(c, 64) + Low(e, 64) \in Nat
      BY <1>2, <2>3 DEF Low
    <3> QED BY <1>3, <2>3, <3>1
  <2> QED BY <1>4, <2>1, <2>2, <2>3
<1>6. NoSurrogate(r) \in Nat
  BY <1>5 DEF NoSurrogate
<1> QED BY <1>5, <1>6 DEF r

LEMMA CodepointType ==
  ASSUME NEW s \in Bytes, NEW i \in 1 .. Len(s)
  PROVE  CharacterAt(Utf8ToCodepoint(s, i), s, i)
<1> DEFINE u == Utf8ToCodepoint(s, i)
<1>1. Len(s) \in Nat /\ i \in Nat /\ s[i] \in Nat
  BY DEF Bytes
<1>2. CASE s[i] < 128
  <2>1. u = [cp |-> s[i], bytes |-> 1]
    BY <1>1, <1>2, ByFirst
  <2> HIDE DEF u
  <2>2. CharacterAt(u, s, i)
    BY <1>1, <2>1 DEF CharacterAt
  <2> QED BY <2>2 DEF u
<1>3. CASE 128 <= s[i] /\ s[i] < 224
  <2>1. u = SeenAs(s, i, 2, 128, BitsOf(s, i, 2))
    BY <1>1, <1>3, ByFirst
  <2> DEFINE n == 2
  <2>2. n \in 2 .. 4 /\ (i + n - 1 <= Len(s) => BitsOf(s, i, n) \in Nat)
    <3>1. n \in 2 .. 4
      OBVIOUS
    <3> HIDE DEF n
    <3> QED BY <3>1, BitsType
  <2> HIDE DEF n
  <2>3. CharacterAt(SeenAs(s, i, n, 128, BitsOf(s, i, n)), s, i)
    BY <2>2, SeenAsType
  <2> QED BY <2>1, <2>3 DEF n
<1>4. CASE 224 <= s[i] /\ s[i] < 240
  <2>1. u = SeenAs(s, i, 3, 2048, NoSurrogate(BitsOf(s, i, 3)))
    BY <1>1, <1>4, ByFirst
  <2> DEFINE n == 3
             least == 2048
  <2>2. n \in 2 .. 4 /\ (i + n - 1 <= Len(s) => NoSurrogate(BitsOf(s, i, n)) \in Nat)
    <3>1. n \in 2 .. 4
      OBVIOUS
    <3> HIDE DEF n
    <3> QED BY <3>1, BitsType
  <2> HIDE DEF n, least
  <2>3. CharacterAt(SeenAs(s, i, n, least, NoSurrogate(BitsOf(s, i, n))), s, i)
    BY <2>2, SeenAsType
  <2> QED BY <2>1, <2>3 DEF n, least
<1>5. CASE 240 <= s[i] /\ s[i] < 248
  <2>1. u = SeenAs(s, i, 4, 65536, BitsOf(s, i, 4))
    BY <1>1, <1>5, ByFirst
  <2> DEFINE n == 4
             least == 65536
  <2>2. n \in 2 .. 4 /\ (i + n - 1 <= Len(s) => BitsOf(s, i, n) \in Nat)
    <3>1. n \in 2 .. 4
      OBVIOUS
    <3> HIDE DEF n
    <3> QED BY <3>1, BitsType
  <2> HIDE DEF n, least
  <2>3. CharacterAt(SeenAs(s, i, n, least, BitsOf(s, i, n)), s, i)
    BY <2>2, SeenAsType
  <2> QED BY <2>1, <2>3 DEF n, least
<1>6. CASE 248 <= s[i]
  <2>1. u = [cp |-> 65533, bytes |-> 1]
    BY <1>1, <1>6 DEF Utf8ToCodepoint
  <2> HIDE DEF u
  <2>2. CharacterAt(u, s, i)
    BY <1>1, <2>1 DEF CharacterAt
  <2> QED BY <2>2 DEF u
<1> QED BY <1>1, <1>2, <1>3, <1>4, <1>5, <1>6

LEMMA EscapedCharType ==
  ASSUME NEW s \in Bytes, NEW i \in 1 .. Len(s)
  PROVE  EscapedChar(s, i).text \in Bytes /\ i + EscapedChar(s, i).bytes \in i + 1 .. Len(s) + 1
<1> DEFINE u == Utf8ToCodepoint(s, i)
           char == EscapedChar(s, i)
           v == u.cp
           n == u.bytes
           short == s[i] \in DOMAIN ShortEscape
<1>1. v \in Nat /\ n \in Nat /\ n >= 1 /\ i + n <= Len(s) + 1 /\ Len(s) \in Nat /\ i \in Nat
  BY CodepointType DEF CharacterAt, Bytes
<1>2. CASE short
  <2>1. char = [text |-> <<Backslash, ShortEscape[s[i]]>>, bytes |-> 1]
    BY <1>2 DEF EscapedChar
  <2>2. Backslash \in Nat /\ ShortEscape[s[i]] \in Nat
    BY <1>2, ShortEscapes DEF Backslash
  <2> HIDE DEF char
  <2>3. char.text = <<Backslash, ShortEscape[s[i]]>> /\ char.bytes = 1
    BY <2>1
  <2>4. <<Backslash, ShortEscape[s[i]]>> \in Bytes
    BY <2>2 DEF Bytes
  <2> QED BY <1>1, <2>3, <2>4 DEF char
<1>3. CASE ~short
  <2>1. char.bytes = n /\ char.text = IF Plain(v) THEN <<v>> ELSE IF v < 65536 THEN UnicodeEscape(v)
                                       ELSE SurrogatePair(v)
    <3> HIDE DEF u
    <3>1. CASE Plain(v)
      BY <1>3, <3>1 DEF EscapedChar, u
    <3>2. CASE ~Plain(v) /\ v < 65536
      BY <1>3, <3>2 DEF EscapedChar, u
    <3>3. CASE ~Plain(v) /\ ~(v < 65536)
      BY <1>3, <3>3 DEF EscapedChar, u
    <3> QED BY <3>1, <3>2, <3>3
  <2> HIDE DEF v, n, char
  <2>2. <<v>> \in Bytes /\ UnicodeEscape(v) \in Bytes
    BY <1>1, UnicodeEscapeType DEF Bytes
  <2>3. ~(v < 65536) => SurrogatePair(v) \in Bytes
    <3>1. ~(v < 65536) => v \in Supplementary
      BY <1>1 DEF Supplementary
    <3> QED BY <3>1, PairType
  <2>4. char.text \in Bytes
    BY <2>1, <2>2, <2>3
  <2> QED BY <1>1, <2>1, <2>4 DEF char
<1> QED BY <1>2, <1>3

\* The function of Escaped.
WriteOf(h, s) ==
  \A i \in 1 .. Len(s) + 1 :
    h[i] = IF i > Len(s) THEN <<>> ELSE EscapedChar(s, i).text \o h[i + EscapedChar(s, i).bytes]

LEMMA EscapedIs ==
  ASSUME NEW s \in Bytes
  PROVE  \E h : WriteOf(h, s) /\ Escaped(s) = h[1]
<1> DEFINE lo == 1
           hi == Len(s) + 1
           Go == 1 .. Len(s)
           next == [i \in 1 .. hi |-> i + EscapedChar(s, i).bytes]
           base == [i \in 1 .. hi |-> <<>>]
           step == [i \in 1 .. hi |-> [t \in Bytes |-> EscapedChar(s, i).text \o t]]
           Value(h, i) == IF i > Len(s) THEN <<>> ELSE EscapedChar(s, i).text \o h[i + EscapedChar(s, i).bytes]
           Is(h) == h = [i \in 1 .. Len(s) + 1 |-> Value(h, i)]
           H == CHOOSE h : Is(h)
<1>1. Escaped(s) = H[1]
  BY Zenon DEF Escaped
<1>2. lo = 1 /\ Len(s) \in Nat /\ lo \in Int /\ hi \in Int /\ lo <= hi /\ lo .. hi = 1 .. hi
  BY DEF Bytes
<1>3. ASSUME NEW i \in 1 .. hi
      PROVE  /\ i \in Go => next[i] \in i + 1 .. hi
             /\ i \in Go => \A t \in Bytes : step[i][t] \in Bytes
             /\ \A t \in Bytes : step[i][t] = EscapedChar(s, i).text \o t
             /\ base[i] \in Bytes
  <2>1. i \in Go => EscapedChar(s, i).text \in Bytes /\ i + EscapedChar(s, i).bytes \in i + 1 .. hi
    BY EscapedCharType
  <2>2. i \in Go => next[i] \in i + 1 .. hi
    BY <2>1
  <2>3. \A t \in Bytes : step[i][t] = EscapedChar(s, i).text \o t
    BY Zenon
  <2>4. base[i] \in Bytes
    BY DEF Bytes
  <2> HIDE DEF step, next, base
  <2>5. i \in Go => \A t \in Bytes : step[i][t] \in Bytes
    <3> HIDE DEF hi
    <3> SUFFICES ASSUME i \in Go, NEW t \in Bytes PROVE step[i][t] \in Bytes
      OBVIOUS
    <3> DEFINE e == EscapedChar(s, i).text
    <3>1. e \in Bytes /\ step[i][t] = e \o t
      BY <2>1, <2>3
    <3> HIDE DEF e
    <3>2. e \o t \in Bytes
      BY <3>1 DEF Bytes
    <3> QED BY <3>1, <3>2
  <2> HIDE DEF Go, hi
  <2> QED BY <2>2, <2>3, <2>4, <2>5, Zenon
<1>4. PICK f \in [lo .. hi -> Bytes] : Follows(f, lo, hi, Go, next, base, step)
  <2> HIDE DEF lo, hi, Go, next, base, step
  <2>1. Leads(lo, hi, Bytes, Go, next, base, step)
    BY <1>2, <1>3, Zenon DEF Leads
  <2> QED BY <1>2, <2>1, Jumps
<1>5. f \in [1 .. hi -> Bytes]
  BY <1>2
<1>6. ASSUME NEW i \in 1 .. hi PROVE f[i] = Value(f, i)
  <2>1. f[i] = IF i \in Go THEN step[i][f[next[i]]] ELSE base[i]
    <3> HIDE DEF hi, Go, next, base, step
    <3> QED BY <1>2, <1>4, Zenon DEF Follows
  <2>2. i \in Go <=> ~(i > Len(s))
    BY <1>2
  <2>3. next[i] = i + EscapedChar(s, i).bytes /\ base[i] = <<>>
    OBVIOUS
  <2>4. i \in Go => f[next[i]] \in Bytes
    <3>1. i \in Go => next[i] \in 1 .. hi
      <4>1. i \in Go => next[i] \in i + 1 .. hi
        BY <1>3
      <4> HIDE DEF next
      <4> QED BY <1>2, <4>1
    <3> HIDE DEF next, Go, hi
    <3> QED BY <1>5, <3>1
  <2>5. i \in Go => step[i][f[next[i]]] = EscapedChar(s, i).text \o f[next[i]]
    <3> HIDE DEF next, Go, hi, step
    <3> QED BY <1>3, <2>4
  <2> HIDE DEF step, next, Go, base
  <2> QED BY <2>1, <2>2, <2>3, <2>5, Zenon
<1>7. Is(f)
  <2>1. f = [i \in 1 .. Len(s) + 1 |-> f[i]]
    BY <1>5
  <2> HIDE DEF Value
  <2> QED BY <1>6, <2>1, Zenon
<1>8. Is(H)
  <2> HIDE DEF Is
  <2> QED BY <1>7
<1>9. \A i \in 1 .. Len(s) + 1 : H[i] = Value(H, i)
  <2> HIDE DEF H, Value
  <2> QED BY <1>8, Zenon
<1>10. WriteOf(H, s)
  <2> HIDE DEF H
  <2> QED BY <1>9, Zenon DEF WriteOf
<1> QED BY <1>1, <1>10, Zenon

-----------------------------------------------------------------------------
(* From the first piece of a text to the last.                             *)

LEMMA Along ==
  ASSUME NEW rs \in Seq(Bytes), NEW F, F[Len(rs) + 1] = <<>>,
         \A i \in 1 .. Len(rs) : F[i] = rs[i] \o F[i + 1]
  PROVE  F[1] = Joined(rs)
<1> DEFINE J == JoinedFrom(rs)
           n == Len(rs)
           lo == 1
           hi == n + 1
           T == {i \in lo .. hi : F[i] = J[i]}
<1>1. n \in Nat /\ lo \in Int /\ hi \in Int /\ lo = 1 /\ hi = n + 1
  OBVIOUS
<1>2. J[hi] = <<>> /\ \A i \in 1 .. n : J[i] = rs[i] \o J[i + 1]
  BY JoinedFacts
<1>3. F[hi] = <<>> /\ \A i \in 1 .. n : F[i] = rs[i] \o F[i + 1]
  OBVIOUS
<1> HIDE DEF J, n, lo, hi
<1>4. ASSUME NEW i \in lo .. hi, i + 1 .. hi \subseteq T PROVE i \in T
  <2>1. CASE i = hi
    BY <1>2, <1>3, <2>1
  <2>2. CASE i # hi
    <3>1. i \in 1 .. n /\ i + 1 \in i + 1 .. hi
      BY <1>1, <2>2
    <3>2. F[i + 1] = J[i + 1]
      BY <1>4, <3>1
    <3>3. F[i] = J[i]
      BY <1>2, <1>3, <3>1, <3>2
    <3> QED BY <3>3
  <2> QED BY <2>1, <2>2
<1> HIDE DEF T
<1>5. lo .. hi \subseteq T
  <2>1. lo \in Int /\ hi \in Int
    BY <1>1
  <2> QED BY <1>4, <2>1, Downward, Zenon
<1>6. 1 \in lo .. hi
  BY <1>1
<1>7. F[1] = J[1]
  BY <1>5, <1>6 DEF T
<1> QED BY <1>7 DEF J, Joined

LEMMA Chain ==
  ASSUME NEW n \in Nat, NEW G, \A i \in 1 .. n : G[i] = G[i + 1]
  PROVE  G[1] = G[n + 1]
<1> DEFINE lo == 1
           hi == n + 1
           T == {i \in lo .. hi : G[i] = G[hi]}
<1>1. lo \in Int /\ hi \in Int /\ lo = 1 /\ hi = n + 1
  OBVIOUS
<1> HIDE DEF lo, hi
<1>2. ASSUME NEW i \in lo .. hi, i + 1 .. hi \subseteq T PROVE i \in T
  <2>1. CASE i = hi
    BY <2>1
  <2>2. CASE i # hi
    <3>1. i \in 1 .. n /\ i + 1 \in i + 1 .. hi
      BY <1>1, <2>2
    <3>2. G[i + 1] = G[hi]
      BY <1>2, <3>1
    <3> QED BY <3>1, <3>2
  <2> QED BY <2>1, <2>2
<1> HIDE DEF T
<1>3. lo .. hi \subseteq T
  BY <1>1, <1>2, Downward, Zenon
<1>4. 1 \in lo .. hi
  BY <1>1
<1>5. G[1] = G[hi]
  BY <1>3, <1>4 DEF T
<1> QED BY <1>1, <1>5

\* The pieces of a text of characters, of what is written for it, and of what is
\* read back.
Text(cs) == Joined([i \in 1 .. Len(cs) |-> UTF8(cs[i])])
Written(cs) == [i \in 1 .. Len(cs) |-> Escape(cs[i])]
ReadBackText(cs) == Joined([i \in 1 .. Len(cs) |-> ReadBack(cs[i])])

LEMMA PiecesOf ==
  ASSUME NEW cs \in Seq(Character), NEW P, \A i \in 1 .. Len(cs) : P[i] \in Bytes,
         P = [i \in 1 .. Len(cs) |-> P[i]]
  PROVE  P \in Seq(Bytes) /\ Len(P) = Len(cs)
<1>1. Len(cs) \in Nat
  OBVIOUS
<1>2. P \in [1 .. Len(cs) -> Bytes]
  OBVIOUS
<1> HIDE DEF Bytes
<1>3. P \in Seq(Bytes)
  BY <1>1, <1>2
<1>4. DOMAIN P = 1 .. Len(cs)
  BY <1>2
<1>5. Len(P) = Len(cs)
  BY <1>1, <1>3, <1>4
<1> QED BY <1>3, <1>5

LEMMA JoinedType ==
  ASSUME NEW ps \in Seq(Bytes)
  PROVE  Joined(ps) \in Bytes
<1>1. Len(ps) \in Nat
  OBVIOUS
<1>2. 1 \in 1 .. Len(ps) + 1
  BY <1>1
<1>3. JoinedFrom(ps) \in [1 .. Len(ps) + 1 -> Bytes]
  BY JoinedFacts
<1> QED BY <1>2, <1>3, Zenon DEF Joined

LEMMA EncodedPieces ==
  ASSUME NEW cs \in Seq(Character)
  PROVE  /\ Len(cs) \in Nat /\ \A i \in 1 .. Len(cs) : cs[i] \in Character
         /\ [i \in 1 .. Len(cs) |-> UTF8(cs[i])] \in Seq(Bytes)
         /\ Len([i \in 1 .. Len(cs) |-> UTF8(cs[i])]) = Len(cs)
         /\ Written(cs) \in Seq(Bytes) /\ Len(Written(cs)) = Len(cs)
         /\ [i \in 1 .. Len(cs) |-> ReadBack(cs[i])] \in Seq(Bytes)
         /\ Len([i \in 1 .. Len(cs) |-> ReadBack(cs[i])]) = Len(cs)
<1> DEFINE us == [i \in 1 .. Len(cs) |-> UTF8(cs[i])]
           es == Written(cs)
           rs == [i \in 1 .. Len(cs) |-> ReadBack(cs[i])]
<1>1. Len(cs) \in Nat /\ \A i \in 1 .. Len(cs) : cs[i] \in Character
  OBVIOUS
<1>2. ASSUME NEW i \in 1 .. Len(cs) PROVE us[i] \in Bytes /\ es[i] \in Bytes /\ rs[i] \in Bytes
  <2>1. cs[i] \in Character /\ cs[i] \in Nat
    BY <1>1 DEF Character
  <2>2. us[i] = UTF8(cs[i]) /\ es[i] = Escape(cs[i]) /\ rs[i] = ReadBack(cs[i])
    BY DEF Written
  <2> HIDE DEF us, es, rs
  <2>3. UTF8(cs[i]) \in Bytes /\ Escape(cs[i]) \in Bytes /\ ReadBack(cs[i]) \in Bytes
    BY <2>1, UTF8Type, EscapeType
  <2> QED BY <2>2, <2>3
<1>3. /\ us = [i \in 1 .. Len(cs) |-> us[i]] /\ es = [i \in 1 .. Len(cs) |-> es[i]]
      /\ rs = [i \in 1 .. Len(cs) |-> rs[i]]
  BY DEF Written
<1> HIDE DEF us, es, rs
<1>4. us \in Seq(Bytes) /\ Len(us) = Len(cs)
  BY <1>2, <1>3, PiecesOf
<1>5. es \in Seq(Bytes) /\ Len(es) = Len(cs)
  BY <1>2, <1>3, PiecesOf
<1>6. rs \in Seq(Bytes) /\ Len(rs) = Len(cs)
  BY <1>2, <1>3, PiecesOf
<1> QED BY <1>1, <1>4, <1>5, <1>6 DEF us, es, rs

\* The characters of a text stand in it one after the other.
LEMMA TextStands ==
  ASSUME NEW cs \in Seq(Character)
  PROVE  /\ Text(cs) \in Bytes /\ Len(Text(cs)) \in Nat
         /\ \E b \in [1 .. Len(cs) + 1 -> Nat] :
              /\ b[1] = 0 /\ b[Len(cs) + 1] = Len(Text(cs))
              /\ \A i \in 1 .. Len(cs) : b[i + 1] = b[i] + Len(UTF8(cs[i])) /\ StandsAt(cs[i], Text(cs), b[i])
<1> DEFINE us == [i \in 1 .. Len(cs) |-> UTF8(cs[i])]
           n == Len(cs)
           s == Text(cs)
<1>1. us \in Seq(Bytes) /\ Len(us) = n /\ s = Joined(us) /\ n \in Nat
  BY EncodedPieces DEF Text
<1>2. \A i \in 1 .. n : us[i] = UTF8(cs[i])
  OBVIOUS
<1> HIDE DEF us, n
<1>3. s \in Bytes
  BY <1>1, JoinedType
<1>4. Len(s) \in Nat
  BY <1>3 DEF Bytes
<1>5. PICK b : Cuts(b, us)
  BY <1>1, Places
<1> HIDE DEF s
<1>6. /\ b \in [1 .. n + 1 -> Nat] /\ b[1] = 0 /\ b[n + 1] = Len(s)
      /\ \A i \in 1 .. n : /\ b[i + 1] = b[i] + Len(us[i]) /\ b[i + 1] <= Len(s)
                            /\ \A k \in 1 .. Len(us[i]) : s[b[i] + k] = us[i][k]
  BY <1>1, <1>5 DEF Cuts, Cut
<1>7. ASSUME NEW i \in 1 .. n PROVE b[i + 1] = b[i] + Len(UTF8(cs[i])) /\ StandsAt(cs[i], s, b[i])
  <2>1. us[i] = UTF8(cs[i]) /\ b[i] \in Nat
    BY <1>1, <1>2, <1>6
  <2> QED BY <1>4, <1>6, <2>1 DEF StandsAt
<1> QED BY <1>3, <1>4, <1>6, <1>7 DEF n, s

LEMMA TextEscaped ==
  ASSUME NEW cs \in Seq(Character)
  PROVE  Escaped(Text(cs)) = Joined(Written(cs))
<1> DEFINE n == Len(cs)
           s == Text(cs)
           es == Written(cs)
<1>1. s \in Bytes /\ Len(s) \in Nat /\ n \in Nat /\ \A i \in 1 .. n : cs[i] \in Character
  BY TextStands, EncodedPieces
<1>2. es \in Seq(Bytes) /\ Len(es) = n /\ \A i \in 1 .. n : es[i] = Escape(cs[i])
  BY EncodedPieces DEF Written
<1>3. PICK b \in [1 .. n + 1 -> Nat] :
        /\ b[1] = 0 /\ b[n + 1] = Len(s)
        /\ \A i \in 1 .. n : b[i + 1] = b[i] + Len(UTF8(cs[i])) /\ StandsAt(cs[i], s, b[i])
  BY TextStands
<1> HIDE DEF n, s, es
<1>4. PICK h : WriteOf(h, s) /\ Escaped(s) = h[1]
  BY <1>1, EscapedIs
<1> DEFINE F == [i \in 1 .. n + 1 |-> h[b[i] + 1]]
<1>5. F[n + 1] = <<>>
  <2>1. Len(s) + 1 \in 1 .. Len(s) + 1 /\ Len(s) + 1 > Len(s)
    BY <1>1
  <2>2. h[Len(s) + 1] = <<>>
    BY <1>4, <2>1, Zenon DEF WriteOf
  <2> QED BY <1>1, <1>3, <2>2
<1>6. ASSUME NEW i \in 1 .. n PROVE F[i] = es[i] \o F[i + 1]
  <2> DEFINE m == Len(UTF8(cs[i]))
             k == b[i] + 1
  <2>1. cs[i] \in Character /\ StandsAt(cs[i], s, b[i]) /\ b[i + 1] = b[i] + m /\ b[i] \in Nat /\ i + 1 \in 1 .. n + 1
    BY <1>1, <1>3
  <2>2. EscapedChar(s, k) = [text |-> Escape(cs[i]), bytes |-> m]
    BY <2>1, EscapedAt
  <2>3. m \in Nat /\ m >= 1
    <3>1. SeenOf(cs[i], s, b[i])
      BY <2>1, SeenCharacter
    <3> QED BY <3>1 DEF SeenOf
  <2>4. k \in 1 .. Len(s) + 1 /\ ~(k > Len(s)) /\ k + m = b[i + 1] + 1
    <3>1. b[i] + m <= Len(s)
      BY <2>1, Zenon DEF StandsAt
    <3> HIDE DEF m
    <3> QED BY <1>1, <2>1, <2>3, <3>1
  <2> HIDE DEF k, m
  <2>5. EscapedChar(s, k).text = Escape(cs[i]) /\ EscapedChar(s, k).bytes = m
    BY <2>2
  <2>6. h[k] = EscapedChar(s, k).text \o h[k + EscapedChar(s, k).bytes]
    BY <1>4, <2>4, Zenon DEF WriteOf
  <2>7. h[k] = es[i] \o h[b[i + 1] + 1]
    BY <1>2, <2>4, <2>5, <2>6, Zenon
  <2>8. F[i] = h[k] /\ F[i + 1] = h[b[i + 1] + 1]
    BY <1>1, <2>1 DEF k
  <2> QED BY <2>7, <2>8, Zenon
<1>7. F[1] = h[1]
  BY <1>1, <1>3
<1> HIDE DEF F
<1>8. F[1] = Joined(es)
  BY <1>2, <1>5, <1>6, Along
<1> QED BY <1>4, <1>7, <1>8 DEF s, es

-----------------------------------------------------------------------------
(* Reading what is written in quotes.                                      *)
Quoted(e) == <<Quote>> \o e \o <<Quote>>

LEMMA QuotedIs ==
  ASSUME NEW e \in Bytes, NEW d, d = Quoted(e)
  PROVE  /\ d \in Bytes /\ Len(e) \in Nat /\ Len(d) = Len(e) + 2
         /\ At(d, 0) = Quote /\ At(d, Len(e) + 1) = Quote
         /\ \A k \in 1 .. Len(e) : At(d, k) = e[k]
<1> DEFINE q == <<Quote>>
           a == q \o e
           n == Len(e)
<1>1. q \in Bytes /\ Len(q) = 1 /\ q[1] = Quote
  BY DEF Bytes, Quote
<1>2. d = a \o q
  BY DEF Quoted
<1> HIDE DEF q
<1>3. Glued(a, q, e)
  BY <1>1, Put, Zenon
<1>4. a \in Bytes
  BY <1>3 DEF Glued
<1> HIDE DEF a
<1>5. Glued(d, a, q)
  BY <1>1, <1>2, <1>4, Put, Zenon
<1>6. /\ n \in Nat /\ Len(a) = n + 1 /\ Len(d) = n + 2 /\ d \in Bytes
      /\ \A k \in 1 .. n + 1 : d[k] = a[k]
      /\ d[n + 2] = Quote /\ a[1] = Quote
      /\ \A k \in 1 .. n : a[1 + k] = e[k]
  <2>1. n \in Nat /\ Len(a) = n + 1
    BY <1>1, <1>3 DEF Glued
  <2>2. Len(d) = n + 2 /\ d \in Bytes /\ \A k \in 1 .. n + 1 : d[k] = a[k]
    BY <1>1, <1>5, <2>1 DEF Glued
  <2>3. d[n + 2] = Quote
    <3>1. d[Len(a) + 1] = q[1]
      BY <1>1, <1>5 DEF Glued
    <3>2. Len(a) + 1 = n + 2
      BY <2>1
    <3> QED BY <1>1, <3>1, <3>2
  <2>4. a[1] = Quote
    BY <1>1, <1>3 DEF Glued
  <2>5. \A k \in 1 .. n : a[1 + k] = e[k]
    BY <1>1, <1>3 DEF Glued
  <2> QED BY <2>1, <2>2, <2>3, <2>4, <2>5
<1> HIDE DEF n
<1>7. At(d, 0) = Quote
  BY <1>6 DEF At
<1>8. At(d, n + 1) = Quote
  BY <1>6 DEF At
<1>9. \A k \in 1 .. n : At(d, k) = e[k]
  <2> TAKE k \in 1 .. n
  <2>1. k < Len(d) /\ k + 1 \in 1 .. n + 1 /\ 1 + k = k + 1
    BY <1>6
  <2>2. At(d, k) = d[k + 1]
    BY <2>1 DEF At
  <2>3. d[k + 1] = a[k + 1] /\ a[1 + k] = e[k]
    BY <1>6, <2>1
  <2> QED BY <2>1, <2>2, <2>3
<1> QED BY <1>6, <1>7, <1>8, <1>9 DEF n

LEMMA PastNothing ==
  ASSUME NEW d, Len(d) \in Nat, NEW S, At(d, 0) \notin S
  PROVE  Past(d, 0, S) = 0
<1> DEFINE lo == 0
           hi == Len(d)
           Go == {q \in 0 .. hi : q < Len(d) /\ At(d, q) \in S}
           next == [q \in 0 .. hi |-> q + 1]
           base == [q \in 0 .. hi |-> q]
           step == [q \in 0 .. hi |-> [r \in Nat |-> r]]
           Value(g, q) == IF q < Len(d) /\ At(d, q) \in S THEN g[q + 1] ELSE q
           Is(g) == g = [q \in 0 .. Len(d) |-> Value(g, q)]
           G == CHOOSE g : Is(g)
<1>1. Past(d, 0, S) = G[0]
  BY Zenon DEF Past
<1>2. lo \in Int /\ hi \in Int /\ lo <= hi /\ lo .. hi = 0 .. hi
  OBVIOUS
<1>3. ASSUME NEW q \in 0 .. hi
      PROVE  /\ q \in Go => next[q] \in q + 1 .. hi
             /\ \A r \in Nat : step[q][r] = r
             /\ base[q] \in Nat
  OBVIOUS
<1>4. PICK f \in [lo .. hi -> Nat] : Follows(f, lo, hi, Go, next, base, step)
  <2> HIDE DEF lo, hi, Go, next, base, step
  <2>1. Leads(lo, hi, Nat, Go, next, base, step)
    BY <1>2, <1>3, Zenon DEF Leads
  <2> QED BY <1>2, <2>1, Jumps
<1>5. f \in [0 .. hi -> Nat]
  BY <1>2
<1>6. ASSUME NEW q \in 0 .. hi PROVE f[q] = Value(f, q)
  <2>1. f[q] = IF q \in Go THEN step[q][f[next[q]]] ELSE base[q]
    <3> HIDE DEF hi, Go, next, base, step
    <3> QED BY <1>2, <1>4, Zenon DEF Follows
  <2>2. next[q] = q + 1 /\ base[q] = q
    OBVIOUS
  <2>3. q \in Go => f[next[q]] \in Nat
    <3>1. q \in Go => next[q] \in 0 .. hi
      OBVIOUS
    <3> HIDE DEF next, Go, hi
    <3> QED BY <1>5, <3>1
  <2>4. q \in Go => step[q][f[next[q]]] = f[next[q]]
    <3> HIDE DEF next, Go, hi, step
    <3> QED BY <1>3, <2>3
  <2>5. q \in Go <=> q < Len(d) /\ At(d, q) \in S
    OBVIOUS
  <2> HIDE DEF step, next, Go, base
  <2> QED BY <2>1, <2>2, <2>4, <2>5, Zenon
<1>7. Is(f)
  <2>1. f = [q \in 0 .. Len(d) |-> f[q]]
    BY <1>5
  <2> HIDE DEF Value
  <2> QED BY <1>6, <2>1, Zenon
<1>8. Is(G)
  <2> HIDE DEF Is
  <2> QED BY <1>7
<1>9. G[0] = Value(G, 0)
  <2>1. 0 \in 0 .. Len(d)
    OBVIOUS
  <2> HIDE DEF G, Value
  <2> QED BY <1>8, <2>1, Zenon
<1> QED BY <1>1, <1>9, Zenon

LEMMA StringTokenAt ==
  ASSUME NEW d, NEW p, p # Len(d), At(d, p) = Quote, NEW r, r = ReadString(d, p + 1), r.ok = TRUE
  PROVE  TokenAt(d, p) = [type |-> "string", start |-> p, end |-> r.at]
<1>1. DOMAIN Punctuation = {123, 125, 91, 93, 44, 58}
  BY Zenon DEF Punctuation
<1>2. DOMAIN Words = {116, 102, 110}
  BY Zenon DEF Words
<1>3. /\ Quote \notin DOMAIN Punctuation /\ Quote \notin DOMAIN Words /\ Quote \notin Digits
      /\ Quote \notin Slashes /\ Quote # Minus
  BY <1>1, <1>2 DEF Quote, Slash, Apostrophe, Slashes, Minus, Digits
<1> QED BY <1>3 DEF TokenAt

LEMMA StringToken ==
  ASSUME NEW d, At(d, 0) = Quote, Len(d) \in Nat, Len(d) >= 1, NEW e, ReadString(d, 1) = [ok |-> TRUE, at |-> e]
  PROVE  ReadToken(d, 0) = [type |-> "string", start |-> 0, end |-> e]
<1>1. Quote \notin Spaces /\ 0 # Len(d) /\ 0 + 1 = 1
  BY DEF Quote, Spaces
<1>2. Past(d, 0, Spaces) = 0
  BY <1>1, PastNothing
<1> DEFINE r == ReadString(d, 1)
<1>3. r.ok = TRUE /\ r.at = e
  OBVIOUS
<1>4. r = ReadString(d, 0 + 1)
  OBVIOUS
<1> HIDE DEF r
<1>5. TokenAt(d, 0) = [type |-> "string", start |-> 0, end |-> r.at]
  BY <1>1, <1>3, <1>4, StringTokenAt
<1> QED BY <1>2, <1>3, <1>5 DEF ReadToken

\* Where e stands in a string the reader finds r, whatever is around it.
Readable(e, r) ==
  \A d, q, end :
    Stands(e, d, q, end) =>
      /\ \A f : DecodeOf(f, d, end) => Gives(f, q, r, q + Len(e))
      /\ \A g : Len(d) \in Nat /\ end < Len(d) /\ ScanOf(g, d) => g[q] = g[q + Len(e)]

LEMMA CharacterReadable ==
  ASSUME NEW cp \in Character
  PROVE  Readable(Escape(cp), ReadBack(cp))
BY PieceTaken, PieceSkipped DEF Readable

\* The document d is a string and nothing else, and the reader makes s of it.
ReadsAs(d, s) ==
  /\ ReadToken(d, 0) = [type |-> "string", start |-> 0, end |-> Len(d)]
  /\ Decoded(d, ReadToken(d, 0)) = [ok |-> TRUE, s |-> s]

LEMMA QuotedRead ==
  ASSUME NEW es \in Seq(Bytes), NEW rs \in Seq(Bytes), Len(rs) = Len(es),
         \A i \in 1 .. Len(es) : Readable(es[i], rs[i])
  PROVE  ReadsAs(Quoted(Joined(es)), Joined(rs))
<1> DEFINE n == Len(es)
           t == Joined(es)
           d == Quoted(t)
           end == Len(t) + 1
<1>1. n \in Nat /\ t \in Bytes
  BY JoinedType
<1>2. /\ d \in Bytes /\ Len(t) \in Nat /\ Len(d) = Len(t) + 2
      /\ At(d, 0) = Quote /\ At(d, end) = Quote /\ \A k \in 1 .. Len(t) : At(d, k) = t[k]
  BY <1>1, QuotedIs
<1>3. PICK b : Cut(b, n, es, t)
  BY Places DEF Cuts
<1> HIDE DEF n, t, d
<1>4. end \in Nat /\ end < Len(d) /\ end + 1 = Len(d) /\ Len(d) \in Nat /\ Len(d) >= 1
  BY <1>2
<1>5. /\ b \in [1 .. n + 1 -> Nat] /\ b[1] = 0 /\ b[n + 1] = Len(t)
      /\ \A i \in 1 .. n : /\ b[i + 1] = b[i] + Len(es[i]) /\ b[i + 1] <= Len(t)
                            /\ \A k \in 1 .. Len(es[i]) : t[b[i] + k] = es[i][k]
  BY <1>3 DEF Cut
<1>6. ASSUME NEW i \in 1 .. n
      PROVE Stands(es[i], d, b[i] + 1, end) /\ (b[i] + 1) + Len(es[i]) = b[i + 1] + 1
  <2>1. b[i] \in Nat /\ Len(es[i]) \in Nat /\ b[i + 1] = b[i] + Len(es[i]) /\ b[i + 1] <= Len(t)
    <3>1. es[i] \in Bytes
      BY DEF n
    <3>2. Len(es[i]) \in Nat
      BY <3>1 DEF Bytes
    <3> QED BY <1>1, <1>5, <3>2
  <2>2. ASSUME NEW k \in 1 .. Len(es[i]) PROVE At(d, (b[i] + 1) + (k - 1)) = es[i][k]
    <3>1. (b[i] + 1) + (k - 1) = b[i] + k /\ b[i] + k \in 1 .. Len(t)
      BY <1>2, <2>1
    <3>2. At(d, b[i] + k) = t[b[i] + k]
      BY <1>2, <3>1
    <3> QED BY <1>5, <3>1, <3>2
  <2>3. b[i] + 1 \in Nat /\ (b[i] + 1) + Len(es[i]) <= end
    BY <1>2, <2>1
  <2> HIDE DEF end
  <2> QED BY <1>4, <2>1, <2>2, <2>3 DEF Stands
<1>7. ASSUME NEW i \in 1 .. n PROVE Readable(es[i], rs[i])
  BY DEF n
<1> HIDE DEF end
<1>8. PICK f : DecodeOf(f, d, end) /\ \A p : DecodeString(d, p, end) = f[p]
  BY <1>2, <1>4, DecodeStringIs
<1>9. ASSUME NEW i \in 1 .. n PROVE Gives(f, b[i] + 1, rs[i], b[i + 1] + 1)
  <2>1. Gives(f, b[i] + 1, rs[i], (b[i] + 1) + Len(es[i]))
    BY <1>6, <1>7, <1>8, Zenon DEF Readable
  <2> QED BY <1>6, <2>1, Zenon
<1>10. f[1] = [ok |-> TRUE, s |-> Joined(rs)]
  <2> DEFINE F == [i \in 1 .. n + 1 |-> f[b[i] + 1].s]
             G == [i \in 1 .. n + 1 |-> f[b[i] + 1].ok]
  <2>1. \A i \in 1 .. n : i \in 1 .. n + 1 /\ i + 1 \in 1 .. n + 1
    BY <1>1
  <2>2. 1 \in 1 .. n + 1 /\ n + 1 \in 1 .. n + 1 /\ b[1] + 1 = 1 /\ b[n + 1] + 1 = end
    BY <1>1, <1>5 DEF end
  <2>3. f[end] = [ok |-> TRUE, s |-> <<>>]
    <3>1. end \in 0 .. end
      BY <1>4
    <3> QED BY <1>8, <3>1, Zenon DEF DecodeOf
  <2>4. F[n + 1] = <<>> /\ G[n + 1] = TRUE
    BY <2>2, <2>3
  <2>5. F[1] = f[1].s /\ G[1] = f[1].ok
    BY <2>2
  <2>6. \A i \in 1 .. n : F[i] = rs[i] \o F[i + 1] /\ G[i] = G[i + 1]
    BY <1>9, <2>1, Zenon DEF Gives
  <2>7. Len(rs) = n
    BY DEF n
  <2> HIDE DEF F, G
  <2>8. F[1] = Joined(rs)
    BY <2>4, <2>6, <2>7, Along
  <2>9. G[1] = G[n + 1]
    BY <1>1, <2>6, Chain
  <2>10. f[1] \in Result
    <3>1. 1 \in 0 .. end
      BY <1>2 DEF end
    <3> QED BY <1>8, <3>1 DEF DecodeOf
  <2>11. f[1] = [ok |-> f[1].ok, s |-> f[1].s]
    BY <2>10 DEF Result
  <2> QED BY <2>4, <2>5, <2>8, <2>9, <2>11, Zenon
<1>11. ReadString(d, 1) = [ok |-> TRUE, at |-> Len(d)]
  <2>1. PICK g : ScanOf(g, d) /\ \A p : ReadString(d, p) = g[p]
    BY <1>4, ReadStringIs
  <2> DEFINE G == [i \in 1 .. n + 1 |-> g[b[i] + 1]]
  <2>2. \A i \in 1 .. n : i \in 1 .. n + 1 /\ i + 1 \in 1 .. n + 1
    BY <1>1
  <2>3. 1 \in 1 .. n + 1 /\ n + 1 \in 1 .. n + 1 /\ b[1] + 1 = 1 /\ b[n + 1] + 1 = end
    BY <1>1, <1>5 DEF end
  <2>4. ASSUME NEW i \in 1 .. n PROVE g[b[i] + 1] = g[b[i + 1] + 1]
    <3>1. Stands(es[i], d, b[i] + 1, end) /\ Len(d) \in Nat /\ end < Len(d) /\ ScanOf(g, d)
      BY <1>4, <1>6, <2>1
    <3>2. g[b[i] + 1] = g[(b[i] + 1) + Len(es[i])]
      <4>1. \A h : Len(d) \in Nat /\ end < Len(d) /\ ScanOf(h, d) => h[b[i] + 1] = h[(b[i] + 1) + Len(es[i])]
        <5>1. Readable(es[i], rs[i]) /\ Stands(es[i], d, b[i] + 1, end)
          BY <1>7, <3>1
        <5> QED BY <5>1, Zenon DEF Readable
      <4> QED BY <3>1, <4>1
    <3> QED BY <1>6, <3>2, Zenon
  <2>5. \A i \in 1 .. n : G[i] = G[i + 1]
    BY <2>2, <2>4, Zenon
  <2>6. G[1] = g[1] /\ G[n + 1] = g[end]
    BY <2>3
  <2> HIDE DEF G
  <2>7. G[1] = G[n + 1]
    BY <1>1, <2>5, Chain
  <2>8. OneSkip(g, d, end)
    BY <1>4, <2>1, OneSkipped
  <2>9. g[end] = [ok |-> TRUE, at |-> end + 1]
    BY <1>2, <2>8 DEF OneSkip
  <2> QED BY <1>4, <2>1, <2>6, <2>7, <2>9, Zenon
<1>12. ReadToken(d, 0) = [type |-> "string", start |-> 0, end |-> Len(d)]
  BY <1>2, <1>4, <1>11, StringToken
<1>13. Decoded(d, ReadToken(d, 0)) = [ok |-> TRUE, s |-> Joined(rs)]
  <2>1. ReadToken(d, 0).start = 0 /\ ReadToken(d, 0).end = Len(d)
    BY <1>12
  <2>2. 0 + 1 = 1 /\ Len(d) - 1 = end
    BY <1>4
  <2>3. Decoded(d, ReadToken(d, 0)) = DecodeString(d, 0 + 1, Len(d) - 1)
    BY <2>1, Zenon DEF Decoded
  <2>4. Decoded(d, ReadToken(d, 0)) = DecodeString(d, 1, end)
    BY <2>2, <2>3, Zenon
  <2> QED BY <1>8, <1>10, <2>4, Zenon
<1> QED BY <1>12, <1>13 DEF ReadsAs, d, t

LEMMA ByteReadable ==
  ASSUME NEW c \in Nat, c >= 128
  PROVE  Readable(<<c>>, <<c>>)
<1> DEFINE e == <<c>>
<1>1. Len(e) = 1 /\ e[1] = c
  OBVIOUS
<1>2. c # Backslash /\ c # Quote
  BY DEF Backslash, Quote
<1>3. ASSUME NEW d, NEW q, NEW end, Stands(e, d, q, end)
      PROVE  /\ \A f : DecodeOf(f, d, end) => Gives(f, q, e, q + Len(e))
             /\ \A g : Len(d) \in Nat /\ end < Len(d) /\ ScanOf(g, d) => g[q] = g[q + Len(e)]
  <2>1. q \in Nat /\ end \in Nat /\ q < end /\ At(d, q) = c
    <3> HIDE DEF e
    <3> QED BY <1>1, <1>3, EndStands
  <2>2. ASSUME NEW f, DecodeOf(f, d, end) PROVE Gives(f, q, e, q + Len(e))
    <3>1. DecodedChar(d, q, end) = [ok |-> TRUE, s |-> e, at |-> q + 1]
      BY <1>2, <2>1, OneChar
    <3> DEFINE m == q + 1
    <3> HIDE DEF m, e
    <3>2. Gives(f, q, e, m)
      BY <2>1, <2>2, <3>1, OneTaken DEF m
    <3> QED BY <1>1, <3>2, Zenon DEF m
  <2>3. ASSUME NEW g, Len(d) \in Nat, end < Len(d), ScanOf(g, d) PROVE g[q] = g[q + Len(e)]
    <3> HIDE DEF e
    <3>1. q < Len(d)
      BY <2>1, <2>3
    <3>2. OneSkip(g, d, q)
      BY <2>1, <2>3, <3>1, OneSkipped
    <3> QED BY <1>1, <1>2, <2>1, <3>2 DEF OneSkip
  <2> HIDE DEF e
  <2> QED BY <2>2, <2>3, Zenon
<1> HIDE DEF e
<1>4. Readable(e, e)
  BY <1>3, Zenon DEF Readable
<1> QED BY <1>4 DEF e

\* A text is put together from its bytes.
LEMMA ByteByByte ==
  ASSUME NEW s \in Bytes
  PROVE  Joined([i \in 1 .. Len(s) |-> <<s[i]>>]) = s
<1> DEFINE n == Len(s)
           ps == [i \in 1 .. n |-> <<s[i]>>]
           t == Joined(ps)
<1>1. n \in Nat /\ \A i \in 1 .. n : s[i] \in Nat
  BY DEF Bytes
<1>2. \A i \in 1 .. n : ps[i] = <<s[i]>> /\ <<s[i]>> \in Bytes
  BY <1>1 DEF Bytes
<1>3. ps \in Seq(Bytes) /\ Len(ps) = n
  <2>1. ps = [i \in 1 .. n |-> ps[i]]
    OBVIOUS
  <2> HIDE DEF ps
  <2>2. ps \in [1 .. n -> Bytes]
    BY <1>2, <2>1
  <2> HIDE DEF Bytes, n
  <2> QED BY <1>1, <2>2
<1>4. PICK b : Cut(b, n, ps, t)
  BY <1>3, Places DEF Cuts
<1>5. t \in Bytes
  BY <1>3, JoinedType
<1> HIDE DEF n, t
<1>6. /\ b \in [1 .. n + 1 -> Nat] /\ b[1] = 0 /\ b[n + 1] = Len(t)
      /\ \A i \in 1 .. n : b[i + 1] = b[i] + 1 /\ t[b[i] + 1] = s[i]
  <2>1. \A i \in 1 .. n : Len(ps[i]) = 1 /\ ps[i][1] = s[i]
    BY <1>2
  <2> HIDE DEF ps
  <2>2. /\ b \in [1 .. n + 1 -> Nat] /\ b[1] = 0 /\ b[n + 1] = Len(t)
        /\ \A i \in 1 .. n : b[i + 1] = b[i] + Len(ps[i]) /\ \A k \in 1 .. Len(ps[i]) : t[b[i] + k] = ps[i][k]
    BY <1>4 DEF Cut
  <2> QED BY <2>1, <2>2
<1>7. \A i \in 0 .. n : b[i + 1] = i
  <2> DEFINE T == {i \in 0 .. n : b[i + 1] = i}
  <2>1. 0 \in T
    BY <1>1, <1>6
  <2>2. ASSUME NEW i \in 1 .. n, i - 1 \in T PROVE i \in T
    <3>1. b[(i - 1) + 1] = i - 1 /\ (i - 1) + 1 = i
      BY <2>2
    <3>2. b[i + 1] = i
      BY <1>6, <3>1
    <3> QED BY <3>2
  <2> HIDE DEF T
  <2>3. 0 .. n \subseteq T
    BY <1>1, <2>1, <2>2, Induction
  <2> QED BY <2>3 DEF T
<1>8. Len(t) = n
  BY <1>1, <1>6, <1>7
<1>9. ASSUME NEW i \in 1 .. n PROVE t[i] = s[i]
  <2>1. b[(i - 1) + 1] = i - 1 /\ (i - 1) + 1 = i
    BY <1>1, <1>7
  <2>2. b[i] + 1 = i
    BY <2>1
  <2> QED BY <1>6, <2>2
<1>10. t = s
  <2>1. s \in Seq(Nat) /\ t \in Seq(Nat) /\ Len(s) = Len(t)
    BY <1>5, <1>8 DEF Bytes, n
  <2>2. \A i \in 1 .. Len(s) : s[i] = t[i]
    BY <1>9 DEF n
  <2> QED BY <2>1, <2>2, SeqEqual
<1> QED BY <1>10 DEF t, n

(***************************************************************************)
(* A text without an ASCII character, whatever its bytes, is written as it *)
(* is, and read back as it was.                                            *)
(***************************************************************************)
THEOREM NoAsciiReadBack ==
  ASSUME NEW s \in Bytes, \A i \in 1 .. Len(s) : s[i] >= 128
  PROVE  ValueToQuotedString(s) = Quoted(s) /\ ReadsAs(ValueToQuotedString(s), s)
<1> DEFINE ps == [i \in 1 .. Len(s) |-> <<s[i]>>]
<1>1. Len(s) \in Nat /\ \A i \in 1 .. Len(s) : s[i] \in Nat
  BY DEF Bytes
<1>2. ValueToQuotedString(s) = Quoted(s)
  <2>1. ~\E i \in 1 .. Len(s) : s[i] < 128
    BY <1>1
  <2> QED BY <2>1, Zenon DEF ValueToQuotedString, Quoted
<1>3. ps \in Seq(Bytes) /\ Len(ps) = Len(s)
  <2>1. \A i \in 1 .. Len(s) : <<s[i]>> \in Bytes
    BY <1>1 DEF Bytes
  <2>2. ps \in [1 .. Len(s) -> Bytes]
    BY <2>1
  <2> HIDE DEF Bytes, ps
  <2> QED BY <1>1, <2>2
<1>4. \A i \in 1 .. Len(ps) : Readable(ps[i], ps[i])
  <2> TAKE i \in 1 .. Len(ps)
  <2>1. i \in 1 .. Len(s)
    BY <1>3
  <2>2. ps[i] = <<s[i]>> /\ s[i] \in Nat /\ s[i] >= 128
    BY <1>1, <2>1
  <2>3. Readable(<<s[i]>>, <<s[i]>>)
    BY <2>2, ByteReadable
  <2> QED BY <2>2, <2>3, Zenon
<1>5. Joined(ps) = s
  BY ByteByByte
<1> HIDE DEF ps
<1>6. ReadsAs(Quoted(Joined(ps)), Joined(ps))
  BY <1>3, <1>4, QuotedRead
<1> QED BY <1>2, <1>5, <1>6

(***************************************************************************)
(* A text with an ASCII character is read back character by character, and *)
(* what becomes of a character is ReadBack, wherever it stands.            *)
(***************************************************************************)
THEOREM TextReadBack ==
  ASSUME NEW cs \in Seq(Character), \E k \in 1 .. Len(Text(cs)) : Text(cs)[k] < 128
  PROVE  ReadsAs(ValueToQuotedString(Text(cs)), ReadBackText(cs))
<1> DEFINE es == Written(cs)
           rs == [i \in 1 .. Len(cs) |-> ReadBack(cs[i])]
<1>1. ValueToQuotedString(Text(cs)) = Quoted(Escaped(Text(cs)))
  BY Zenon DEF ValueToQuotedString, Quoted
<1>2. Escaped(Text(cs)) = Joined(es)
  BY TextEscaped
<1>3. es \in Seq(Bytes) /\ rs \in Seq(Bytes) /\ Len(es) = Len(cs) /\ Len(rs) = Len(es)
  BY EncodedPieces
<1>4. \A i \in 1 .. Len(es) : Readable(es[i], rs[i])
  <2> TAKE i \in 1 .. Len(es)
  <2>1. i \in 1 .. Len(cs)
    BY <1>3
  <2>2. es[i] = Escape(cs[i]) /\ rs[i] = ReadBack(cs[i]) /\ cs[i] \in Character
    BY <2>1, EncodedPieces DEF Written
  <2> HIDE DEF es, rs
  <2> QED BY <2>2, CharacterReadable, Zenon
<1>5. ReadBackText(cs) = Joined(rs)
  BY DEF ReadBackText
<1> HIDE DEF es, rs
<1>6. ReadsAs(Quoted(Joined(es)), Joined(rs))
  BY <1>3, <1>4, QuotedRead
<1> QED BY <1>1, <1>2, <1>5, <1>6

\* The characters that come back.
Kept == {cp \in Character : cp < 57343 \/ (65536 <= cp /\ cp < 262144)}

(***************************************************************************)
(* A text of characters below 57343, or from 65536 to 262143, comes back   *)
(* as it was.                                                              *)
(***************************************************************************)
THEOREM KeptTextReadBack ==
  ASSUME NEW cs \in Seq(Kept)
  PROVE  ReadsAs(ValueToQuotedString(Text(cs)), Text(cs))
<1>1. cs \in Seq(Character)
  <2>1. Kept \subseteq Character
    BY DEF Kept
  <2>2. Len(cs) \in Nat /\ cs \in [1 .. Len(cs) -> Kept]
    OBVIOUS
  <2>3. cs \in [1 .. Len(cs) -> Character]
    BY <2>1, <2>2
  <2> QED BY <2>2, <2>3
<1>2. ReadBackText(cs) = Text(cs)
  <2>1. \A i \in 1 .. Len(cs) : ReadBack(cs[i]) = UTF8(cs[i])
    <3> TAKE i \in 1 .. Len(cs)
    <3>1. cs[i] \in Kept
      OBVIOUS
    <3> QED BY <3>1 DEF Kept, ReadBack
  <2>2. [i \in 1 .. Len(cs) |-> ReadBack(cs[i])] = [i \in 1 .. Len(cs) |-> UTF8(cs[i])]
    BY <2>1, Zenon
  <2> QED BY <2>2, Zenon DEF ReadBackText, Text
<1>3. Text(cs) \in Bytes
  BY <1>1, TextStands
<1>4. CASE \E k \in 1 .. Len(Text(cs)) : Text(cs)[k] < 128
  BY <1>1, <1>2, <1>4, TextReadBack
<1>5. CASE ~\E k \in 1 .. Len(Text(cs)) : Text(cs)[k] < 128
  <2> DEFINE s == Text(cs)
  <2>1. \A k \in 1 .. Len(s) : s[k] \in Nat
    BY <1>3 DEF Bytes
  <2> HIDE DEF s
  <2>2. \A k \in 1 .. Len(s) : s[k] >= 128
    BY <1>5, <2>1 DEF s
  <2>3. s \in Bytes
    BY <1>3 DEF s
  <2> QED BY <2>2, <2>3, NoAsciiReadBack DEF s
<1> QED BY <1>4, <1>5
=============================================================================
