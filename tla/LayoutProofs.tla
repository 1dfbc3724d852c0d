---------------------------- MODULE LayoutProofs ----------------------------
(***************************************************************************)
(* Proofs for Layout: every slice that was handed out is in one page, its  *)
(* address survives the words it is packed into, and a word says what it   *)
(* holds, for any sources, page sizes that are powers of two and widths.   *)
(*                                                                         *)
(* Words are taken apart by division: a mask is a power of two times what  *)
(* is left of it after a shift (AndShifted), and below a power of two the  *)
(* mask of all ones is a remainder (AndLow).                               *)
(***************************************************************************)
EXTENDS Layout, AllocatorProofs, WellFoundedInduction

-----------------------------------------------------------------------------
(***************************************************************************)
(* The recursive functions exist.                                          *)
(***************************************************************************)

\* S has what the recursion g[v] = 2 * g[n[v]] + h[v] gives, from b on T on.
Closed(D, T, n, b, h, S) ==
    /\ S \in SUBSET (D \X Nat)
    /\ \A v \in T : <<v, b>> \in S
    /\ \A v \in D \ T, k \in Nat : <<n[v], k>> \in S => <<v, 2 * k + h[v]>> \in S

\* The recursion ends in T, wherever it starts.
Ends(D, T, n) ==
    /\ T \subseteq D /\ \A v \in D \ T : n[v] \in D
    /\ \A B \in SUBSET D : (\A v \in B : v \notin T /\ n[v] \in B) => B = {}

\* The function g obeys the recursion.
Obeys(D, T, n, b, h, g) ==
    g \in [D -> Nat] /\ \A v \in D : g[v] = IF v \in T THEN b ELSE 2 * g[n[v]] + h[v]

\* If the recursion ends there is a function that obeys it.
LEMMA RecursionExists ==
  ASSUME NEW D, NEW T, NEW n, NEW b \in Nat, NEW h \in [D -> Nat], Ends(D, T, n)
  PROVE  \E g : Obeys(D, T, n, b, h, g)
<1> USE DEF Ends
<1> DEFINE G == {p \in D \X Nat : \A S : Closed(D, T, n, b, h, S) => p \in S}
           g == [v \in D |-> CHOOSE k \in Nat : <<v, k>> \in G]
<1>0. \A v \in D, k \in Nat : h[v] \in Nat /\ 2 * k + h[v] \in Nat
  OBVIOUS
<1>1. Closed(D, T, n, b, h, G)
  <2>1. \A v \in T : <<v, b>> \in G
    BY DEF Closed
  <2>2. ASSUME NEW v \in D \ T, NEW k \in Nat, <<n[v], k>> \in G
        PROVE  <<v, 2 * k + h[v]>> \in G
    <3>1. 2 * k + h[v] \in Nat
      BY <1>0
    <3> QED BY <2>2, <3>1 DEF Closed
  <2>3. G \in SUBSET (D \X Nat)
    OBVIOUS
  <2> HIDE DEF G
  <2> QED BY <2>1, <2>2, <2>3 DEF Closed
<1>2. ASSUME NEW p \in G PROVE ~Closed(D, T, n, b, h, G \ {p})
  OBVIOUS
<1> HIDE DEF G
<1>3. ASSUME NEW v \in T, NEW k \in Nat, <<v, k>> \in G PROVE k = b
  <2> SUFFICES ASSUME k # b PROVE Closed(D, T, n, b, h, G \ {<<v, k>>})
    BY <1>2, <1>3
  <2>1. \A u \in T : <<u, b>> \in G \ {<<v, k>>}
    BY <1>1 DEF Closed
  <2>2. ASSUME NEW u \in D \ T, NEW j \in Nat, <<n[u], j>> \in G
        PROVE  <<u, 2 * j + h[u]>> \in G \ {<<v, k>>}
    BY <1>1, <2>2 DEF Closed
  <2> QED BY <1>1, <2>1, <2>2 DEF Closed
<1>4. ASSUME NEW v \in D \ T, NEW k \in Nat, <<v, k>> \in G
      PROVE  \E j \in Nat : k = 2 * j + h[v] /\ <<n[v], j>> \in G
  <2> SUFFICES ASSUME ~\E j \in Nat : k = 2 * j + h[v] /\ <<n[v], j>> \in G
               PROVE  Closed(D, T, n, b, h, G \ {<<v, k>>})
    BY <1>2, <1>4
  <2>1. \A u \in T : <<u, b>> \in G \ {<<v, k>>}
    BY <1>1 DEF Closed
  <2>2. ASSUME NEW u \in D \ T, NEW j \in Nat, <<n[u], j>> \in G
        PROVE  <<u, 2 * j + h[u]>> \in G \ {<<v, k>>}
    <3>1. <<u, 2 * j + h[u]>> \in G
      BY <1>1, <2>2 DEF Closed
    <3>2. u = v => 2 * j + h[u] # k
      BY <2>2
    <3> QED BY <3>1, <3>2
  <2> QED BY <1>1, <2>1, <2>2 DEF Closed
<1>5. \A v \in D : \E k \in Nat : <<v, k>> \in G
  <2> DEFINE B == {v \in D : \A k \in Nat : <<v, k>> \notin G}
  <2>1. ASSUME NEW v \in B PROVE v \notin T /\ n[v] \in B
    <3>1. v \in D /\ \A k \in Nat : <<v, k>> \notin G /\ <<v, 2 * k + h[v]>> \notin G
      BY <1>0
    <3>2. v \notin T
      BY <1>1, <3>1 DEF Closed
    <3>3. \A k \in Nat : <<n[v], k>> \notin G
      BY <1>1, <3>1, <3>2 DEF Closed
    <3> QED BY <3>1, <3>2, <3>3
  <2>2. B = {}
    BY <2>1, Zenon
  <2> QED BY <2>2
<1>6. \A v \in D, j, k \in Nat : <<v, j>> \in G /\ <<v, k>> \in G => j = k
  <2> DEFINE B == {v \in D : \E j, k \in Nat : <<v, j>> \in G /\ <<v, k>> \in G /\ j # k}
  <2>1. ASSUME NEW v \in B PROVE v \notin T /\ n[v] \in B
    <3>1. PICK j \in Nat, k \in Nat : <<v, j>> \in G /\ <<v, k>> \in G /\ j # k
      OBVIOUS
    <3>2. v \notin T
      BY <1>3, <3>1
    <3>3. PICK i \in Nat : j = 2 * i + h[v] /\ <<n[v], i>> \in G
      BY <1>4, <3>1, <3>2
    <3>4. PICK l \in Nat : k = 2 * l + h[v] /\ <<n[v], l>> \in G
      BY <1>4, <3>1, <3>2
    <3>5. i # l
      BY <3>1, <3>3, <3>4
    <3> QED BY <3>2, <3>3, <3>4, <3>5
  <2>2. B = {}
    BY <2>1, Zenon
  <2> QED BY <2>2
<1>7. \A v \in D : g[v] \in Nat /\ <<v, g[v]>> \in G
  BY <1>5
<1>8. g \in [D -> Nat]
  BY <1>7
<1> HIDE DEF g
<1>9. ASSUME NEW v \in D PROVE g[v] = IF v \in T THEN b ELSE 2 * g[n[v]] + h[v]
  <2>1. CASE v \in T
    BY <1>3, <1>7, <2>1
  <2>2. CASE v \notin T
    <3>1. PICK j \in Nat : g[v] = 2 * j + h[v] /\ <<n[v], j>> \in G
      BY <1>4, <1>7, <2>2
    <3>2. n[v] \in D /\ g[n[v]] \in Nat /\ <<n[v], g[n[v]]>> \in G
      BY <1>7, <2>2
    <3>3. g[n[v]] = j
      BY <1>6, <3>1, <3>2
    <3> QED BY <2>2, <3>1, <3>3
  <2> QED BY <2>1, <2>2
<1> QED BY <1>8, <1>9 DEF Obeys

\* A set of numbers has a smallest element.
LEMMA Minimum ==
  ASSUME NEW S, S \subseteq Nat, S # {}
  PROVE  \E m \in S : \A n \in S : m <= n
<1>1. PICK m \in S : \A y \in S : ~(<<y, m>> \in OpToRel(<, Nat))
  BY NatLessThanWellFounded, WFMin, Zenon
<1>2. \A y \in S : ~(y < m)
  BY <1>1 DEF OpToRel
<1> QED BY <1>2

\* What holds of 0 and of a number's successor holds of all numbers.
LEMMA Induction ==
  ASSUME NEW S, S \subseteq Nat, 0 \in S, \A n \in S : n + 1 \in S
  PROVE  S = Nat
<1> SUFFICES ASSUME Nat \ S # {} PROVE FALSE
  OBVIOUS
<1>1. PICK m \in Nat \ S : \A n \in Nat \ S : m <= n
  BY Minimum
<1>2. m # 0 /\ m - 1 \in Nat /\ ~(m <= m - 1) /\ (m - 1) + 1 = m
  BY <1>1
<1>3. m - 1 \in S
  BY <1>1, <1>2
<1> QED BY <1>1, <1>2, <1>3

-----------------------------------------------------------------------------
(***************************************************************************)
(* Powers of two.                                                          *)
(***************************************************************************)

\* PowerOfTwo is what its definition says.
LEMMA Powers ==
  /\ PowerOfTwo \in [Nat -> Nat]
  /\ PowerOfTwo[0] = 1
  /\ \A n \in Nat : PowerOfTwo[n + 1] = 2 * PowerOfTwo[n]
<1> DEFINE T == {0}
           p == [n \in Nat |-> n - 1]
           h == [n \in Nat |-> 0]
           Is(g) == g = [n \in Nat |-> IF n = 0 THEN 1 ELSE 2 * g[n - 1]]
<1>1. Ends(Nat, T, p)
  <2>1. T \subseteq Nat /\ \A v \in Nat \ T : p[v] \in Nat
    OBVIOUS
  <2>2. ASSUME NEW B \in SUBSET Nat, \A v \in B : v \notin T /\ p[v] \in B, B # {}
        PROVE  FALSE
    <3>1. PICK m \in B : \A k \in B : m <= k
      BY <2>2, Minimum
    <3>2. m \in Nat /\ m # 0 /\ p[m] = m - 1 /\ p[m] \in B
      BY <2>2
    <3> HIDE DEF p
    <3> QED BY <3>1, <3>2
  <2> HIDE DEF p, T
  <2> QED BY <2>1, <2>2 DEF Ends
<1>2. h \in [Nat -> Nat] /\ 1 \in Nat
  OBVIOUS
<1> HIDE DEF p, T, h
<1>3. PICK g : Obeys(Nat, T, p, 1, h, g)
  BY <1>1, <1>2, RecursionExists, Zenon
<1>4. Is(g)
  BY <1>3 DEF Obeys, T, p, h
<1>5. Is(PowerOfTwo)
  BY <1>4 DEF PowerOfTwo
<1>6. \A n \in Nat : PowerOfTwo[n] = IF n = 0 THEN 1 ELSE 2 * PowerOfTwo[n - 1]
  <2> DEFINE q == PowerOfTwo
  <2>1. Is(q)
    BY <1>5
  <2> HIDE DEF q
  <2>2. \A n \in Nat : q[n] = IF n = 0 THEN 1 ELSE 2 * q[n - 1]
    BY <2>1
  <2> QED BY <2>2 DEF q
<1>7. PowerOfTwo[0] = 1
  BY <1>6
<1>8. \A n \in Nat : PowerOfTwo[n + 1] = 2 * PowerOfTwo[n]
  <2> TAKE n \in Nat
  <2>1. n + 1 \in Nat /\ n + 1 # 0 /\ (n + 1) - 1 = n
    OBVIOUS
  <2> QED BY <1>6, <2>1
<1>9. \A n \in Nat : PowerOfTwo[n] \in Nat
  <2> DEFINE S == {n \in Nat : PowerOfTwo[n] \in Nat}
  <2>1. 0 \in S /\ \A n \in S : n + 1 \in S
    BY <1>7, <1>8
  <2> HIDE DEF S
  <2>2. S = Nat
    BY <2>1, Induction DEF S
  <2> QED BY <2>2 DEF S
<1>10. PowerOfTwo \in [Nat -> Nat]
  BY <1>5, <1>9
<1> QED BY <1>7, <1>8, <1>10

\* A power of two is not 0.
LEMMA PowerPositive == \A n \in Nat : PowerOfTwo[n] \in Nat \ {0}
<1> DEFINE S == {n \in Nat : PowerOfTwo[n] # 0}
<1>1. 0 \in S /\ \A n \in S : n + 1 \in S
  BY Powers
<1> HIDE DEF S
<1>2. S = Nat
  BY <1>1, Induction DEF S
<1> QED BY <1>2, Powers DEF S

\* Exponents add up.
LEMMA PowerSum ==
  ASSUME NEW i \in Nat, NEW j \in Nat
  PROVE  PowerOfTwo[i + j] = PowerOfTwo[i] * PowerOfTwo[j]
<1> DEFINE S == {k \in Nat : PowerOfTwo[i + k] = PowerOfTwo[i] * PowerOfTwo[k]}
<1>1. 0 \in S
  BY Powers
<1>2. ASSUME NEW k \in S PROVE k + 1 \in S
  <2>1. k \in Nat /\ i + k \in Nat /\ i + (k + 1) = (i + k) + 1
    OBVIOUS
  <2>2. PowerOfTwo[i + (k + 1)] = 2 * (PowerOfTwo[i] * PowerOfTwo[k])
    BY <2>1, Powers
  <2>3. PowerOfTwo[k + 1] = 2 * PowerOfTwo[k]
    BY Powers
  <2>4. PowerOfTwo[i] \in Nat /\ PowerOfTwo[k] \in Nat
    BY Powers
  <2>5. \A a, b \in Nat : 2 * (a * b) = a * (2 * b)
    OBVIOUS
  <2> QED BY <2>2, <2>3, <2>4, <2>5
<1> HIDE DEF S
<1>3. S = Nat
  BY <1>1, <1>2, Induction DEF S
<1> QED BY <1>3 DEF S

-----------------------------------------------------------------------------
(***************************************************************************)
(* Division.                                                               *)
(***************************************************************************)

\* A number is its quotient times the divisor, and the remainder.
LEMMA Divided ==
  ASSUME NEW x \in Nat, NEW a \in Nat \ {0}
  PROVE  /\ x \div a \in Nat /\ x % a \in Nat /\ x % a < a
         /\ x = a * (x \div a) + (x % a)
<1>1. x \div a \in Nat /\ x % a \in Nat /\ x % a < a
  OBVIOUS
<1>2. x = a * (x \div a) + (x % a)
  OBVIOUS
<1> QED BY <1>1, <1>2

\* There is only one quotient and one remainder.
LEMMA Quotient ==
  ASSUME NEW a \in Nat \ {0}, NEW q \in Nat, NEW r \in Nat, r < a
  PROVE  (a * q + r) \div a = q /\ (a * q + r) % a = r
<1>1. (a * q + r) \div a = q
  OBVIOUS
<1>2. (a * q + r) % a = r
  OBVIOUS
<1> QED BY <1>1, <1>2

\* The same for a number that is given as a sum.
LEMMA QuotientOf ==
  ASSUME NEW a \in Nat \ {0}, NEW q \in Nat, NEW r \in Nat, r < a, NEW x, x = a * q + r
  PROVE  x \div a = q /\ x % a = r
BY Quotient, Zenon

\* To divide by 2 * a is to divide by 2 and then by a.
LEMMA Halved ==
  ASSUME NEW x \in Nat, NEW a \in Nat \ {0}
  PROVE  /\ x \div (2 * a) = (x \div 2) \div a
         /\ x % (2 * a) = 2 * ((x \div 2) % a) + (x % 2)
<1> DEFINE y == x \div 2
           b == x % 2
           q == y \div a
           r == y % a
<1>1. y \in Nat /\ b \in Nat /\ b < 2 /\ x = 2 * y + b
  BY Divided
<1> HIDE DEF y, b
<1>2. q \in Nat /\ r \in Nat /\ r < a /\ y = a * q + r
  BY <1>1, Divided
<1> HIDE DEF q, r
<1>3. 2 * r + b \in Nat /\ 2 * r + b < 2 * a /\ 2 * a \in Nat \ {0}
  BY <1>1, <1>2
<1>4. x = (2 * a) * q + (2 * r + b)
  BY <1>1, <1>2
<1>5. x \div (2 * a) = q /\ x % (2 * a) = 2 * r + b
  <2> DEFINE d == 2 * a
             s == 2 * r + b
  <2>1. d \in Nat \ {0} /\ s \in Nat /\ s < d /\ x = d * q + s
    BY <1>3, <1>4
  <2> HIDE DEF d, s
  <2>2. x \div d = q /\ x % d = s
    BY <1>2, <2>1, QuotientOf, Zenon
  <2> QED BY <2>2 DEF d, s
<1> QED BY <1>5 DEF q, r, y, b

-----------------------------------------------------------------------------
(***************************************************************************)
(* Masks.                                                                  *)
(***************************************************************************)

\* CommonBits is what its definition says.
LEMMA Common ==
  /\ CommonBits \in [Nat \X Nat -> Nat]
  /\ \A x, y \in Nat :
        CommonBits[<<x, y>>] =
          IF x = 0 \/ y = 0 THEN 0
          ELSE 2 * CommonBits[<<x \div 2, y \div 2>>] + (x % 2) * (y % 2)
<1> DEFINE D == Nat \X Nat
           T == {p \in D : p[1] = 0 \/ p[2] = 0}
           n == [p \in D |-> <<p[1] \div 2, p[2] \div 2>>]
           h == [p \in D |-> (p[1] % 2) * (p[2] % 2)]
           Is(g) == g = [p \in D |->
                           IF p[1] = 0 \/ p[2] = 0 THEN 0
                           ELSE 2 * g[<<p[1] \div 2, p[2] \div 2>>] + (p[1] % 2) * (p[2] % 2)]
<1>1. \A x \in Nat : x \div 2 \in Nat /\ x % 2 \in Nat /\ (x # 0 => x \div 2 < x)
  OBVIOUS
<1>2. \A p \in D : n[p] \in D /\ n[p][1] = p[1] \div 2 /\ p[1] \in Nat
  BY <1>1
<1>3. ASSUME NEW B \in SUBSET D, \A v \in B : v \notin T /\ n[v] \in B, B # {}
      PROVE  FALSE
  <2> DEFINE F == {v[1] : v \in B}
  <2>1. F \subseteq Nat /\ F # {}
    BY <1>3
  <2>2. PICK m \in F : \A k \in F : m <= k
    BY <2>1, Minimum
  <2>3. PICK v \in B : m = v[1]
    BY <2>2
  <2>4. v \in D /\ v[1] # 0 /\ n[v] \in B
    BY <1>3, <2>3
  <2>5. n[v][1] \in F /\ n[v][1] < m /\ m \in Nat /\ n[v][1] \in Nat
    BY <1>1, <1>2, <2>3, <2>4
  <2>6. PICK k \in F : k < m /\ k \in Nat
    BY <2>5
  <2> HIDE DEF F
  <2> QED BY <2>2, <2>5, <2>6
<1>4. Ends(D, T, n)
  <2>1. T \subseteq D
    OBVIOUS
  <2> HIDE DEF T, n, D
  <2> QED BY <1>2, <1>3, <2>1 DEF Ends
<1>5. h \in [D -> Nat] /\ 0 \in Nat
  <2>1. \A i, j \in Nat : i * j \in Nat
    OBVIOUS
  <2> QED BY <1>1, <2>1
<1>6. PICK g : Obeys(D, T, n, 0, h, g)
  <2> HIDE DEF D, T, n, h
  <2> QED BY <1>4, <1>5, RecursionExists, Zenon
<1>7. Is(g)
  BY <1>6 DEF Obeys
<1>8. Is(CommonBits)
  BY <1>7 DEF CommonBits
<1>9. \A x, y \in Nat :
         CommonBits[<<x, y>>] =
           IF x = 0 \/ y = 0 THEN 0
           ELSE 2 * CommonBits[<<x \div 2, y \div 2>>] + (x % 2) * (y % 2)
  <2> DEFINE c == CommonBits
  <2>1. Is(c)
    BY <1>8
  <2> HIDE DEF c
  <2>2. \A x, y \in Nat :
           c[<<x, y>>] = IF x = 0 \/ y = 0 THEN 0
                         ELSE 2 * c[<<x \div 2, y \div 2>>] + (x % 2) * (y % 2)
    BY <2>1
  <2> QED BY <2>2 DEF c
<1>10. \A p \in D : CommonBits[p] = g[p]
  <2> DEFINE B == {p \in D : CommonBits[p] # g[p]}
  <2>1. ASSUME NEW v \in B PROVE v \notin T /\ n[v] \in B
    <3>1. PICK x \in Nat, y \in Nat : v = <<x, y>>
      OBVIOUS
    <3>2. g[<<x, y>>] = IF x = 0 \/ y = 0 THEN 0
                        ELSE 2 * g[<<x \div 2, y \div 2>>] + (x % 2) * (y % 2)
      BY <1>7
    <3>3. CommonBits[<<x, y>>] # g[<<x, y>>]
      BY <3>1
    <3>4. /\ x # 0 /\ y # 0
          /\ CommonBits[<<x \div 2, y \div 2>>] # g[<<x \div 2, y \div 2>>]
      BY <1>9, <3>2, <3>3
    <3>5. n[v] = <<x \div 2, y \div 2>> /\ n[v] \in D
      BY <1>2, <3>1
    <3> QED BY <3>1, <3>4, <3>5
  <2> HIDE DEF n, D, T
  <2>2. B = {}
    BY <1>3, <2>1
  <2> QED BY <2>2
<1>11. CommonBits \in [D -> Nat]
  <2>1. DOMAIN CommonBits = D
    BY <1>8
  <2>2. \A p \in D : CommonBits[p] \in Nat
    BY <1>6, <1>10 DEF Obeys
  <2>3. CommonBits = [p \in D |-> CommonBits[p]]
    BY <1>8
  <2> QED BY <2>2, <2>3
<1> QED BY <1>9, <1>11

\* The recursion for numbers that are given by their halves.
LEMMA AndStep ==
  ASSUME NEW x \in Nat, NEW y \in Nat
  PROVE  /\ BitAnd(x, y) \in Nat
         /\ x = 0 \/ y = 0 => BitAnd(x, y) = 0
         /\ BitAnd(x, y) = 2 * BitAnd(x \div 2, y \div 2) + (x % 2) * (y % 2)
<1>1. x \div 2 \in Nat /\ y \div 2 \in Nat /\ x % 2 \in Nat /\ y % 2 \in Nat
  OBVIOUS
<1>2. BitAnd(x, y) \in Nat /\ (x = 0 \/ y = 0 => BitAnd(x, y) = 0)
  BY Common DEF BitAnd
<1>3. CASE x # 0 /\ y # 0
  BY <1>2, <1>3, Common DEF BitAnd
<1>4. CASE x = 0 \/ y = 0
  <2>1. (x = 0 => x \div 2 = 0 /\ x % 2 = 0) /\ (y = 0 => y \div 2 = 0 /\ y % 2 = 0)
    OBVIOUS
  <2>2. BitAnd(x \div 2, y \div 2) = 0
    BY <1>1, <1>4, <2>1, Common DEF BitAnd
  <2>3. \A i \in Nat : i * 0 = 0 /\ 0 * i = 0
    OBVIOUS
  <2>4. (x % 2) * (y % 2) = 0
    BY <1>1, <1>4, <2>1, <2>3
  <2> QED BY <1>2, <1>4, <2>2, <2>4
<1> QED BY <1>2, <1>3, <1>4

\* A mask whose low bits are 0 is applied to what is left of a word after a shift.
LEMMA AndShifted ==
  ASSUME NEW k \in Nat, NEW x \in Nat, NEW m \in Nat
  PROVE  /\ x \div PowerOfTwo[k] \in Nat /\ PowerOfTwo[k] * m \in Nat
         /\ BitAnd(x, PowerOfTwo[k] * m) = PowerOfTwo[k] * BitAnd(x \div PowerOfTwo[k], m)
<1> DEFINE S == {i \in Nat : \A y \in Nat :
                    BitAnd(y, PowerOfTwo[i] * m) =
                      PowerOfTwo[i] * BitAnd(y \div PowerOfTwo[i], m)}
<1>0. /\ \A i \in Nat : PowerOfTwo[i] \in Nat \ {0}
      /\ \A a \in Nat : a * m \in Nat
  BY PowerPositive
<1>1. 0 \in S
  <2>1. \A y \in Nat : y \div 1 = y /\ 1 * m = m /\ 1 * BitAnd(y, m) = BitAnd(y, m)
    BY AndStep
  <2> QED BY <2>1, Powers
<1>2. ASSUME NEW i \in S PROVE i + 1 \in S
  <2> DEFINE a == PowerOfTwo[i]
  <2>1. i \in Nat /\ a \in Nat \ {0} /\ PowerOfTwo[i + 1] = 2 * a /\ a * m \in Nat
    BY <1>0, Powers
  <2>2. \A y \in Nat : BitAnd(y, a * m) = a * BitAnd(y \div a, m)
    OBVIOUS
  <2> HIDE DEF a
  <2>3. ASSUME NEW y \in Nat PROVE BitAnd(y, (2 * a) * m) = (2 * a) * BitAnd(y \div (2 * a), m)
    <3> DEFINE z == y \div 2
               c == a * m
               d == BitAnd(z \div a, m)
    <3>1. z \in Nat /\ z \div a \in Nat /\ y % 2 \in Nat
      BY <2>1, Divided
    <3>2. c \in Nat /\ (2 * a) * m = 2 * c /\ (2 * c) \div 2 = c /\ (2 * c) % 2 = 0
      BY <2>1
    <3>3. BitAnd(y, 2 * c) = 2 * BitAnd(z, c)
      <4>1. BitAnd(y, 2 * c) = 2 * BitAnd(z, c) + (y % 2) * 0
        <5> DEFINE e == 2 * c
        <5>1. e \in Nat /\ e \div 2 = c /\ e % 2 = 0
          BY <3>2
        <5> HIDE DEF e, c
        <5>2. BitAnd(y, e) = 2 * BitAnd(y \div 2, e \div 2) + (y % 2) * (e % 2)
          BY <5>1, AndStep, Zenon
        <5> QED BY <5>1, <5>2 DEF e
      <4>2. BitAnd(z, c) \in Nat
        BY <3>1, <3>2, AndStep
      <4>3. (y % 2) * 0 = 0
        BY <3>1
      <4> QED BY <4>1, <4>2, <4>3
    <3>4. BitAnd(z, c) = a * d
      BY <2>2, <3>1
    <3>5. y \div (2 * a) = z \div a
      BY <2>1, Halved
    <3>6. d \in Nat
      BY <3>1, AndStep
    <3> HIDE DEF c, d, z
    <3>7. 2 * (a * d) = (2 * a) * d
      BY <2>1, <3>6
    <3>8. BitAnd(y, (2 * a) * m) = (2 * a) * d
      BY <3>2, <3>3, <3>4, <3>7
    <3> QED BY <3>5, <3>8 DEF d
  <2> QED BY <2>1, <2>3
<1> HIDE DEF S
<1>3. S = Nat
  BY <1>1, <1>2, Induction DEF S
<1>4. x \div PowerOfTwo[k] \in Nat
  BY <1>0, Divided
<1> QED BY <1>0, <1>3, <1>4 DEF S

\* A mask of ones below a power of two gives the remainder.
LEMMA AndLow ==
  ASSUME NEW k \in Nat, NEW x \in Nat
  PROVE  BitAnd(x, PowerOfTwo[k] - 1) = x % PowerOfTwo[k]
<1> DEFINE S == {i \in Nat : \A y \in Nat : BitAnd(y, PowerOfTwo[i] - 1) = y % PowerOfTwo[i]}
<1>1. 0 \in S
  <2>1. \A y \in Nat : y % 1 = 0 /\ 1 - 1 = 0 /\ BitAnd(y, 0) = 0
    BY AndStep
  <2> QED BY <2>1, Powers
<1>2. ASSUME NEW i \in S PROVE i + 1 \in S
  <2> DEFINE a == PowerOfTwo[i]
  <2>1. i \in Nat /\ a \in Nat \ {0} /\ PowerOfTwo[i + 1] = 2 * a
    BY PowerPositive, Powers
  <2>2. \A y \in Nat : BitAnd(y, a - 1) = y % a
    OBVIOUS
  <2> HIDE DEF a
  <2>3. ASSUME NEW y \in Nat PROVE BitAnd(y, 2 * a - 1) = y % (2 * a)
    <3>1. a - 1 \in Nat /\ 2 * a - 1 \in Nat /\ (2 * a - 1) \div 2 = a - 1 /\ (2 * a - 1) % 2 = 1
      BY <2>1
    <3>2. y \div 2 \in Nat /\ y % 2 \in Nat
      OBVIOUS
    <3>3. BitAnd(y, 2 * a - 1) = 2 * BitAnd(y \div 2, a - 1) + (y % 2) * 1
      BY <3>1, AndStep
    <3>4. BitAnd(y \div 2, a - 1) = (y \div 2) % a
      BY <2>2, <3>2
    <3>5. y % (2 * a) = 2 * ((y \div 2) % a) + (y % 2)
      BY <2>1, Halved
    <3>6. (y % 2) * 1 = y % 2
      BY <3>2
    <3> QED BY <3>3, <3>4, <3>5, <3>6
  <2> QED BY <2>1, <2>3
<1> HIDE DEF S
<1>3. S = Nat
  BY <1>1, <1>2, Induction DEF S
<1> QED BY <1>3 DEF S

\* Both ends of a word: its low bits and what is left after a shift.
LEMMA AndOnes ==
  ASSUME NEW k \in Nat, NEW j \in Nat, NEW x \in Nat, x < PowerOfTwo[k + j]
  PROVE  BitAnd(x, PowerOfTwo[k + j] - PowerOfTwo[k]) =
           PowerOfTwo[k] * (x \div PowerOfTwo[k])
<1> DEFINE a == PowerOfTwo[k]
           b == PowerOfTwo[j]
           q == x \div a
<1>1. a \in Nat \ {0} /\ b \in Nat \ {0} /\ PowerOfTwo[k + j] = a * b
  BY PowerPositive, PowerSum
<1>2. b - 1 \in Nat /\ a * b - a = a * (b - 1)
  BY <1>1
<1>3. q \in Nat /\ q < b
  <2>1. q \in Nat /\ x % a \in Nat /\ x = a * q + (x % a)
    BY <1>1, Divided
  <2>2. a * q < a * b
    <3> HIDE DEF q, a, b
    <3>1. a * q \in Nat
      BY <1>1, <2>1
    <3> QED BY <1>1, <2>1, <3>1
  <2> HIDE DEF q, a, b
  <2>3. ASSUME b <= q PROVE FALSE
    <3>1. PICK d \in Nat : q = b + d
      BY <1>1, <2>1, <2>3
    <3>2. a * q = a * b + a * d /\ a * d \in Nat
      BY <1>1, <3>1
    <3> QED BY <1>1, <2>2, <3>2
  <2> QED BY <1>1, <2>1, <2>3
<1>4. BitAnd(x, a * (b - 1)) = a * BitAnd(q, b - 1)
  <2> DEFINE c == b - 1
  <2>1. c \in Nat
    BY <1>2
  <2> HIDE DEF c
  <2>2. BitAnd(x, PowerOfTwo[k] * c) = PowerOfTwo[k] * BitAnd(x \div PowerOfTwo[k], c)
    BY <2>1, AndShifted, Zenon
  <2> QED BY <2>2 DEF c
<1>5. BitAnd(q, b - 1) = q % b
  BY <1>3, AndLow
<1>6. q % b = q
  <2> HIDE DEF q, b
  <2> QED BY <1>1, <1>3
<1> QED BY <1>1, <1>2, <1>4, <1>5, <1>6

\* A number below a power of two has no bit in common with multiples of it.
LEMMA AndApart ==
  ASSUME NEW k \in Nat, NEW x \in Nat, x < PowerOfTwo[k], NEW m \in Nat
  PROVE  BitAnd(x, PowerOfTwo[k] * m) = 0
<1>1. PowerOfTwo[k] \in Nat \ {0}
  BY PowerPositive
<1>2. x \div PowerOfTwo[k] = 0
  BY <1>1
<1>3. BitAnd(0, m) = 0
  BY AndStep
<1>4. BitAnd(x, PowerOfTwo[k] * m) = PowerOfTwo[k] * BitAnd(x \div PowerOfTwo[k], m)
  BY AndShifted, Zenon
<1> QED BY <1>1, <1>2, <1>3, <1>4

-----------------------------------------------------------------------------
(***************************************************************************)
(* Pointers and versions.                                                  *)
(***************************************************************************)

\* The addresses a pointer has room for, and half of all words.
AddressEnd == PowerOfTwo[AddressBits]
HalfWord == PowerOfTwo[AddressBits + 1 + CountBits]

\* The sizes of the fields.
LEMMA Widths ==
  /\ AddressEnd \in Nat \ {0} /\ HalfWord \in Nat \ {0}
  /\ PowerOfTwo[CountBits] \in Nat \ {0}
  /\ PowerOfTwo[AddressBits + 2] = 4 * AddressEnd
  /\ Word = (4 * AddressEnd) * PowerOfTwo[CountBits]
  /\ Word = 2 * HalfWord /\ VersionTypeMask = HalfWord
  /\ 2 * AddressEnd <= HalfWord
<1> USE LayoutAssumption DEF AddressEnd, HalfWord
<1> DEFINE A == AddressEnd
           C == PowerOfTwo[CountBits]
<1>1. A \in Nat \ {0} /\ HalfWord \in Nat \ {0} /\ C \in Nat \ {0}
  BY PowerPositive
<1>2. PowerOfTwo[AddressBits + 1] = 2 * A
  BY Powers
<1>3. PowerOfTwo[AddressBits + 2] = 4 * A
  <2>1. AddressBits + 1 \in Nat /\ AddressBits + 2 = (AddressBits + 1) + 1
    OBVIOUS
  <2>2. PowerOfTwo[AddressBits + 2] = 2 * PowerOfTwo[AddressBits + 1]
    BY <2>1, Powers
  <2> HIDE DEF AddressEnd
  <2> QED BY <1>1, <1>2, <2>2
<1>4. Word = (4 * A) * C
  <2>1. AddressBits + 2 \in Nat
    OBVIOUS
  <2>2. PowerOfTwo[(AddressBits + 2) + CountBits] = PowerOfTwo[AddressBits + 2] * C
    BY <2>1, PowerSum
  <2> QED BY <1>3, <2>2 DEF Word
<1>5. HalfWord = (2 * A) * C
  <2>1. AddressBits + 1 \in Nat
    OBVIOUS
  <2>2. PowerOfTwo[(AddressBits + 1) + CountBits] = PowerOfTwo[AddressBits + 1] * C
    BY <2>1, PowerSum
  <2> QED BY <1>2, <2>2
<1> HIDE DEF A, C, AddressEnd, HalfWord
<1>6. (4 * A) * C = 2 * ((2 * A) * C)
  BY <1>1 DEF A
<1>7. Word = 2 * HalfWord
  BY <1>4, <1>5, <1>6 DEF A
<1>8. VersionTypeMask = HalfWord
  <2>1. \A i \in Nat : (2 * i) \div 2 = i
    OBVIOUS
  <2> QED BY <1>1, <1>7, <2>1 DEF VersionTypeMask
<1>9. 2 * A <= HalfWord
  <2>1. PICK d \in Nat : C = d + 1
    BY <1>1
  <2>2. (2 * A) * C = 2 * A + (2 * A) * d /\ (2 * A) * d \in Nat /\ 2 * A \in Nat
    BY <1>1, <2>1 DEF A
  <2> QED BY <1>5, <2>2 DEF A
<1> QED BY <1>1, <1>3, <1>4, <1>7, <1>8, <1>9 DEF A, C

\* The address mask covers the bits below the tag.
LEMMA AddressMaskIs == AddressMask = AddressEnd - 1
<1> USE Widths
<1> DEFINE C == PowerOfTwo[CountBits]
           f == 4 * AddressEnd
<1>1. /\ C \in Nat /\ C - 1 \in Nat /\ f \in Nat \ {0}
      /\ f = PowerOfTwo[AddressBits + 2] /\ AddressBits + 2 \in Nat
  BY LayoutAssumption
<1>2. TypeMask = 3 * AddressEnd /\ TypeMask \in Nat /\ TypeMask < f
  BY DEF TypeMask, AddressEnd
<1>3. CountMask = f * (C - 1)
  <2>1. CountMask = (C - 1) * f
    BY <1>1 DEF CountMask
  <2>2. \A i, j \in Nat : i * j = j * i
    OBVIOUS
  <2> HIDE DEF f, C
  <2> QED BY <1>1, <2>1, <2>2
<1>4. BitAnd(TypeMask, CountMask) = 0
  <2> DEFINE c == C - 1
             k == AddressBits + 2
  <2>1. c \in Nat /\ k \in Nat /\ TypeMask \in Nat /\ TypeMask < PowerOfTwo[k]
    BY <1>1, <1>2
  <2>2. CountMask = PowerOfTwo[k] * c
    BY <1>1, <1>3
  <2> HIDE DEF c, k
  <2>3. BitAnd(TypeMask, PowerOfTwo[k] * c) = 0
    BY <2>1, AndApart
  <2> QED BY <2>2, <2>3
<1>5. Word = f * C
  OBVIOUS
<1> HIDE DEF C
<1>6. f * (C - 1) = f * C - f /\ f * C \in Nat
  <2> HIDE DEF f
  <2> QED BY <1>1
<1>7. BitOr(TypeMask, CountMask) = Word - AddressEnd
  BY <1>2, <1>3, <1>4, <1>5, <1>6 DEF BitOr
<1> QED BY <1>5, <1>6, <1>7 DEF AddressMask, Complement

\* UntypedPointer::address keeps the bits below the tag.
LEMMA AddressIs == ASSUME NEW w \in Nat PROVE Address(w) = w % AddressEnd
<1>1. AddressBits \in Nat
  BY LayoutAssumption
<1>2. BitAnd(w, PowerOfTwo[AddressBits] - 1) = w % PowerOfTwo[AddressBits]
  BY <1>1, AndLow
<1> QED BY <1>2, AddressMaskIs DEF Address, AddressEnd

\* The tag of a pointer is made of the next two bits.
LEMMA TypeIs ==
  ASSUME NEW w \in Nat
  PROVE  TypeBits(w) = AddressEnd * ((w \div AddressEnd) % 4)
<1>1. AddressBits \in Nat /\ AddressEnd \in Nat \ {0}
  BY LayoutAssumption, Widths
<1>2. TypeMask = PowerOfTwo[AddressBits] * 3
  BY <1>1 DEF TypeMask, AddressEnd
<1>3. BitAnd(w, PowerOfTwo[AddressBits] * 3) =
        PowerOfTwo[AddressBits] * BitAnd(w \div PowerOfTwo[AddressBits], 3)
  <2> DEFINE c == 3
  <2>1. c \in Nat
    OBVIOUS
  <2> HIDE DEF c
  <2>2. BitAnd(w, PowerOfTwo[AddressBits] * c) =
          PowerOfTwo[AddressBits] * BitAnd(w \div PowerOfTwo[AddressBits], c)
    BY <1>1, <2>1, AndShifted, Zenon
  <2> QED BY <2>2 DEF c
<1>4. PowerOfTwo[2] = 4
  <2>1. PowerOfTwo[0 + 1] = 2 /\ PowerOfTwo[1 + 1] = 2 * PowerOfTwo[1]
    BY Powers
  <2> QED BY <2>1
<1>5. \A q \in Nat : BitAnd(q, 3) = q % 4
  <2> TAKE q \in Nat
  <2>1. BitAnd(q, PowerOfTwo[2] - 1) = q % PowerOfTwo[2]
    BY AndLow
  <2> QED BY <1>4, <2>1
<1>6. w \div PowerOfTwo[AddressBits] \in Nat
  BY <1>1, Divided DEF AddressEnd
<1> QED BY <1>2, <1>3, <1>5, <1>6 DEF TypeBits, AddressEnd

\* The top bit of a word, and what is below it.
LEMMA TopBit ==
  ASSUME NEW v \in Nat
  PROVE  /\ BitAnd(v, VersionTypeMask) = HalfWord * ((v \div HalfWord) % 2)
         /\ DataBits(v) = v % HalfWord
<1> DEFINE k == AddressBits + 1 + CountBits
<1>1. k \in Nat /\ HalfWord = PowerOfTwo[k] /\ HalfWord \in Nat \ {0}
  BY LayoutAssumption, Widths DEF HalfWord
<1> HIDE DEF k
<1>2. BitAnd(v, PowerOfTwo[k] * 1) = PowerOfTwo[k] * BitAnd(v \div PowerOfTwo[k], 1)
  <2> DEFINE c == 1
  <2>1. c \in Nat
    OBVIOUS
  <2> HIDE DEF c
  <2>2. BitAnd(v, PowerOfTwo[k] * c) = PowerOfTwo[k] * BitAnd(v \div PowerOfTwo[k], c)
    BY <1>1, <2>1, AndShifted, Zenon
  <2> QED BY <2>2 DEF c
<1>3. \A q \in Nat : BitAnd(q, 1) = q % 2
  <2> TAKE q \in Nat
  <2>1. PowerOfTwo[0 + 1] = 2
    BY Powers
  <2>2. BitAnd(q, PowerOfTwo[1] - 1) = q % PowerOfTwo[1]
    BY AndLow
  <2> QED BY <2>1, <2>2
<1>4. v \div HalfWord \in Nat
  BY <1>1, Divided
<1>5. BitAnd(v, HalfWord) = HalfWord * ((v \div HalfWord) % 2)
  <2>1. HalfWord * 1 = HalfWord
    BY <1>1
  <2> QED BY <1>1, <1>2, <1>3, <1>4, <2>1
<1>6. Complement(VersionTypeMask) = HalfWord - 1
  BY <1>1, Widths DEF Complement
<1>7. BitAnd(v, PowerOfTwo[k] - 1) = v % PowerOfTwo[k]
  BY <1>1, AndLow
<1> QED BY <1>1, <1>5, <1>6, <1>7, Widths DEF DataBits

\* A bit above a word that is set and was not there is added.
LEMMA OrAbove ==
  ASSUME NEW k \in Nat, NEW x \in Nat, x < PowerOfTwo[k]
  PROVE  BitOr(x, PowerOfTwo[k]) = x + PowerOfTwo[k]
<1>1. PowerOfTwo[k] \in Nat
  BY PowerPositive
<1>2. BitAnd(x, PowerOfTwo[k] * 1) = 0
  BY AndApart
<1>3. PowerOfTwo[k] * 1 = PowerOfTwo[k]
  BY <1>1
<1> QED BY <1>1, <1>2, <1>3 DEF BitOr

\* The words an address is stored in.
LEMMA StoredWords ==
  ASSUME NEW a \in Nat, a < AddressEnd
  PROVE  /\ NewByte(a) = a
         /\ NewBlock(a) = a + AddressEnd
         /\ NewIndirect(NewByte(a)) = a + HalfWord
<1>1. AddressBits \in Nat /\ AddressBits + 1 + CountBits \in Nat
  BY LayoutAssumption
<1>2. a < HalfWord
  BY Widths
<1>3. BitOr(a, PowerOfTwo[AddressBits]) = a + PowerOfTwo[AddressBits]
  BY <1>1, OrAbove DEF AddressEnd
<1>4. BitOr(a, HalfWord) = a + HalfWord
  <2> DEFINE k == AddressBits + 1 + CountBits
  <2>1. k \in Nat /\ a < PowerOfTwo[k]
    BY <1>1, <1>2 DEF HalfWord
  <2> HIDE DEF k
  <2>2. BitOr(a, PowerOfTwo[k]) = a + PowerOfTwo[k]
    BY <2>1, OrAbove
  <2> QED BY <2>2 DEF k, HalfWord
<1> QED BY <1>3, <1>4, Widths DEF NewByte, NewBlock, PointerBlock, AddressEnd, NewIndirect

\* An address comes back from the word it was stored in, and the word says which one
\* it is.
LEMMA RoundTrip ==
  ASSUME NEW a \in Nat, a < AddressEnd, NEW kind \in WordKinds
  PROVE  LET w == StoreWord(kind, a)
             p == PointerOf(kind, w)
         IN  /\ Address(p) = a
             /\ IsBlock(p) <=> kind = "block"
             /\ IsByteAddressable(p) <=> kind # "block"
             /\ IsIndirect(w) <=> kind = "version"
<1> DEFINE A == AddressEnd
           H == HalfWord
           w == StoreWord(kind, a)
           p == PointerOf(kind, w)
<1>1. A \in Nat \ {0} /\ H \in Nat \ {0} /\ 2 * A <= H
  BY Widths
<1>2. w = IF kind = "byte" THEN a ELSE IF kind = "block" THEN a + A ELSE a + H
  BY StoredWords DEF WordKinds, StoreWord
<1>3. p = IF kind = "block" THEN a + A ELSE a
  <2>1. CASE kind # "version"
    BY <1>2, <2>1 DEF PointerOf, WordKinds
  <2>2. CASE kind = "version"
    <3>1. w = a + H /\ p = DataBits(w)
      BY <1>2, <2>2 DEF PointerOf
    <3>2. a + H = H * 1 + a /\ a < H
      BY <1>1
    <3> HIDE DEF w, p, H
    <3>3. (a + H) % H = a
      BY <1>1, <3>2, QuotientOf
    <3>4. DataBits(w) = w % H
      BY <1>1, <3>1, TopBit DEF H
    <3> QED BY <2>2, <3>1, <3>3, <3>4
  <2> QED BY <2>1, <2>2
<1> HIDE DEF w, p
<1>4. /\ a \div A = 0 /\ a % A = a
      /\ (a + A) \div A = 1 /\ (a + A) % A = a
  <2>1. a = A * 0 + a /\ a + A = A * 1 + a
    BY <1>1
  <2> HIDE DEF A
  <2> QED BY <1>1, <2>1, QuotientOf DEF A
<1>5. p \in Nat /\ w \in Nat
  BY <1>1, <1>2, <1>3
<1>6. Address(p) = a
  BY <1>3, <1>4, <1>5, AddressIs
<1>7. TypeBits(p) = IF kind = "block" THEN A ELSE 0
  <2>1. TypeBits(p) = A * ((p \div A) % 4)
    BY <1>5, TypeIs
  <2>2. (p \div A) % 4 = IF kind = "block" THEN 1 ELSE 0
    BY <1>3, <1>4
  <2> QED BY <1>1, <2>1, <2>2
<1>8. (IsBlock(p) <=> kind = "block") /\ (IsByteAddressable(p) <=> kind # "block")
  BY <1>1, <1>7 DEF IsBlock, IsByteAddressable, PointerBlock, AddressEnd
<1>9. IsIndirect(w) <=> kind = "version"
  <2>1. BitAnd(w, VersionTypeMask) = H * ((w \div H) % 2)
    BY <1>5, TopBit
  <2>2. w \div H = IF kind = "version" THEN 1 ELSE 0
    <3>1. a + H = H * 1 + a /\ a < H /\ a + A < H /\ a = H * 0 + a /\ a + A = H * 0 + (a + A)
      BY <1>1
    <3>2. (a + H) \div H = 1 /\ a \div H = 0 /\ (a + A) \div H = 0
      <4> DEFINE b == a + A
      <4>1. b \in Nat
        BY <1>1
      <4> HIDE DEF H, b
      <4> QED BY <1>1, <3>1, <4>1, QuotientOf DEF b
    <3> QED BY <1>2, <3>2 DEF WordKinds
  <2> QED BY <1>1, <2>1, <2>2 DEF IsIndirect
<1> QED BY <1>6, <1>8, <1>9 DEF w, p

-----------------------------------------------------------------------------
(***************************************************************************)
(* Pages.                                                                  *)
(***************************************************************************)

\* The larger power has the larger exponent.
LEMMA PowerOrder ==
  ASSUME NEW k \in Nat, NEW n \in Nat, PowerOfTwo[k] <= PowerOfTwo[n]
  PROVE  k <= n
<1> SUFFICES ASSUME n < k PROVE FALSE
  OBVIOUS
<1>1. PICK d \in Nat : k = (n + 1) + d
  OBVIOUS
<1> DEFINE a == PowerOfTwo[n]
           b == PowerOfTwo[d]
<1>2. a \in Nat \ {0} /\ b \in Nat \ {0} /\ PowerOfTwo[k] = (2 * a) * b
  <2>1. n + 1 \in Nat /\ PowerOfTwo[n + 1] = 2 * a
    BY Powers
  <2>2. PowerOfTwo[(n + 1) + d] = PowerOfTwo[n + 1] * b
    BY <2>1, PowerSum
  <2> QED BY <1>1, <2>1, <2>2, PowerPositive
<1> HIDE DEF a, b
<1>3. PICK c \in Nat : b = c + 1
  BY <1>2
<1>4. (2 * a) * b = 2 * a + (2 * a) * c /\ (2 * a) * c \in Nat
  BY <1>2, <1>3
<1> QED BY <1>2, <1>4 DEF a

\* With a page size that is a power of two, align_down and align_up do what their
\* names say.
LEMMA AlignDown ==
  ASSUME LayoutFits, PageSize <= Word, NEW v \in Nat, v < Word
  PROVE  align_down(v, PageSize) = PageSize * (v \div PageSize)
<1> DEFINE n == AddressBits + 2 + CountBits
<1>1. n \in Nat /\ Word = PowerOfTwo[n]
  BY LayoutAssumption DEF Word
<1>2. PICK k \in Nat : PageSize = PowerOfTwo[k]
  BY AllocatorAssumption DEF LayoutFits
<1> HIDE DEF n
<1>3. k <= n
  BY <1>1, <1>2, PowerOrder
<1>4. PICK j \in Nat : n = k + j
  BY <1>1, <1>3
<1>5. BitAnd(v, Word - PageSize) = PageSize * (v \div PageSize)
  BY <1>1, <1>2, <1>4, AndOnes
<1>6. Complement(PageSize - 1) = Word - PageSize
  <2>1. Word \in Nat
    BY <1>1, Powers
  <2> QED BY <2>1, AllocatorAssumption DEF Complement
<1> QED BY <1>5, <1>6 DEF align_down

LEMMA AlignUp ==
  ASSUME LayoutFits, 2 * PageSize <= Word, NEW l \in Nat \ {0}, l <= PageSize
  PROVE  align_up(l, PageSize) = PageSize
<1> USE AllocatorAssumption
<1> DEFINE v == (l + PageSize) - 1
<1>1. Word \in Nat
  BY Widths
<1>2. v \in Nat /\ v < Word /\ PageSize <= Word
  BY <1>1
<1>3. v = PageSize * 1 + (l - 1) /\ l - 1 \in Nat /\ l - 1 < PageSize
  OBVIOUS
<1> HIDE DEF v
<1>4. v \div PageSize = 1
  <2> DEFINE r == l - 1
  <2>1. r \in Nat /\ r < PageSize /\ v = PageSize * 1 + r
    BY <1>3
  <2> HIDE DEF r
  <2> QED BY <2>1, QuotientOf
<1>5. align_down(v, PageSize) = PageSize * 1
  BY <1>2, <1>4, AlignDown
<1> QED BY <1>5 DEF align_down, align_up, v

\* No slice is empty, and none will be.
NotEmpty ==
    /\ \A a \in Allocators : req[a] # None => req[a].size # 0
    /\ \A x \in out : x.len # 0

\* A slice that was handed out: its source, its page and its place in the page.
LEMMA SliceFacts ==
  ASSUME LayoutFits, Inductive, NotEmpty, NEW x \in out
  PROVE  /\ x.offset \in Nat \ {0} /\ x.offset < AddressEnd
         /\ x.len \in Nat \ {0} /\ x.len <= PageSize
         /\ 2 * PageSize <= Word /\ AddressEnd <= Word /\ Word \in Nat
         /\ \E m \in Memories, i \in Nat, r \in Nat :
               /\ Offset[m] + i * PageSize \in Pages(m)
               /\ i * PageSize + PageSize <= Length[m] /\ i * PageSize \in Nat
               /\ x.offset = (Offset[m] + i * PageSize) + r
               /\ r + x.len <= PageSize
<1> USE AllocatorAssumption
<1>1. x.offset \in Nat /\ x.len \in Nat \ {0}
  BY DEF Inductive, TypeOK, NotEmpty
<1>2. PICK m \in Memories : \E p \in Pages(m) :
         p <= x.offset /\ x.offset + x.len <= p + PageSize
  BY DEF Inductive, InTakenPage
<1>3. PICK p \in Pages(m) : p <= x.offset /\ x.offset + x.len <= p + PageSize
  BY <1>2
<1>4. PICK i \in 2 .. ((Length[m] \div PageSize) - 1) : p = Offset[m] + i * PageSize
  BY <1>3 DEF Pages
<1>5. Length[m] \div PageSize \in Nat
  BY WholePages
<1>6. i \in Nat /\ i * PageSize \in Nat /\ i * PageSize # 0
  <2>1. i \in Nat /\ i # 0
    BY <1>4, <1>5
  <2>2. \A a, b \in Nat \ {0} : a * b \in Nat /\ a * b # 0
    OBVIOUS
  <2> QED BY <2>1, <2>2
<1>7. p + PageSize <= Offset[m] + Length[m]
  BY PageFacts
<1>8. Offset[m] + Length[m] <= AddressEnd
  BY DEF LayoutFits, AddressEnd
<1>9. Offset[m] \in Nat /\ Length[m] \in Nat /\ AddressEnd \in Nat \ {0}
  BY Widths
<1>10. 2 * AddressEnd <= Word /\ Word \in Nat
  BY Widths
<1>11. /\ x.offset # 0 /\ x.offset < AddressEnd /\ x.len <= PageSize
       /\ i * PageSize + PageSize <= Length[m] /\ PageSize <= AddressEnd
  <2> DEFINE j == i * PageSize
  <2> HIDE DEF j
  <2>1. p = Offset[m] + j /\ j \in Nat /\ j # 0
    BY <1>4, <1>6 DEF j
  <2>2. /\ x.offset # 0 /\ x.offset < AddressEnd /\ x.len <= PageSize
        /\ j + PageSize <= Length[m] /\ PageSize <= AddressEnd
    BY <1>1, <1>3, <1>7, <1>8, <1>9, <2>1
  <2> QED BY <2>2 DEF j
<1>12. PICK r \in Nat : x.offset = p + r /\ r + x.len <= PageSize
  <2>1. p \in Nat
    BY <1>4, <1>6, <1>9
  <2>2. x.offset - p \in Nat /\ x.offset = p + (x.offset - p) /\ (x.offset - p) + x.len <= PageSize
    BY <1>1, <1>3, <2>1
  <2> QED BY <2>2
<1>13. 2 * PageSize <= Word /\ AddressEnd <= Word
  BY <1>9, <1>10, <1>11
<1> QED BY <1>1, <1>3, <1>4, <1>6, <1>10, <1>11, <1>12, <1>13

\* The source of an address is the one whose slice it is in.
LEMMA SourceFound ==
  ASSUME NEW m \in Memories, NEW a \in Nat, Offset[m] <= a, a < Offset[m] + Length[m]
  PROVE  SourceAt(a) = m
<1> USE AllocatorAssumption, LayoutAssumption
<1> DEFINE Last(n) == Offset[n] <= a /\ \A k \in Memories : Offset[k] <= a => Offset[k] <= Offset[n]
<1>1. \A k \in Memories : Offset[k] \in Nat /\ Length[k] \in Nat
  OBVIOUS
<1>2. \A k \in Memories : Offset[k] <= a => Offset[k] <= Offset[m]
  BY <1>1
<1>3. ASSUME NEW n \in Memories, Last(n) PROVE n = m
  <2>1. Offset[m] <= Offset[n] /\ Offset[n] <= Offset[m]
    BY <1>2, <1>3
  <2>2. Offset[m] = Offset[n]
    BY <1>1, <2>1
  <2> QED BY <2>2
<1>4. Last(m)
  BY <1>2
<1> HIDE DEF Last
<1>5. (CHOOSE n \in Memories : Last(n)) = m
  BY <1>3, <1>4
<1> QED BY <1>5 DEF SourceAt, Last

\* An address in a page is aligned to the page, as an address of its source and as a
\* logical address.
LEMMA PageFound ==
  ASSUME LayoutFits, PageSize <= Word, NEW m \in Memories, NEW i \in Nat, NEW r \in Nat,
         r < PageSize, i * PageSize + PageSize <= Length[m], i * PageSize \in Nat,
         Offset[m] + Length[m] <= Word, Word \in Nat
  PROVE  LET o == (Offset[m] + i * PageSize) + r
         IN  /\ SourceAt(o) = m
             /\ align_down(o - Offset[m], PageSize) = i * PageSize
             /\ align_down(o, PageSize) = Offset[m] + i * PageSize
<1> USE AllocatorAssumption
<1> DEFINE j == i * PageSize
           o == (Offset[m] + j) + r
<1>1. Offset[m] \in Nat /\ Length[m] \in Nat
  OBVIOUS
<1>2. /\ o \in Nat /\ Offset[m] <= o /\ o < Offset[m] + Length[m]
      /\ o - Offset[m] = j + r /\ j + r \in Nat /\ j + r < Word /\ o < Word
  <2> HIDE DEF j
  <2> QED BY <1>1 DEF j
<1>3. SourceAt(o) = m
  <2> HIDE DEF o
  <2> QED BY <1>2, SourceFound
<1>4. align_down(j + r, PageSize) = j
  <2>1. j + r = PageSize * i + r /\ j = PageSize * i
    BY <1>1
  <2> DEFINE v == j + r
  <2>2. v = PageSize * i + r /\ v \in Nat /\ v < Word
    BY <1>2, <2>1
  <2> HIDE DEF v
  <2>3. v \div PageSize = i
    BY <2>2, QuotientOf
  <2>4. align_down(v, PageSize) = PageSize * i
    BY <2>2, <2>3, AlignDown
  <2> QED BY <2>1, <2>4 DEF v
<1>5. align_down(o, PageSize) = Offset[m] + j
  <2>1. PICK q \in Nat : Offset[m] = PageSize * q
    <3>1. Offset[m] % PageSize = 0
      BY DEF LayoutFits
    <3>2. /\ Offset[m] \div PageSize \in Nat
          /\ Offset[m] = PageSize * (Offset[m] \div PageSize) + (Offset[m] % PageSize)
      BY <1>1, Divided
    <3>3. Offset[m] = PageSize * (Offset[m] \div PageSize)
      BY <3>1, <3>2
    <3> QED BY <3>2, <3>3
  <2>2. q + i \in Nat /\ PageSize * (q + i) = Offset[m] + j
    <3>1. PageSize * (q + i) = PageSize * q + i * PageSize
      OBVIOUS
    <3> QED BY <2>1, <3>1
  <2> DEFINE c == q + i
  <2>3. o = PageSize * c + r
    BY <2>2
  <2> HIDE DEF c, o
  <2>4. o \div PageSize = c
    BY <2>2, <2>3, QuotientOf DEF c
  <2>5. align_down(o, PageSize) = PageSize * c
    BY <1>2, <2>4, AlignDown
  <2> QED BY <2>2, <2>5 DEF c
<1> QED BY <1>2, <1>3, <1>4, <1>5

-----------------------------------------------------------------------------
(***************************************************************************)
(* The theorems.                                                           *)
(***************************************************************************)

\* No request is for 0 bytes.
LEMMA NextNotEmpty ==
  ASSUME LayoutFits, Inductive, NotEmpty, [Next]_vars
  PROVE  NotEmpty'
<1> USE AllocatorAssumption
<1>1. CASE UNCHANGED vars
  BY <1>1 DEF vars, NotEmpty
<1>2. CASE Next
  <2>1. PICK a \in Allocators :
           \/ \E n \in Sizes : Alloc(a, n)
           \/ \E m \in Memories : TakePage(a, m)
           \/ NoPage(a) \/ Consume(a) \/ Discard(a) \/ TooLarge(a) \/ Drop(a)
    BY <1>2 DEF Next
  <2>2. req \in [Allocators -> [want : Nat, size : Nat] \cup {None}]
    BY DEF Inductive, TypeOK
  <2>3. ASSUME NEW n \in Sizes, Alloc(a, n) PROVE NotEmpty'
    <3>1. U32(n) + Overhead[a] # 0
      BY DEF LayoutFits
    <3> QED BY <2>2, <2>3, <3>1 DEF Alloc, NotEmpty
  <2>4. CASE NoPage(a) \/ TooLarge(a)
    BY <2>2, <2>4 DEF NoPage, TooLarge, Fails, NotEmpty
  <2>5. CASE Consume(a)
    <3>1. req[a].size # 0
      BY <2>5 DEF Consume, NotEmpty
    <3> QED BY <2>2, <2>5, <3>1 DEF Consume, NotEmpty
  <2>6. CASE (\E m \in Memories : TakePage(a, m)) \/ Discard(a) \/ Drop(a)
    BY <2>6 DEF TakePage, Discard, Drop, NotEmpty
  <2> QED BY <2>1, <2>3, <2>4, <2>5, <2>6
<1> QED BY <1>1, <1>2

LEMMA AlwaysNotEmpty == ASSUME LayoutFits PROVE Spec => [](Inductive /\ NotEmpty)
<1>1. Init => NotEmpty
  BY DEF Init, NotEmpty
<1>2. Inductive /\ NotEmpty /\ [Next]_vars => NotEmpty'
  BY NextNotEmpty
<1> QED BY <1>1, <1>2, InductiveInvariant, PTL DEF Spec

\* The assertion in LogicalSlice::to_page (las.rs:61) holds of every slice that the
\* allocators hand out.
THEOREM AssertionHolds == ASSUME LayoutFits PROVE Spec => []PageAssertion
<1>1. Inductive /\ NotEmpty => PageAssertion
  <2> SUFFICES ASSUME Inductive, NotEmpty, NEW x \in out PROVE ToPage(x).len = PageSize
    BY DEF PageAssertion
  <2> QED BY SliceFacts, AlignUp DEF ToPage
<1> QED BY <1>1, AlwaysNotEmpty, PTL

\* LogicalAddressSpace::read and write find the page a slice was carved from, at the
\* place where the slice is, whatever word its address went through, and flush
\* finds the same page by the aligned address.
THEOREM SlicesTranslateHome == ASSUME LayoutFits PROVE Spec => []TranslatesHome
<1>1. Inductive /\ NotEmpty => TranslatesHome
  <2> SUFFICES ASSUME Inductive, NotEmpty, NEW x \in out, NEW kind \in WordKinds
               PROVE  LET s == LoadWord(kind, StoreWord(kind, x.offset), x.len)
                          p == ToPage(s)
                          src == SourceAt(s.offset)
                      IN  /\ Offset[src] + p.offset \in Pages(src)
                          /\ Offset[src] + p.offset + PageOffset(s, p) = x.offset
                          /\ PageOffset(s, p) + s.len <= p.len
                          /\ ToPage(PageAligned(s)) = p
    BY DEF TranslatesHome
  <2> USE AllocatorAssumption
  <2> DEFINE s == LoadWord(kind, StoreWord(kind, x.offset), x.len)
             p == ToPage(s)
  <2>1. /\ x.offset \in Nat \ {0} /\ x.offset < AddressEnd
        /\ x.len \in Nat \ {0} /\ x.len <= PageSize
        /\ 2 * PageSize <= Word /\ AddressEnd <= Word /\ Word \in Nat
    BY SliceFacts
  <2>2. PICK m \in Memories, i \in Nat, r \in Nat :
           /\ Offset[m] + i * PageSize \in Pages(m)
           /\ i * PageSize + PageSize <= Length[m] /\ i * PageSize \in Nat
           /\ x.offset = (Offset[m] + i * PageSize) + r
           /\ r + x.len <= PageSize
    BY SliceFacts
  <2>3. s = [offset |-> x.offset, len |-> x.len]
    BY <2>1, RoundTrip DEF LoadWord
  <2>4. /\ r < PageSize /\ PageSize <= Word /\ Offset[m] \in Nat
        /\ Offset[m] + Length[m] <= Word
    <3>1. Offset[m] + Length[m] <= AddressEnd /\ Offset[m] \in Nat /\ Length[m] \in Nat
      BY DEF LayoutFits, AddressEnd
    <3>2. AddressEnd \in Nat
      BY Widths
    <3> QED BY <2>1, <2>2, <3>1, <3>2
  <2>5. /\ SourceAt(x.offset) = m
        /\ align_down(x.offset - Offset[m], PageSize) = i * PageSize
        /\ align_down(x.offset, PageSize) = Offset[m] + i * PageSize
    BY <2>1, <2>2, <2>4, PageFound
  <2>6. /\ SourceAt(Offset[m] + i * PageSize) = m
        /\ align_down((Offset[m] + i * PageSize) - Offset[m], PageSize) = i * PageSize
    <3>1. (Offset[m] + i * PageSize) + 0 = Offset[m] + i * PageSize /\ 0 < PageSize
      BY <2>2, <2>4
    <3> QED BY <2>1, <2>2, <2>4, <3>1, PageFound
  <2>7. align_up(x.len, PageSize) = PageSize /\ align_up(PageSize, PageSize) = PageSize
    BY <2>1, AlignUp
  <2>8. p = [offset |-> i * PageSize, len |-> PageSize]
    BY <2>3, <2>5, <2>7 DEF ToPage
  <2>9. PageAligned(s) = [offset |-> Offset[m] + i * PageSize, len |-> PageSize]
    BY <2>3, <2>5, <2>7 DEF PageAligned
  <2>10. ToPage(PageAligned(s)) = p
    BY <2>6, <2>7, <2>8, <2>9 DEF ToPage
  <2> HIDE DEF s, p
  <2>11. PageOffset(s, p) = r
    <3>1. PageOffset(s, p) = x.offset - Offset[m] - i * PageSize
      BY <2>3, <2>5, <2>8 DEF PageOffset
    <3> DEFINE j == i * PageSize
    <3>2. j \in Nat /\ x.offset = (Offset[m] + j) + r
      BY <2>2
    <3> HIDE DEF j
    <3>3. x.offset - Offset[m] - j = r
      BY <2>1, <2>4, <3>2
    <3> QED BY <3>1, <3>3 DEF j
  <2>12. SourceAt(s.offset) = m
    BY <2>3, <2>5
  <2>13. /\ Offset[m] + p.offset \in Pages(m)
         /\ Offset[m] + p.offset + PageOffset(s, p) = x.offset
         /\ PageOffset(s, p) + s.len <= p.len
    BY <2>2, <2>3, <2>8, <2>11
  <2> QED BY <2>10, <2>12, <2>13 DEF s, p
<1> QED BY <1>1, AlwaysNotEmpty, PTL

\* UntypedPointer and Version: a word that holds an address is not null, has the tag it
\* was made with, and a version number is not taken for a pointer; the assertion in
\* Version::new_indirect (vos.rs:204) holds.
THEOREM WordsSayWhatTheyAre == ASSUME LayoutFits PROVE Spec => []WordsDistinct
<1>1. Inductive /\ NotEmpty => WordsDistinct
  <2> SUFFICES ASSUME Inductive, NotEmpty, NEW x \in out, NEW kind \in WordKinds
               PROVE  LET w == StoreWord(kind, x.offset)
                      IN  /\ IsBlock(PointerOf(kind, w)) <=> kind = "block"
                          /\ IsByteAddressable(PointerOf(kind, w)) <=> kind # "block"
                          /\ IsIndirect(w) <=> kind = "version"
                          /\ Address(PointerOf(kind, w)) # 0
    BY DEF WordsDistinct
  <2>1. x.offset \in Nat \ {0} /\ x.offset < AddressEnd
    BY SliceFacts
  <2> QED BY <2>1, RoundTrip
<1> QED BY <1>1, AlwaysNotEmpty, PTL

=============================================================================
