---------------------------- MODULE SumTheorems ----------------------------
(***************************************************************************)
(* What Total computes, for every number of terms.  Induction over sets:   *)
(* the library's rules of induction take the property as an operator,      *)
(* which no backend instantiates; that the naturals are well founded is    *)
(* stated without one.                                                     *)
(***************************************************************************)
EXTENDS Sums, WellFoundedInduction, TLAPS

\* Every nonempty set of naturals has a least element.
LEMMA LeastNat ==
  ASSUME NEW T, T \subseteq Nat, T # {}
  PROVE  \E n \in T : \A m \in T : n <= m
<1> DEFINE Less == {ss \in Nat \X Nat : ss[1] < ss[2]}
<1>1. IsWellFoundedOn(Less, Nat)
  BY NatLessThanWellFounded DEF OpToRel
<1> HIDE DEF Less
<1>2. PICK n \in T : \A m \in T : ~(<<m, n>> \in Less)
  BY <1>1, WFMin
<1>3. \A m \in T : ~(m < n)
  BY <1>2 DEF Less
<1>4. QED BY <1>3

\* A set that has 0, and with each number up to n - 1 the next, has all to n.
LEMMA Induction ==
  ASSUME NEW n \in Nat, NEW S, 0 \in S, \A m \in 0..n : m + 1 \in 0..n /\ m \in S => m + 1 \in S
  PROVE  0..n \subseteq S
<1> SUFFICES ASSUME (0..n) \ S # {} PROVE FALSE
  OBVIOUS
<1>1. (0..n) \ S \subseteq Nat OBVIOUS
<1>2. PICK k \in (0..n) \ S : \A m \in (0..n) \ S : k <= m
  BY <1>1, LeastNat
<1>3. k # 0 /\ k - 1 \in 0..n /\ k - 1 \in S /\ (k - 1) + 1 = k
  BY <1>2
<1>4. QED BY <1>2, <1>3

-----------------------------------------------------------------------------
\* The partial sums of f up to n.
IsPartial(p, f, n) == p = [i \in 0..n |-> IF i = 0 THEN 0 ELSE p[i - 1] + f[i]]

LEMMA PartialExists ==
  ASSUME NEW f, NEW n \in Nat
  PROVE  \E p : IsPartial(p, f, n)
<1> DEFINE S == {m \in 0..n : \E p : IsPartial(p, f, m)}
<1>1. 0 \in S
  <2>1. IsPartial([i \in 0..0 |-> 0], f, 0) BY DEF IsPartial
  <2>2. QED BY <2>1
<1>2. ASSUME NEW m \in 0..n, m + 1 \in 0..n, m \in S PROVE m + 1 \in S
  <2>1. PICK p : IsPartial(p, f, m) BY <1>2
  <2> DEFINE q == [i \in 0..(m + 1) |-> IF i = m + 1 THEN p[m] + f[m + 1] ELSE p[i]]
  <2>2. \A i \in 0..m : p[i] = IF i = 0 THEN 0 ELSE p[i - 1] + f[i]
    BY <2>1 DEF IsPartial
  <2>3. \A i \in 0..(m + 1) : q[i] = IF i = 0 THEN 0 ELSE q[i - 1] + f[i]
    BY <2>2
  <2>4. IsPartial(q, f, m + 1)
    BY <2>3 DEF IsPartial
  <2>5. QED BY <1>2, <2>4
<1> HIDE DEF S
<1>3. 0..n \subseteq S BY <1>1, <1>2, Induction
<1>4. QED BY <1>3 DEF S

LEMMA PartialsAgree ==
  ASSUME NEW f, NEW n \in Nat, NEW m \in 0..n, NEW p, NEW q, IsPartial(p, f, n), IsPartial(q, f, m)
  PROVE  \A i \in 0..m : p[i] = q[i]
<1> DEFINE S == {i \in 0..m : p[i] = q[i]}
<1>1. /\ \A i \in 0..n : p[i] = IF i = 0 THEN 0 ELSE p[i - 1] + f[i]
      /\ \A i \in 0..m : q[i] = IF i = 0 THEN 0 ELSE q[i - 1] + f[i]
  BY DEF IsPartial
<1>2. 0 \in S BY <1>1
<1>3. ASSUME NEW i \in 0..m, i + 1 \in 0..m, i \in S PROVE i + 1 \in S
  BY <1>1, <1>3
<1> HIDE DEF S
<1>4. 0..m \subseteq S BY <1>2, <1>3, Induction
<1>5. QED BY <1>4 DEF S

LEMMA TotalIsPartial ==
  ASSUME NEW f, NEW n \in Nat
  PROVE  \E p : IsPartial(p, f, n) /\ Total(f, n) = p[n]
<1> DEFINE p == CHOOSE p : IsPartial(p, f, n)
<1>1. Total(f, n) = p[n] BY DEF Total, IsPartial
<1>2. IsPartial(p, f, n) BY PartialExists
<1>3. QED BY <1>1, <1>2

\* No terms add up to 0.
THEOREM TotalNone == ASSUME NEW f PROVE Total(f, 0) = 0
<1>1. PICK p : IsPartial(p, f, 0) /\ Total(f, 0) = p[0] BY TotalIsPartial
<1>2. QED BY <1>1 DEF IsPartial

\* One more term adds itself to the sum.
THEOREM TotalMore ==
  ASSUME NEW f, NEW n \in Nat
  PROVE  Total(f, n + 1) = Total(f, n) + f[n + 1]
<1>1. PICK p : IsPartial(p, f, n + 1) /\ Total(f, n + 1) = p[n + 1] BY TotalIsPartial
<1>2. PICK q : IsPartial(q, f, n) /\ Total(f, n) = q[n] BY TotalIsPartial
<1>3. p[n] = q[n] BY <1>1, <1>2, PartialsAgree
<1>4. p[n + 1] = p[n] + f[n + 1] BY <1>1 DEF IsPartial
<1>5. QED BY <1>1, <1>2, <1>3, <1>4

-----------------------------------------------------------------------------
\* A sum of integers is an integer.
THEOREM TotalInt ==
  ASSUME NEW n \in Nat, NEW f, \A i \in 1..n : f[i] \in Int
  PROVE  Total(f, n) \in Int
<1> DEFINE S == {m \in 0..n : Total(f, m) \in Int}
<1>1. 0 \in S BY TotalNone
<1>2. ASSUME NEW m \in 0..n, m + 1 \in 0..n, m \in S PROVE m + 1 \in S
  <2>1. Total(f, m + 1) = Total(f, m) + f[m + 1] BY TotalMore
  <2>2. QED BY <1>2, <2>1
<1> HIDE DEF S
<1>3. 0..n \subseteq S BY <1>1, <1>2, Induction
<1>4. QED BY <1>3 DEF S

\* Larger terms have a larger sum.
THEOREM TotalMonotone ==
  ASSUME NEW n \in Nat, NEW f, NEW g, \A i \in 1..n : f[i] \in Int /\ g[i] \in Int /\ f[i] <= g[i]
  PROVE  Total(f, n) <= Total(g, n)
<1> DEFINE S == {m \in 0..n : Total(f, m) <= Total(g, m)}
<1>1. 0 \in S BY TotalNone
<1>2. ASSUME NEW m \in 0..n, m + 1 \in 0..n, m \in S PROVE m + 1 \in S
  <2>1. Total(f, m + 1) = Total(f, m) + f[m + 1] /\ Total(g, m + 1) = Total(g, m) + g[m + 1] BY TotalMore
  <2>2. Total(f, m) \in Int /\ Total(g, m) \in Int BY TotalInt
  <2>3. QED BY <1>2, <2>1, <2>2
<1> HIDE DEF S
<1>3. 0..n \subseteq S BY <1>1, <1>2, Induction
<1>4. QED BY <1>3 DEF S

\* The same terms have the same sum.
THEOREM TotalSame ==
  ASSUME NEW n \in Nat, NEW f, NEW g, \A i \in 1..n : f[i] = g[i]
  PROVE  Total(f, n) = Total(g, n)
<1> DEFINE S == {m \in 0..n : Total(f, m) = Total(g, m)}
<1>1. 0 \in S BY TotalNone
<1>2. ASSUME NEW m \in 0..n, m + 1 \in 0..n, m \in S PROVE m + 1 \in S
  <2>1. Total(f, m + 1) = Total(f, m) + f[m + 1] /\ Total(g, m + 1) = Total(g, m) + g[m + 1] BY TotalMore
  <2>2. QED BY <1>2, <2>1
<1> HIDE DEF S
<1>3. 0..n \subseteq S BY <1>1, <1>2, Induction
<1>4. QED BY <1>3 DEF S

\* Terms that are all 0 add up to 0.
THEOREM TotalZero ==
  ASSUME NEW n \in Nat, NEW f, \A i \in 1..n : f[i] = 0
  PROVE  Total(f, n) = 0
<1> DEFINE S == {m \in 0..n : Total(f, m) = 0}
<1>1. 0 \in S BY TotalNone
<1>2. ASSUME NEW m \in 0..n, m + 1 \in 0..n, m \in S PROVE m + 1 \in S
  <2>1. Total(f, m + 1) = Total(f, m) + f[m + 1] BY TotalMore
  <2>2. QED BY <1>2, <2>1
<1> HIDE DEF S
<1>3. 0..n \subseteq S BY <1>1, <1>2, Induction
<1>4. QED BY <1>3 DEF S

\* A sum of naturals is a natural.
THEOREM TotalNat ==
  ASSUME NEW n \in Nat, NEW f, \A i \in 1..n : f[i] \in Nat
  PROVE  Total(f, n) \in Nat
<1> DEFINE zero == [i \in 1..n |-> 0]
<1>1. \A i \in 1..n : zero[i] = 0 OBVIOUS
<1> HIDE DEF zero
<1>2. Total(zero, n) = 0 BY <1>1, TotalZero
<1>3. Total(zero, n) <= Total(f, n) BY <1>1, TotalMonotone
<1>4. QED BY <1>2, <1>3, TotalInt

\* The sums of two families add up.
THEOREM TotalPlus ==
  ASSUME NEW n \in Nat, NEW f, NEW g, NEW h,
         \A i \in 1..n : f[i] \in Int /\ g[i] \in Int /\ h[i] = f[i] + g[i]
  PROVE  Total(h, n) = Total(f, n) + Total(g, n)
<1> DEFINE S == {m \in 0..n : Total(h, m) = Total(f, m) + Total(g, m)}
<1>1. 0 \in S BY TotalNone
<1>2. ASSUME NEW m \in 0..n, m + 1 \in 0..n, m \in S PROVE m + 1 \in S
  <2>1. /\ Total(f, m + 1) = Total(f, m) + f[m + 1] /\ Total(g, m + 1) = Total(g, m) + g[m + 1]
        /\ Total(h, m + 1) = Total(h, m) + h[m + 1]
    BY TotalMore
  <2>2. Total(f, m) \in Int /\ Total(g, m) \in Int BY TotalInt
  <2>3. QED BY <1>2, <2>1, <2>2
<1> HIDE DEF S
<1>3. 0..n \subseteq S BY <1>1, <1>2, Induction
<1>4. QED BY <1>3 DEF S

\* The sum of a family with one term that is not 0.
THEOREM TotalOne ==
  ASSUME NEW n \in Nat, NEW f, NEW k \in 1..n, f[k] \in Int, \A i \in 1..n : i # k => f[i] = 0
  PROVE  Total(f, n) = f[k]
<1> DEFINE S == {m \in 0..n : Total(f, m) = IF k <= m THEN f[k] ELSE 0}
<1>1. 0 \in S BY TotalNone
<1>2. ASSUME NEW m \in 0..n, m + 1 \in 0..n, m \in S PROVE m + 1 \in S
  <2>1. Total(f, m + 1) = Total(f, m) + f[m + 1] BY TotalMore
  <2>2. CASE m + 1 = k BY <1>2, <2>1, <2>2
  <2>3. CASE m + 1 # k
    <3>1. f[m + 1] = 0 BY <1>2, <2>3
    <3>2. QED BY <1>2, <2>1, <2>3, <3>1
  <2>4. QED BY <2>2, <2>3
<1> HIDE DEF S
<1>3. 0..n \subseteq S BY <1>1, <1>2, Induction
<1>4. QED BY <1>3 DEF S

\* When one term changes, the sum changes by as much.
THEOREM TotalChange ==
  ASSUME NEW n \in Nat, NEW f, NEW g, NEW k \in 1..n,
         \A i \in 1..n : f[i] \in Int /\ g[i] \in Int /\ (i # k => g[i] = f[i])
  PROVE  Total(g, n) = Total(f, n) + g[k] - f[k]
<1> DEFINE d == [i \in 1..n |-> g[i] - f[i]]
<1>1. Total(d, n) = g[k] - f[k]
  <2>1. \A i \in 1..n : d[i] \in Int /\ (i # k => d[i] = 0) OBVIOUS
  <2>2. d[k] = g[k] - f[k] OBVIOUS
  <2> HIDE DEF d
  <2>3. QED BY <2>1, <2>2, TotalOne
<1>2. Total(g, n) = Total(f, n) + Total(d, n)
  <2>1. \A i \in 1..n : d[i] \in Int /\ g[i] = f[i] + d[i] OBVIOUS
  <2> HIDE DEF d
  <2>2. QED BY <2>1, TotalPlus
<1>3. Total(f, n) \in Int BY TotalInt
<1>4. QED BY <1>1, <1>2, <1>3

\* When two terms change, by as much as both.
THEOREM TotalChangeTwo ==
  ASSUME NEW n \in Nat, NEW f, NEW g, NEW j \in 1..n, NEW k \in 1..n, j # k,
         \A i \in 1..n : f[i] \in Int /\ g[i] \in Int /\ (i \notin {j, k} => g[i] = f[i])
  PROVE  Total(g, n) = Total(f, n) + (g[j] - f[j]) + (g[k] - f[k])
<1> DEFINE m == [i \in 1..n |-> IF i = j THEN g[i] ELSE f[i]]
<1>1. /\ \A i \in 1..n : m[i] \in Int /\ (i # j => m[i] = f[i]) /\ (i # k => g[i] = m[i])
      /\ m[j] = g[j] /\ m[k] = f[k]
  OBVIOUS
<1> HIDE DEF m
<1>2. Total(m, n) = Total(f, n) + m[j] - f[j] BY <1>1, TotalChange
<1>3. Total(g, n) = Total(m, n) + g[k] - m[k] BY <1>1, TotalChange
<1>4. Total(f, n) \in Int BY TotalInt
<1>5. QED BY <1>1, <1>2, <1>3, <1>4

\* g[u] is the sum of the part of the n terms of f that owner gives to u; one
\* without an owner counts for nothing.
ByOwner(g, owners, part, owner, f, n) ==
  /\ \A i \in 1..n : f[i] \in Int /\ (owner[i] \in 1..owners \/ f[i] = 0)
  /\ \A u \in 1..owners : /\ \A i \in 1..n : part[u][i] = IF owner[i] = u THEN f[i] ELSE 0
                          /\ g[u] = Total(part[u], n)

\* Summing first over the rows of each owner and then over the owners is
\* summing over the rows.
THEOREM TotalByOwner ==
  ASSUME NEW n \in Nat, NEW owners \in Nat, NEW owner, NEW f, NEW part, NEW g,
         ByOwner(g, owners, part, owner, f, n)
  PROVE  Total(g, owners) = Total(f, n)
<1>0. /\ \A i \in 1..n : /\ f[i] \in Int
                         /\ owner[i] \in 1..owners \/ f[i] = 0
      /\ \A u \in 1..owners : /\ \A i \in 1..n : part[u][i] = IF owner[i] = u THEN f[i] ELSE 0
                              /\ g[u] = Total(part[u], n)
  BY DEF ByOwner
<1> DEFINE Of(u)  == [i \in 1..n |-> IF owner[i] = u THEN f[i] ELSE 0]
           Sum(m) == Total([u \in 1..owners |-> Total(Of(u), m)], owners)
           S      == {m \in 0..n : Sum(m) = Total(f, m)}
<1>1. 0 \in S
  <2> DEFINE a == [u \in 1..owners |-> Total(Of(u), 0)]
  <2>1. \A u \in 1..owners : a[u] = 0 BY TotalNone
  <2>2. Sum(0) = 0
    <3> HIDE DEF a
    <3>1. Total(a, owners) = 0 BY <2>1, TotalZero
    <3>2. QED BY <3>1 DEF a
  <2>3. QED BY <2>2, TotalNone
<1>2. ASSUME NEW m \in 0..n, m + 1 \in 0..n, m \in S PROVE m + 1 \in S
  <2> DEFINE a == [u \in 1..owners |-> Total(Of(u), m)]
             b == [u \in 1..owners |-> Of(u)[m + 1]]
             c == [u \in 1..owners |-> Total(Of(u), m + 1)]
  <2>1. \A u \in 1..owners : a[u] \in Int /\ b[u] \in Int /\ c[u] = a[u] + b[u]
    <3>1. ASSUME NEW u \in 1..owners PROVE Total(Of(u), m) \in Int
      <4>1. \A i \in 1..m : Of(u)[i] \in Int BY <1>0
      <4> HIDE DEF Of
      <4>2. QED BY <4>1, TotalInt
    <3>2. \A u \in 1..owners : Of(u)[m + 1] \in Int BY <1>0, <1>2
    <3>3. ASSUME NEW u \in 1..owners PROVE Total(Of(u), m + 1) = Total(Of(u), m) + Of(u)[m + 1]
      <4> HIDE DEF Of
      <4>1. QED BY TotalMore
    <3> HIDE DEF Of
    <3>4. QED BY <3>1, <3>2, <3>3
  <2>2. Total(b, owners) = f[m + 1]
    <3>1. CASE owner[m + 1] \in 1..owners
      <4>1. /\ b[owner[m + 1]] = f[m + 1] /\ f[m + 1] \in Int
            /\ \A u \in 1..owners : u # owner[m + 1] => b[u] = 0
        BY <1>0, <1>2, <3>1
      <4> HIDE DEF b
      <4>2. QED BY <3>1, <4>1, TotalOne
    <3>2. CASE owner[m + 1] \notin 1..owners
      <4>1. f[m + 1] = 0 /\ \A u \in 1..owners : b[u] = 0 BY <1>0, <1>2, <3>2
      <4> HIDE DEF b
      <4>2. QED BY <4>1, TotalZero
    <3>3. QED BY <3>1, <3>2
  <2>3. Total(c, owners) = Total(a, owners) + Total(b, owners)
    <3> HIDE DEF a, b, c
    <3>1. QED BY <2>1, TotalPlus
  <2>4. Total(a, owners) = Total(f, m) BY <1>2
  <2>5. Total(f, m + 1) = Total(f, m) + f[m + 1] BY TotalMore
  <2>6. Total(c, owners) = Total(f, m + 1) 
    <3> HIDE DEF a, b, c
    <3>1. QED BY <2>2, <2>3, <2>4, <2>5
  <2>7. QED BY <1>2, <2>6
<1> HIDE DEF S
<1>3. 0..n \subseteq S BY <1>1, <1>2, Induction
<1>4. n \in S BY <1>3
<1>5. Sum(n) = Total(f, n) BY <1>4 DEF S
<1>6. Total(g, owners) = Sum(n)
  <2> DEFINE h == [u \in 1..owners |-> Total(Of(u), n)]
  <2>1. ASSUME NEW u \in 1..owners PROVE g[u] = h[u]
    <3>1. \A i \in 1..n : part[u][i] = Of(u)[i] BY <1>0
    <3>2. Total(part[u], n) = Total(Of(u), n)
      <4> HIDE DEF Of
      <4>1. QED BY <3>1, TotalSame
    <3>3. QED BY <1>0, <3>2
  <2> HIDE DEF h
  <2>2. Total(g, owners) = Total(h, owners) BY <2>1, TotalSame
  <2>3. QED BY <2>2 DEF h
<1>7. QED BY <1>5, <1>6

=============================================================================
