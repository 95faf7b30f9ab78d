--------------------------- MODULE AccountsProofs ---------------------------
(***************************************************************************)
(* Proofs about Accounts, for every set of devices, accounts and names.    *)
(*                                                                         *)
(* The first part is about the distance table of edit_distance: its        *)
(* recursive definition has a solution, a walk along equal letters does    *)
(* not raise the distance, and hence near-copies are at most one edit      *)
(* apart and count as confusing. The second part is the state machine:     *)
(* AccountsInv keeps the types, the registered devices finitely many (so   *)
(* that counting them decides whether one is the last) and the names       *)
(* apart.                                                                  *)
(***************************************************************************)
EXTENDS Accounts, FiniteSetTheorems, WellFoundedInduction, TLAPS

(* A set of naturals that is not empty has a least member. *)
LEMMA LeastMember ==
    ASSUME NEW B \in SUBSET Nat, B # {}
    PROVE  \E m \in B : \A y \in B : m <= y
<1>1. IsWellFoundedOn(OpToRel(<, Nat), Nat)
  BY NatLessThanWellFounded, Zenon
<1>2. PICK m \in B : \A y \in B : <<y, m>> \notin OpToRel(<, Nat)
  BY <1>1, WFMin, Zenon
<1>3. \A y \in B : ~(y < m)
  BY <1>2, Zenon DEF OpToRel
<1>4. QED
  BY <1>3

Solution(f, n, z, st) ==
    f = [j \in 0 .. n |-> IF j = 0 THEN z ELSE st[<<j, f[j - 1]>>]]

(* A value for 0 and a step for each j in 1 .. n determine a function.     *)
LEMMA Recursion ==
    ASSUME NEW V, NEW z \in V, NEW n \in Nat, NEW st \in [(1 .. n) \X V -> V]
    PROVE  \E f \in [0 .. n -> V] : Solution(f, n, z, st)
<1> DEFINE Solves(k, f) ==
             \A j \in 0 .. k : f[j] = IF j = 0 THEN z ELSE st[<<j, f[j - 1]>>]
           Good(k) == \E f \in [0 .. k -> V] : Solves(k, f)
           B == {k \in 0 .. n : ~Good(k)}
<1>1. Good(0)
  <2> DEFINE f == [j \in 0 .. 0 |-> z]
  <2>1. f \in [0 .. 0 -> V]
    OBVIOUS
  <2>2. Solves(0, f)
    OBVIOUS
  <2> HIDE DEF f, Solves
  <2>3. QED  BY <2>1, <2>2, Zenon
<1>2. ASSUME NEW m \in 1 .. n, Good(m - 1)
      PROVE  Good(m)
  <2>1. PICK f \in [0 .. m - 1 -> V] : Solves(m - 1, f)
    BY <1>2, Zenon
  <2> DEFINE g == [j \in 0 .. m |-> IF j < m THEN f[j] ELSE st[<<m, f[m - 1]>>]]
  <2>2. \A j \in 0 .. m - 1 : f[j] \in V
    BY Zenon
  <2>3. m - 1 \in 0 .. m - 1 /\ m \in 1 .. n
    OBVIOUS
  <2>4. st[<<m, f[m - 1]>>] \in V
    BY <2>2, <2>3, Zenon
  <2>5. \A j \in 0 .. m : IF j < m THEN j \in 0 .. m - 1 ELSE j = m
    OBVIOUS
  <2>6. g \in [0 .. m -> V]
    BY <2>2, <2>4, <2>5, Zenon
  <2>7. ASSUME NEW j \in 0 .. m
        PROVE  g[j] = IF j = 0 THEN z ELSE st[<<j, g[j - 1]>>]
    <3>1. j # 0 => j - 1 \in 0 .. m /\ j - 1 < m
      OBVIOUS
    <3>2. j # 0 => g[j - 1] = f[j - 1]
      BY <3>1, Zenon
    <3>3. CASE j < m
      <4>1. g[j] = f[j] /\ j \in 0 .. m - 1
        BY <3>3, <2>5, Zenon
      <4> HIDE DEF g
      <4>2. QED  BY <2>1, <4>1, <3>2, Zenon
    <3>4. CASE ~(j < m)
      <4>1. j = m /\ j # 0
        BY <3>4
      <4>2. g[j] = st[<<m, f[m - 1]>>]
        BY <3>4, Zenon
      <4> HIDE DEF g
      <4>3. QED  BY <4>1, <4>2, <3>2, Zenon
    <3>5. QED  BY <3>3, <3>4, Zenon
  <2> HIDE DEF g
  <2>8. QED  BY <2>6, <2>7, Zenon
<1>3. Good(n)
  <2> SUFFICES ASSUME ~Good(n) PROVE FALSE
    BY Zenon
  <2> HIDE DEF Good
  <2>1. B \in SUBSET Nat /\ n \in B
    OBVIOUS
  <2>2. PICK m \in B : \A y \in B : m <= y
    <3> HIDE DEF B
    <3>1. QED  BY <2>1, LeastMember, Zenon
  <2>3. m \in 0 .. n /\ ~Good(m)
    BY Zenon
  <2>4. m \in 1 .. n /\ m - 1 \in 0 .. n /\ ~(m <= m - 1)
    BY <2>3, <1>1
  <2>5. Good(m - 1)
    BY <2>2, <2>4, Zenon
  <2>6. QED  BY <1>2, <2>3, <2>4, <2>5, Zenon
<1>4. PICK f \in [0 .. n -> V] : Solves(n, f)
  BY <1>3, Zenon
<1>5. Solution(f, n, z, st)
  BY <1>4, Zenon DEF Solution
<1>6. QED  BY <1>5, Zenon

StepInAgreement(f, g, n) ==
    f[0] = g[0] /\ \A j \in 1 .. n : f[j - 1] = g[j - 1] => f[j] = g[j]

Agree(f, g, n) == \A j \in 0 .. n : f[j] = g[j]

(* Functions that agree at 0 and stay in agreement from each j to the next *)
(* agree.                                                                  *)
LEMMA SameValues ==
    ASSUME NEW n \in Nat, NEW f, NEW g, StepInAgreement(f, g, n)
    PROVE  Agree(f, g, n)
<1>0. f[0] = g[0] /\ \A j \in 1 .. n : f[j - 1] = g[j - 1] => f[j] = g[j]
  BY Zenon DEF StepInAgreement
<1> DEFINE B == {j \in 0 .. n : f[j] # g[j]}
<1> SUFFICES ASSUME B # {} PROVE FALSE
  BY Zenon DEF Agree
<1>1. B \in SUBSET Nat
  OBVIOUS
<1>2. PICK m \in B : \A y \in B : m <= y
  <2> HIDE DEF B
  <2>1. QED  BY <1>1, LeastMember, Zenon
<1>3. m \in 0 .. n /\ f[m] # g[m]
  BY Zenon
<1>4. m \in 1 .. n /\ m - 1 \in 0 .. n /\ ~(m <= m - 1)
  BY <1>0, <1>3
<1>5. f[m - 1] = g[m - 1]
  BY <1>2, <1>4, Zenon
<1>6. QED  BY <1>0, <1>3, <1>4, <1>5, Zenon

-----------------------------------------------------------------------------
(* The distance table. *)

WithinThree(m, x, y, z) == m \in Nat /\ m <= x /\ m <= y /\ m <= z

(* The least of three numbers. *)
LEMMA LeastOfThree ==
    ASSUME NEW x \in Nat, NEW y \in Nat, NEW z \in Nat
    PROVE  WithinThree(Least({x, y, z}), x, y, z)
<1> DEFINE S == {x, y, z}
<1>1. PICK m \in S : \A w \in S : m <= w
  <2>1. S \in SUBSET Nat /\ S # {}
    OBVIOUS
  <2> HIDE DEF S
  <2>2. QED  BY <2>1, LeastMember, Zenon
<1>2. Least(S) \in S /\ \A w \in S : Least(S) <= w
  <2> HIDE DEF S
  <2>1. QED  BY <1>1, Zenon DEF Least
<1>3. x \in S /\ y \in S /\ z \in S /\ S \subseteq Nat
  OBVIOUS
<1> HIDE DEF S
<1>4. Least(S) \in Nat /\ Least(S) <= x /\ Least(S) <= y /\ Least(S) <= z
  BY <1>2, <1>3, Zenon
<1>5. QED  BY <1>4, Zenon DEF S, WithinThree

Row(right) == [0 .. Len(right) -> Nat]

(* The step of the inner loop of edit_distance, from the entry to the left. *)
Entry(left, right, i, previous, j, l) ==
    Least({l + 1, previous[j] + 1,
           previous[j - 1] + (IF left[i] = right[j] THEN 0 ELSE 1)})

IsNextRow(left, right, i, previous, c) ==
    /\ c \in Row(right)
    /\ c[0] = i
    /\ \A j \in 1 .. Len(right) : c[j] = Entry(left, right, i, previous, j, c[j - 1])

(* The inner loop: next_row satisfies its recursive definition. *)
LEMMA NextRow ==
    ASSUME NEW left, NEW right, Len(right) \in Nat, NEW i \in Nat,
           NEW previous \in Row(right)
    PROVE  IsNextRow(left, right, i, previous, next_row(left, right, i, previous))
<1> DEFINE n == Len(right)
           c == next_row(left, right, i, previous)
           E(j, l) == Entry(left, right, i, previous, j, l)
           st == [p \in (1 .. n) \X Nat |-> E(p[1], p[2])]
           P(f) == f = [j \in 0 .. Len(right) |->
                          IF j = 0 THEN i
                          ELSE Least({f[j - 1] + 1, previous[j] + 1,
                                      previous[j - 1]
                                        + (IF left[i] = right[j] THEN 0 ELSE 1)})]
<1>0. n \in Nat
  OBVIOUS
<1>1. ASSUME NEW j \in 1 .. n, NEW l \in Nat
      PROVE  E(j, l) \in Nat
  <2>1. j \in 0 .. Len(right) /\ j - 1 \in 0 .. Len(right)
    OBVIOUS
  <2>2. previous[j] \in Nat /\ previous[j - 1] \in Nat
    BY <2>1, Zenon DEF Row
  <2>3. /\ l + 1 \in Nat /\ previous[j] + 1 \in Nat
        /\ previous[j - 1] + (IF left[i] = right[j] THEN 0 ELSE 1) \in Nat
    BY <2>2
  <2>4. QED  BY <2>3, LeastOfThree, Zenon DEF Entry, WithinThree
<1>2. st \in [(1 .. n) \X Nat -> Nat]
  <2> HIDE DEF n, E
  <2>1. \A p \in (1 .. n) \X Nat : p[1] \in 1 .. n /\ p[2] \in Nat
    BY Zenon
  <2>2. QED  BY <1>1, <2>1, Zenon
<1>3. PICK f \in [0 .. n -> Nat] : Solution(f, n, i, st)
  <2> HIDE DEF n, st
  <2>1. QED  BY <1>0, <1>2, Recursion, Zenon
<1>4. ASSUME NEW j \in 0 .. n, j # 0
      PROVE  st[<<j, f[j - 1]>>] = E(j, f[j - 1])
  <2>1. j \in 1 .. n /\ j - 1 \in 0 .. n
    BY <1>0, <1>4
  <2>2. f[j - 1] \in Nat
    BY <1>3, <2>1, Zenon
  <2>3. <<j, f[j - 1]>> \in (1 .. n) \X Nat
    BY <2>1, <2>2, Zenon
  <2> HIDE DEF E
  <2>4. st[<<j, f[j - 1]>>] = E(<<j, f[j - 1]>>[1], <<j, f[j - 1]>>[2])
    BY <2>3, Zenon
  <2>5. QED  BY <2>4
<1>5. f = [j \in 0 .. n |-> IF j = 0 THEN i ELSE E(j, f[j - 1])]
  <2> HIDE DEF E, st
  <2>1. QED  BY <1>3, <1>4, Zenon DEF Solution
<1>6. P(f)
  BY <1>5, Zenon DEF Entry
<1>7. c = CHOOSE g : P(g)
  BY Zenon DEF next_row
<1>8. P(c)
  <2> HIDE DEF P, c
  <2>1. QED  BY <1>6, <1>7, Zenon
<1>9. c = [j \in 0 .. n |-> IF j = 0 THEN i ELSE E(j, c[j - 1])]
  <2> HIDE DEF c
  <2>1. QED  BY <1>8, Zenon DEF Entry
<1>10. f = c
  <2> HIDE DEF c, E
  <2>1. 0 \in 0 .. n /\ 1 .. n \subseteq 0 .. n /\ \A j \in 1 .. n : j # 0
    BY <1>0
  <2> HIDE DEF n
  <2>2. StepInAgreement(f, c, n)
    <3>1. \A j \in 0 .. n : f[j] = IF j = 0 THEN i ELSE E(j, f[j - 1])
      BY <1>5, Zenon
    <3>2. \A j \in 0 .. n : c[j] = IF j = 0 THEN i ELSE E(j, c[j - 1])
      BY <1>9, Zenon
    <3>3. QED  BY <2>1, <3>1, <3>2, Zenon DEF StepInAgreement
  <2>3. Agree(f, c, n)
    BY <1>0, <2>2, SameValues, Zenon
  <2>4. c = [j \in 0 .. n |-> c[j]] /\ f = [j \in 0 .. n |-> f[j]]
    BY <1>5, <1>9, Zenon
  <2>5. QED  BY <2>3, <2>4, Zenon DEF Agree
<1> HIDE DEF c
<1>11. c \in Row(right)
  BY <1>3, <1>10, Zenon DEF Row
<1>12. 0 \in 0 .. n /\ 1 .. n \subseteq 0 .. n /\ \A j \in 1 .. n : j # 0
  BY <1>0
<1>13. /\ c[0] = i
       /\ \A j \in 1 .. n : c[j] = E(j, c[j - 1])
  <2> HIDE DEF n, E
  <2>1. QED  BY <1>9, <1>12, Zenon
<1>14. QED  BY <1>11, <1>13, Zenon DEF c, IsNextRow

Rows(left, right) == [0 .. Len(left) -> Row(right)]

IsDistanceTable(left, right, T) ==
    /\ T \in Rows(left, right)
    /\ T[0] = [j \in 0 .. Len(right) |-> j]
    /\ \A i \in 1 .. Len(left) : T[i] = next_row(left, right, i, T[i - 1])

(* The outer loop: distance_rows satisfies its recursive definition.       *)
LEMMA DistanceRows ==
    ASSUME NEW left, NEW right, Len(left) \in Nat, Len(right) \in Nat
    PROVE  IsDistanceTable(left, right, distance_rows(left, right))
<1> DEFINE n == Len(left)
           T == distance_rows(left, right)
           z == [j \in 0 .. Len(right) |-> j]
           E(i, p) == next_row(left, right, i, p)
           st == [p \in (1 .. n) \X Row(right) |-> E(p[1], p[2])]
           P(f) == f = [i \in 0 .. Len(left) |->
                          IF i = 0 THEN [j \in 0 .. Len(right) |-> j]
                          ELSE next_row(left, right, i, f[i - 1])]
<1>0. n \in Nat /\ z \in Row(right)
  BY DEF Row
<1>1. ASSUME NEW i \in 1 .. n, NEW p \in Row(right)
      PROVE  E(i, p) \in Row(right)
  <2>1. i \in Nat
    OBVIOUS
  <2>2. QED  BY <2>1, NextRow, Zenon DEF IsNextRow
<1>2. st \in [(1 .. n) \X Row(right) -> Row(right)]
  <2> HIDE DEF n, E
  <2>1. \A p \in (1 .. n) \X Row(right) : p[1] \in 1 .. n /\ p[2] \in Row(right)
    BY Zenon
  <2>2. QED  BY <1>1, <2>1, Zenon
<1>3. PICK f \in [0 .. n -> Row(right)] : Solution(f, n, z, st)
  <2> HIDE DEF n, st, z
  <2>1. QED  BY <1>0, <1>2, Recursion, Zenon
<1>4. ASSUME NEW i \in 0 .. n, i # 0
      PROVE  st[<<i, f[i - 1]>>] = E(i, f[i - 1])
  <2>1. i \in 1 .. n /\ i - 1 \in 0 .. n
    BY <1>0, <1>4
  <2>2. f[i - 1] \in Row(right)
    BY <1>3, <2>1, Zenon
  <2>3. <<i, f[i - 1]>> \in (1 .. n) \X Row(right)
    BY <2>1, <2>2, Zenon
  <2> HIDE DEF E
  <2>4. st[<<i, f[i - 1]>>] = E(<<i, f[i - 1]>>[1], <<i, f[i - 1]>>[2])
    BY <2>3, Zenon
  <2>5. QED  BY <2>4
<1>5. f = [i \in 0 .. n |-> IF i = 0 THEN z ELSE E(i, f[i - 1])]
  <2> HIDE DEF E, st, z
  <2>1. QED  BY <1>3, <1>4, Zenon DEF Solution
<1>6. P(f)
  BY <1>5, Zenon
<1>7. T = CHOOSE g : P(g)
  BY Zenon DEF distance_rows
<1>8. P(T)
  <2> HIDE DEF P, T
  <2>1. QED  BY <1>6, <1>7, Zenon
<1>9. T = [i \in 0 .. n |-> IF i = 0 THEN z ELSE E(i, T[i - 1])]
  <2> HIDE DEF T
  <2>1. QED  BY <1>8, Zenon
<1>10. 0 \in 0 .. n /\ 1 .. n \subseteq 0 .. n /\ \A i \in 1 .. n : i # 0
  BY <1>0
<1>11. /\ T[0] = z
       /\ \A i \in 1 .. n : T[i] = E(i, T[i - 1])
  <2> HIDE DEF n, E, T, z
  <2>1. QED  BY <1>9, <1>10, Zenon
<1>12. f = T
  <2> HIDE DEF T, E, n, z
  <2>1. StepInAgreement(f, T, n)
    <3>1. \A i \in 0 .. n : f[i] = IF i = 0 THEN z ELSE E(i, f[i - 1])
      BY <1>5, Zenon
    <3>2. QED  BY <1>10, <1>11, <3>1, Zenon DEF StepInAgreement
  <2>2. Agree(f, T, n)
    BY <1>0, <2>1, SameValues, Zenon
  <2>3. T = [i \in 0 .. n |-> T[i]] /\ f = [i \in 0 .. n |-> f[i]]
    BY <1>5, <1>9, Zenon
  <2>4. QED  BY <2>2, <2>3, Zenon DEF Agree
<1> HIDE DEF T
<1>13. T \in Rows(left, right)
  BY <1>3, <1>12, Zenon DEF Rows
<1>14. QED  BY <1>11, <1>13, Zenon DEF T, IsDistanceTable

(* What an entry of the table is bounded by: its neighbours.               *)
TableBounds(a, b, T) ==
    /\ T \in Rows(a, b)
    /\ \A j \in 0 .. Len(b) : T[0][j] = j
    /\ \A i \in 0 .. Len(a) : T[i][0] = i
    /\ \A i \in 1 .. Len(a), j \in 1 .. Len(b) :
         /\ T[i][j] <= T[i][j - 1] + 1
         /\ T[i][j] <= T[i - 1][j] + 1
         /\ T[i][j] <= T[i - 1][j - 1] + (IF a[i] = b[j] THEN 0 ELSE 1)

LEMMA TableIsBounded ==
    ASSUME NEW a, NEW b, Len(a) \in Nat, Len(b) \in Nat
    PROVE  TableBounds(a, b, distance_rows(a, b))
<1> DEFINE T == distance_rows(a, b)
<1>1. /\ T \in Rows(a, b)
      /\ T[0] = [j \in 0 .. Len(b) |-> j]
      /\ \A i \in 1 .. Len(a) : T[i] = next_row(a, b, i, T[i - 1])
  <2>1. IsDistanceTable(a, b, distance_rows(a, b))
    BY DistanceRows, Zenon
  <2>2. QED  BY <2>1, Zenon DEF IsDistanceTable
<1> HIDE DEF T
<1>2. ASSUME NEW i \in 1 .. Len(a)
      PROVE  /\ T[i - 1] \in Row(b) /\ T[i] \in Row(b) /\ T[i][0] = i
             /\ \A j \in 1 .. Len(b) :
                  T[i][j] = Entry(a, b, i, T[i - 1], j, T[i][j - 1])
  <2>1. i \in Nat /\ i - 1 \in 0 .. Len(a)
    OBVIOUS
  <2>2. T[i - 1] \in Row(b) /\ T[i] = next_row(a, b, i, T[i - 1])
    BY <1>1, <2>1, Zenon DEF Rows
  <2>3. IsNextRow(a, b, i, T[i - 1], T[i])
    BY <2>1, <2>2, NextRow, Zenon
  <2>4. QED  BY <2>2, <2>3, Zenon DEF IsNextRow
<1>3. ASSUME NEW i \in 1 .. Len(a), NEW j \in 1 .. Len(b)
      PROVE  /\ T[i][j] <= T[i][j - 1] + 1
             /\ T[i][j] <= T[i - 1][j] + 1
             /\ T[i][j] <= T[i - 1][j - 1] + (IF a[i] = b[j] THEN 0 ELSE 1)
  <2>1. j \in 0 .. Len(b) /\ j - 1 \in 0 .. Len(b)
    OBVIOUS
  <2>2. T[i][j - 1] \in Nat /\ T[i - 1][j] \in Nat /\ T[i - 1][j - 1] \in Nat
    BY <1>2, <2>1, Zenon DEF Row
  <2> DEFINE d == IF a[i] = b[j] THEN 0 ELSE 1
             x == T[i][j - 1] + 1
             y == T[i - 1][j] + 1
             w == T[i - 1][j - 1] + d
  <2>3. d \in Nat
    OBVIOUS
  <2>4. x \in Nat /\ y \in Nat /\ w \in Nat
    <3>1. \A u, v \in Nat : u + v \in Nat
      OBVIOUS
    <3>2. 1 \in Nat
      OBVIOUS
    <3> HIDE DEF d
    <3>3. QED  BY <2>2, <2>3, <3>1, <3>2, Zenon
  <2>5. T[i][j] = Least({x, y, w})
    BY <1>2, Zenon DEF Entry
  <2>6. T[i][j] <= x /\ T[i][j] <= y /\ T[i][j] <= w
    <3> HIDE DEF x, y, w
    <3>1. WithinThree(Least({x, y, w}), x, y, w)
      BY <2>4, LeastOfThree, Zenon
    <3>2. QED  BY <2>5, <3>1, Zenon DEF WithinThree
  <2>7. QED  BY <2>6, Zenon
<1>4. \A j \in 0 .. Len(b) : T[0][j] = j
  BY <1>1, Zenon
<1>5. \A i \in 0 .. Len(a) : T[i][0] = i
  <2>1. \A i \in 0 .. Len(a) : i = 0 \/ i \in 1 .. Len(a)
    OBVIOUS
  <2>2. T[0][0] = 0
    <3>1. 0 \in 0 .. Len(b)
      OBVIOUS
    <3>2. QED  BY <1>4, <3>1, Zenon
  <2>3. QED  BY <1>2, <2>1, <2>2, Zenon
<1>6. QED
  BY <1>1, <1>3, <1>4, <1>5, Zenon DEF TableBounds, T

(* The entries of the table are numbers. *)
LEMMA TableEntries ==
    ASSUME NEW a, NEW b, NEW T, TableBounds(a, b, T),
           NEW i \in 0 .. Len(a), NEW j \in 0 .. Len(b)
    PROVE  T[i][j] \in Nat
<1>1. T[i] \in Row(b)
  BY Zenon DEF TableBounds, Rows
<1>2. QED  BY <1>1, Zenon DEF Row

(* Along equal letters the distance does not grow. *)
LEMMA Walk ==
    ASSUME NEW a, NEW b, NEW T, Len(a) \in Nat, Len(b) \in Nat, TableBounds(a, b, T),
           NEW i \in Nat, NEW j \in Nat, NEW n \in Nat, i + n <= Len(a), j + n <= Len(b),
           \A k \in 1 .. n : a[i + k] = b[j + k]
    PROVE  T[i + n][j + n] <= T[i][j]
<1> DEFINE B == {k \in 0 .. n : ~(T[i + k][j + k] <= T[i][j])}
<1> SUFFICES ASSUME n \in B PROVE FALSE
  OBVIOUS
<1>1. B \in SUBSET Nat
  OBVIOUS
<1>2. PICK m \in B : \A y \in B : m <= y
  <2> HIDE DEF B
  <2>1. QED  BY <1>1, LeastMember, Zenon
<1>3. m \in 0 .. n /\ ~(T[i + m][j + m] <= T[i][j])
  BY Zenon
<1> DEFINE p == i + m
           q == j + m
<1>4. ASSUME NEW u \in 0 .. Len(a), NEW v \in 0 .. Len(b)
      PROVE  T[u][v] \in Nat
  BY <1>4, TableEntries, Zenon
<1>5. m # 0
  <2>1. i \in 0 .. Len(a) /\ j \in 0 .. Len(b)
    OBVIOUS
  <2>2. T[i][j] \in Nat
    BY <1>4, <2>1, Zenon
  <2>3. T[i][j] <= T[i][j] /\ i + 0 = i /\ j + 0 = j
    BY <2>2
  <2>4. QED  BY <1>3, <2>3, Zenon
<1>6. /\ p \in 1 .. Len(a) /\ q \in 1 .. Len(b)
      /\ p - 1 \in 0 .. Len(a) /\ q - 1 \in 0 .. Len(b)
      /\ p - 1 = i + (m - 1) /\ q - 1 = j + (m - 1)
      /\ m \in 1 .. n /\ m - 1 \in 0 .. n /\ ~(m <= m - 1)
      /\ p \in 0 .. Len(a) /\ q \in 0 .. Len(b)
      /\ i \in 0 .. Len(a) /\ j \in 0 .. Len(b)
  BY <1>3, <1>5
<1>7. a[p] = b[q]
  BY <1>6, Zenon
<1> HIDE DEF p, q
<1>8. T[p - 1][q - 1] <= T[i][j]
  BY <1>2, <1>6, Zenon
<1>9. T[p][q] <= T[p - 1][q - 1] + 0
  BY <1>6, <1>7, Zenon DEF TableBounds
<1>10. T[p][q] \in Nat /\ T[p - 1][q - 1] \in Nat /\ T[i][j] \in Nat
  BY <1>4, <1>6, Zenon
<1>11. T[p][q] <= T[i][j]
  <2>1. \A x, y, z \in Nat : x <= y + 0 /\ y <= z => x <= z
    OBVIOUS
  <2>2. QED  BY <1>8, <1>9, <1>10, <2>1, Zenon
<1>12. QED  BY <1>3, <1>11, Zenon DEF p, q

SameStart(a, b, n) == \A k \in 1 .. n : a[k] = b[k]
SameEnd(a, b, i, j) == \A k \in 1 .. Len(a) - i : a[i + k] = b[j + k]

(* Equal beginnings cost nothing. *)
LEMMA FromTheStart ==
    ASSUME NEW a, NEW b, NEW T, Len(a) \in Nat, Len(b) \in Nat, TableBounds(a, b, T),
           NEW n \in Nat, n <= Len(a), n <= Len(b), SameStart(a, b, n)
    PROVE  T[n][n] = 0
<1>1. 0 \in Nat /\ 0 + n = n /\ (\A k \in 1 .. n : 0 + k = k)
  OBVIOUS
<1>2. T[0 + n][0 + n] <= T[0][0]
  <2>1. 0 + n <= Len(a) /\ 0 + n <= Len(b) /\ \A k \in 1 .. n : a[0 + k] = b[0 + k]
    BY <1>1, Zenon DEF SameStart
  <2>2. QED  BY <1>1, <2>1, Walk, Zenon
<1>3. 0 \in 0 .. Len(b) /\ n \in 0 .. Len(a) /\ n \in 0 .. Len(b)
  OBVIOUS
<1>4. T[0][0] = 0 /\ T[n][n] \in Nat
  BY <1>3, TableEntries, Zenon DEF TableBounds
<1>5. T[n][n] <= 0
  BY <1>1, <1>2, <1>4, Zenon
<1>6. QED  BY <1>4, <1>5

(* A walk to the end from an entry that is at most 1. *)
LEMMA ToTheEnd ==
    ASSUME NEW a, NEW b, NEW T, Len(a) \in Nat, Len(b) \in Nat, TableBounds(a, b, T),
           NEW i \in 0 .. Len(a), NEW j \in 0 .. Len(b), Len(a) - i = Len(b) - j,
           T[i][j] <= 1, SameEnd(a, b, i, j)
    PROVE  T[Len(a)][Len(b)] <= 1
<1> DEFINE n == Len(a) - i
<1>1. /\ n \in Nat /\ i \in Nat /\ j \in Nat
      /\ i + n = Len(a) /\ j + n = Len(b) /\ i + n <= Len(a) /\ j + n <= Len(b)
  OBVIOUS
<1>2. \A k \in 1 .. n : a[i + k] = b[j + k]
  BY Zenon DEF SameEnd
<1> HIDE DEF n
<1>3. T[i + n][j + n] <= T[i][j]
  BY <1>1, <1>2, Walk, Zenon
<1>4. Len(a) \in 0 .. Len(a) /\ Len(b) \in 0 .. Len(b)
  OBVIOUS
<1>5. T[i][j] \in Nat /\ T[Len(a)][Len(b)] \in Nat
  BY <1>4, TableEntries, Zenon
<1>6. T[Len(a)][Len(b)] <= T[i][j]
  BY <1>1, <1>3, Zenon
<1>7. \A x, y \in Nat : x <= y /\ y <= 1 => x <= 1
  OBVIOUS
<1>8. QED  BY <1>5, <1>6, <1>7, Zenon

(* One letter left out of a. *)
LEMMA OneLeftOut ==
    ASSUME NEW a \in Seq(Nat), NEW b \in Seq(Nat), NEW i \in 1 .. Len(a), Without(a, i) = b
    PROVE  /\ Len(a) \in Nat /\ Len(b) \in Nat /\ Len(a) = Len(b) + 1
           /\ SameStart(a, b, i - 1) /\ SameEnd(a, b, i, i - 1)
<1>1. Len(a) \in Nat /\ Len(b) \in Nat /\ DOMAIN b = 1 .. Len(b)
  OBVIOUS
<1>2. /\ DOMAIN b = 1 .. Len(a) - 1
      /\ \A k \in 1 .. Len(a) - 1 : b[k] = IF k < i THEN a[k] ELSE a[k + 1]
  BY Zenon DEF Without
<1>3. Len(a) = Len(b) + 1
  BY <1>1, <1>2
<1>4. \A k \in 1 .. i - 1 : k \in 1 .. Len(a) - 1 /\ k < i
  BY <1>1
<1>5. \A k \in 1 .. Len(a) - i : /\ (i - 1) + k \in 1 .. Len(a) - 1
                                 /\ ~((i - 1) + k < i) /\ ((i - 1) + k) + 1 = i + k
  BY <1>1
<1>6. \A k \in 1 .. i - 1 : a[k] = b[k]
  BY <1>2, <1>4, Zenon
<1>7. ASSUME NEW k \in 1 .. Len(a) - i
      PROVE  a[i + k] = b[(i - 1) + k]
  <2> DEFINE l == (i - 1) + k
  <2>1. l \in 1 .. Len(a) - 1 /\ ~(l < i) /\ l + 1 = i + k
    BY <1>5, Zenon
  <2> HIDE DEF l
  <2>2. b[l] = a[i + k]
    BY <1>2, <2>1, Zenon
  <2>3. QED  BY <2>2, Zenon DEF l
<1>8. QED  BY <1>1, <1>3, <1>6, <1>7, Zenon DEF SameStart, SameEnd

(* By the table, near-copies are at most one edit apart. *)
LEMMA OneEdit ==
    ASSUME NEW a \in Seq(Nat), NEW b \in Seq(Nat), NearCopy(a, b), a # b
    PROVE  edit_distance(a, b) <= 1
<1> DEFINE T == distance_rows(a, b)
<1>0. Len(a) \in Nat /\ Len(b) \in Nat
  OBVIOUS
<1>1. TableBounds(a, b, T)
  BY <1>0, TableIsBounded, Zenon
<1> HIDE DEF T
<1> SUFFICES T[Len(a)][Len(b)] <= 1
  BY Zenon DEF edit_distance, T
<1>2. CASE \E i \in 1 .. Len(a) : Without(a, i) = b
  <2> PICK i \in 1 .. Len(a) : Without(a, i) = b
    BY <1>2, Zenon
  <2>1. /\ Len(a) = Len(b) + 1
        /\ SameStart(a, b, i - 1) /\ SameEnd(a, b, i, i - 1)
    BY OneLeftOut, Zenon
  <2>2. /\ i - 1 \in Nat /\ i - 1 <= Len(a) /\ i - 1 <= Len(b)
        /\ i \in 0 .. Len(a) /\ i - 1 \in 0 .. Len(b) /\ Len(a) - i = Len(b) - (i - 1)
    BY <1>0, <2>1
  <2>3. T[i - 1][i - 1] = 0
    BY <1>0, <1>1, <2>1, <2>2, FromTheStart, Zenon
  <2>4. T[i][i - 1] <= 1
    <3>1. CASE i = 1
      <4>1. T[1][0] = 1
        BY <1>1, <2>2, <3>1, Zenon DEF TableBounds
      <4>2. QED  BY <3>1, <4>1
    <3>2. CASE i # 1
      <4>1. i - 1 \in 1 .. Len(b)
        BY <2>2, <3>2
      <4>2. T[i][i - 1] <= T[i - 1][i - 1] + 1
        BY <1>1, <4>1, Zenon DEF TableBounds
      <4>3. 0 + 1 = 1
        OBVIOUS
      <4>4. QED  BY <2>3, <4>2, <4>3, Zenon
    <3>3. QED  BY <3>1, <3>2, Zenon
  <2>5. QED  BY <1>0, <1>1, <2>1, <2>2, <2>4, ToTheEnd, Zenon
<1>3. CASE \E i \in 1 .. Len(b) : Without(b, i) = a
  <2> PICK i \in 1 .. Len(b) : Without(b, i) = a
    BY <1>3, Zenon
  <2>1. /\ Len(b) = Len(a) + 1
        /\ SameStart(b, a, i - 1) /\ SameEnd(b, a, i, i - 1)
    BY OneLeftOut, Zenon
  <2>2. /\ i - 1 \in Nat /\ i - 1 <= Len(a) /\ i - 1 <= Len(b)
        /\ i \in 0 .. Len(b) /\ i - 1 \in 0 .. Len(a) /\ Len(a) - (i - 1) = Len(b) - i
    BY <1>0, <2>1
  <2>3. T[i - 1][i - 1] = 0
    <3>1. SameStart(a, b, i - 1)
      BY <2>1, Zenon DEF SameStart
    <3>2. QED  BY <1>0, <1>1, <2>2, <3>1, FromTheStart, Zenon
  <2>4. T[i - 1][i] <= 1
    <3>1. CASE i = 1
      <4>1. T[0][1] = 1
        BY <1>1, <2>2, <3>1, Zenon DEF TableBounds
      <4>2. QED  BY <3>1, <4>1
    <3>2. CASE i # 1
      <4>1. i - 1 \in 1 .. Len(a)
        BY <2>2, <3>2
      <4>2. T[i - 1][i] <= T[i - 1][i - 1] + 1
        BY <1>1, <4>1, Zenon DEF TableBounds
      <4>3. 0 + 1 = 1
        OBVIOUS
      <4>4. QED  BY <2>3, <4>2, <4>3, Zenon
    <3>3. QED  BY <3>1, <3>2, Zenon
  <2>5. SameEnd(a, b, i - 1, i)
    BY <2>1, <2>2, Zenon DEF SameEnd
  <2>6. QED  BY <1>0, <1>1, <2>2, <2>4, <2>5, ToTheEnd, Zenon
<1>4. CASE Len(a) = Len(b) /\ \E i \in 1 .. Len(a) : Without(a, i) = Without(b, i)
  <2> PICK i \in 1 .. Len(a) : Without(a, i) = Without(b, i)
    BY <1>4, Zenon
  <2>1. \A k \in 1 .. Len(a) - 1 :
           (IF k < i THEN a[k] ELSE a[k + 1]) = IF k < i THEN b[k] ELSE b[k + 1]
    BY <1>4, Zenon DEF Without
  <2>2. SameStart(a, b, i - 1)
    <3>1. \A k \in 1 .. i - 1 : k \in 1 .. Len(a) - 1 /\ k < i
      BY <1>0
    <3>2. QED  BY <2>1, <3>1, Zenon DEF SameStart
  <2>3. ASSUME NEW k \in 1 .. Len(a) - i
        PROVE  a[i + k] = b[i + k]
    <3> DEFINE l == (i - 1) + k
    <3>1. l \in 1 .. Len(a) - 1 /\ ~(l < i) /\ l + 1 = i + k
      BY <1>0
    <3> HIDE DEF l
    <3>2. QED  BY <2>1, <3>1, Zenon
  <2>4. /\ i - 1 \in Nat /\ i - 1 <= Len(a) /\ i - 1 <= Len(b)
        /\ i \in 1 .. Len(b) /\ i \in 0 .. Len(a) /\ i \in 0 .. Len(b)
        /\ Len(a) - i = Len(b) - i
    BY <1>0, <1>4
  <2>5. T[i - 1][i - 1] = 0
    BY <1>0, <1>1, <2>2, <2>4, FromTheStart, Zenon
  <2>6. T[i][i] <= 1
    <3>1. T[i][i] <= T[i - 1][i - 1] + (IF a[i] = b[i] THEN 0 ELSE 1)
      BY <1>1, <2>4, Zenon DEF TableBounds
    <3>2. T[i][i] \in Nat
      BY <1>1, <2>4, TableEntries, Zenon
    <3>3. QED  BY <2>5, <3>1, <3>2
  <2>7. SameEnd(a, b, i, i)
    BY <2>3, Zenon DEF SameEnd
  <2>8. QED  BY <1>0, <1>1, <2>4, <2>6, <2>7, ToTheEnd, Zenon
<1>5. QED  BY <1>2, <1>3, <1>4, Zenon DEF NearCopy

(* What the service refuses: a name that differs from a taken one by a     *)
(* letter left out, added or changed is confusing for                      *)
(* nicknames_are_confusing, whatever the two names are.                    *)
THEOREM NearCopiesAreConfusing ==
    ASSUME NEW a \in Nickname, NEW b \in Nickname, NearCopy(a, b)
    PROVE  nicknames_are_confusing(a, b)
<1>1. a \in Seq(Nat) /\ b \in Seq(Nat)
  BY AccountsAssumption, Zenon
<1>2. CASE a = b
  BY <1>2, Zenon DEF nicknames_are_confusing
<1>3. CASE a # b
  <2>1. edit_distance(a, b) <= 1
    BY <1>1, <1>3, OneEdit, Zenon
  <2>2. QED  BY <2>1, Zenon DEF nicknames_are_confusing
<1>4. QED  BY <1>2, <1>3, Zenon

-----------------------------------------------------------------------------
(* The state machine. *)

Registered == {d \in Device : user_id[d] # None}

AccountsInv == TypeOK /\ IsFiniteSet(Registered) /\ NicknamesApart

LEMMA AccountsInitially == Init => AccountsInv
<1> SUFFICES ASSUME Init PROVE AccountsInv
  BY Zenon
<1>1. TypeOK
  BY AccountsAssumption DEF Init, TypeOK, Time
<1>2. Registered = {}
  BY Zenon DEF Init, Registered
<1>3. IsFiniteSet(Registered)
  BY <1>2, FS_EmptySet, Zenon
<1>4. NicknamesApart
  BY Zenon DEF Init, NicknamesApart
<1>5. QED  BY <1>1, <1>3, <1>4, Zenon DEF AccountsInv

(* A link code and a snapshot, by their fields. *)
LEMMA Fields ==
    ASSUME NEW r \in Auth
    PROVE  r.device \in Device /\ r.user \in User /\ r # None /\ r.user # None
BY AccountsAssumption, Zenon DEF Auth

LEMMA AccountsTyped ==
    ASSUME TypeOK, [Next]_vars
    PROVE  TypeOK'
<1>0. /\ now \in Time /\ user_id \in [Device -> User \cup {None}] /\ revoked \subseteq Device
      /\ code \in [Device -> Code \cup {None}]
      /\ nickname \in [Nickname -> Auth \cup {None}] /\ auths \subseteq Auth
  BY Zenon DEF TypeOK
<1>1. ASSUME NEW r \in Auth, register_device(r)
      PROVE  TypeOK'
  <2>1. r.device \in Device /\ r.user \in User
    BY Fields, Zenon
  <2>2. user_id' \in [Device -> User \cup {None}]
    BY <1>0, <1>1, <2>1 DEF register_device
  <2>3. QED  BY <1>0, <1>1, <2>2, Zenon DEF register_device, TypeOK
<1>2. ASSUME NEW r \in auths, NEW t \in 0 .. now, create_link_code(r, t)
      PROVE  TypeOK'
  <2>1. r.user \in User
    BY <1>0, Fields, Zenon
  <2>2. t \in Time
    BY <1>0, AccountsAssumption DEF Time
  <2>3. [user |-> r.user, created |-> t, consumed |-> FALSE] \in Code
    BY <2>1, <2>2, Zenon DEF Code
  <2>4. code' \in [Device -> Code \cup {None}]
    BY <1>0, <1>2, <2>3, Zenon DEF create_link_code
  <2>5. QED  BY <1>0, <1>2, <2>4, Zenon DEF create_link_code, TypeOK
<1>3. ASSUME NEW r \in auths, NEW t \in 0 .. now, NEW o \in Device, link_device(r, o, t)
      PROVE  TypeOK'
  <2>1. r \in Auth /\ r.device \in Device
    BY <1>0, Fields, Zenon
  <2>2. code[o] \in Code
    BY <1>0, <1>3, Zenon DEF link_device
  <2>3. code[o].user \in User
    BY <2>2, Zenon DEF Code
  <2>4. user_id' \in [Device -> User \cup {None}]
    BY <1>0, <1>3, <2>1, <2>3 DEF link_device
  <2>5. [code[o] EXCEPT !.consumed = TRUE] \in Code
    BY <2>2, Zenon DEF Code
  <2>6. code' \in [Device -> Code \cup {None}]
    <3>1. code' = [code EXCEPT ![o] = [code[o] EXCEPT !.consumed = TRUE]]
      BY <1>3, Zenon DEF link_device, Consume
    <3>2. QED  BY <1>0, <2>5, <3>1, Zenon
  <2>7. nickname' \in [Nickname -> Auth \cup {None}]
    BY <1>0, <1>3, Zenon DEF link_device, Forget
  <2>8. [r EXCEPT !.user = code[o].user] \in Auth
    BY <2>1, <2>3 DEF Auth
  <2>9. auths' \subseteq Auth
    BY <1>0, <1>3, <2>8, Zenon DEF link_device
  <2>10. QED  BY <1>0, <1>3, <2>4, <2>6, <2>7, <2>9, Zenon DEF link_device, TypeOK
<1>4. ASSUME NEW r \in auths, NEW d \in Device, revoke_device(r, d)
      PROVE  TypeOK'
  BY <1>0, <1>4, Zenon DEF revoke_device, TypeOK
<1>5. ASSUME NEW r \in auths, NEW n \in Nickname, claim_nickname(r, n)
      PROVE  TypeOK'
  <2>1. r \in Auth
    BY <1>0, Zenon
  <2>2. Forget(r.user) \in [Nickname -> Auth \cup {None}]
    BY <1>0, Zenon DEF Forget
  <2>3. nickname' \in [Nickname -> Auth \cup {None}]
    <3>1. nickname' = [Forget(r.user) EXCEPT ![n] = r]
      BY <1>5, Zenon DEF claim_nickname
    <3>2. QED  BY <2>1, <2>2, <3>1, Zenon
  <2>4. QED  BY <1>0, <1>5, <2>3, Zenon DEF claim_nickname, TypeOK
<1>6. CASE Tick
  <2>1. now' \in Time
    BY <1>0, <1>6, AccountsAssumption DEF Tick, Time
  <2>2. QED  BY <1>0, <1>6, <2>1, Zenon DEF Tick, TypeOK
<1>7. CASE UNCHANGED vars
  BY <1>0, <1>7, Zenon DEF vars, TypeOK
<1>8. QED
  BY <1>1, <1>2, <1>3, <1>4, <1>5, <1>6, <1>7, Zenon DEF Next

(* At most one device gets a row in a step. *)
LEMMA RegisteredStaysFinite ==
    ASSUME TypeOK, IsFiniteSet(Registered), [Next]_vars
    PROVE  IsFiniteSet(Registered)'
<1>0. user_id \in [Device -> User \cup {None}]
  BY Zenon DEF TypeOK
<1>1. \E d : Registered' \subseteq Registered \cup {d}
  <2>1. ASSUME NEW r \in Auth, register_device(r)
        PROVE  Registered' \subseteq Registered \cup {r.device}
    BY <1>0, <2>1, Zenon DEF register_device, Registered
  <2>2. ASSUME NEW r \in auths, NEW t \in 0 .. now, NEW o \in Device, link_device(r, o, t)
        PROVE  Registered' \subseteq Registered \cup {r.device}
    BY <1>0, <2>2, Zenon DEF link_device, Registered
  <2>3. CASE UNCHANGED user_id
    BY <2>3, Zenon DEF Registered
  <2>4. QED
    BY <2>1, <2>2, <2>3, Zenon DEF Next, vars, create_link_code, revoke_device, claim_nickname,
                                   Tick
<1>2. PICK d : Registered' \in SUBSET (Registered \cup {d})
  BY <1>1, Zenon
<1>3. IsFiniteSet(Registered \cup {d})
  BY FS_AddElement, Zenon
<1>4. QED  BY <1>2, <1>3, FS_Subset, Zenon

(* The active devices of an account can be counted. *)
LEMMA ActiveIsFinite ==
    ASSUME AccountsInv, NEW u \in User
    PROVE  IsFiniteSet(Active(u))
<1>1. Active(u) \in SUBSET Registered
  BY AccountsAssumption, Zenon DEF Active, Registered
<1>2. QED  BY <1>1, FS_Subset, Zenon DEF AccountsInv

(* A device that links elsewhere was the single one of its account.        *)
LEMMA LinkLeavesAlone ==
    ASSUME AccountsInv, NEW r \in auths, NEW o \in Device, NEW t, link_device(r, o, t)
    PROVE  /\ r.user \in User /\ r.device \in Device
           /\ user_id[r.device] = r.user
           /\ Active(r.user) = {r.device}
           /\ code[o].user # r.user
<1>1. r \in Auth
  BY Zenon DEF AccountsInv, TypeOK
<1>2. r.user \in User /\ r.device \in Device
  BY <1>1, Fields, Zenon
<1>3. r.device \in Active(r.user) /\ Cardinality(Active(r.user)) = 1 /\ code[o].user # r.user
  BY Zenon DEF link_device, may_adopt_account
<1>4. \E x : Active(r.user) = {x}
  BY <1>2, <1>3, ActiveIsFinite, FS_Singleton, Zenon
<1>5. user_id[r.device] = r.user
  BY <1>3, Zenon DEF Active
<1>6. QED  BY <1>2, <1>3, <1>4, <1>5, Zenon

(* A revocation leaves its account another active device.                  *)
LEMMA RevocationLeavesOne ==
    ASSUME AccountsInv, NEW r \in auths, NEW d \in Device, revoke_device(r, d)
    PROVE  \E e \in Active(r.user) : e # d
<1>1. r.user \in User
  BY Fields, Zenon DEF AccountsInv, TypeOK
<1>2. d \in Active(r.user) /\ Cardinality(Active(r.user)) > 1
  BY Zenon DEF revoke_device, may_revoke_device, Active
<1>3. SUFFICES ASSUME \A e \in Active(r.user) : e = d PROVE FALSE
  BY Zenon
<1>4. Active(r.user) = {d}
  BY <1>2, <1>3, Zenon
<1>5. Cardinality(Active(r.user)) = 1
  BY <1>4, FS_Singleton, Zenon
<1>6. QED  BY <1>2, <1>5

(* Which devices are active changes only for the account that a device     *)
(* joins, leaves or loses.                                                 *)
LEMMA ActiveAfter ==
    ASSUME AccountsInv, [Next]_vars, NEW u \in User, Active(u) # {}
    PROVE  \/ Active(u)' # {}
           \/ \E r \in auths, o \in Device, t \in 0 .. now :
                 link_device(r, o, t) /\ r.user = u
<1>0. user_id \in [Device -> User \cup {None}] /\ u # None /\ auths \subseteq Auth
  BY AccountsAssumption, Zenon DEF AccountsInv, TypeOK
<1>1. PICK d \in Device : user_id[d] = u /\ d \notin revoked
  BY Zenon DEF Active
<1>2. ASSUME NEW r \in Auth, register_device(r)
      PROVE  Active(u)' # {}
  <2>1. user_id'[d] = u /\ d \notin revoked'
    BY <1>0, <1>1, <1>2, Zenon DEF register_device
  <2>2. QED  BY <2>1, Zenon DEF Active
<1>3. ASSUME NEW r \in auths, NEW t \in 0 .. now, NEW o \in Device, link_device(r, o, t),
             r.user # u
      PROVE  Active(u)' # {}
  <2>1. user_id[r.device] = r.user
    BY <1>3, LinkLeavesAlone, Zenon
  <2>2. user_id'[d] = u /\ d \notin revoked'
    BY <1>0, <1>1, <1>3, <2>1, Zenon DEF link_device
  <2>3. QED  BY <2>2, Zenon DEF Active
<1>4. ASSUME NEW r \in auths, NEW e \in Device, revoke_device(r, e)
      PROVE  Active(u)' # {}
  <2>1. CASE r.user = u
    <3>1. PICK x \in Active(u) : x # e
      BY <1>4, <2>1, RevocationLeavesOne, Zenon
    <3>2. x \in Active(u)'
      BY <1>4, <3>1, Zenon DEF revoke_device, Active
    <3>3. QED  BY <3>2, Zenon
  <2>2. CASE r.user # u
    <3>1. d # e
      BY <1>1, <1>4, <2>2, Zenon DEF revoke_device, may_revoke_device
    <3>2. d \in Active(u)'
      BY <1>1, <1>4, <3>1, Zenon DEF revoke_device, Active
    <3>3. QED  BY <3>2, Zenon
  <2>3. QED  BY <2>1, <2>2, Zenon
<1>5. CASE UNCHANGED <<user_id, revoked>>
  BY <1>5, Zenon DEF Active
<1>6. QED
  BY <1>2, <1>3, <1>4, <1>5, Zenon
     DEF Next, vars, create_link_code, claim_nickname, Tick

(* Two names look alike in either order. *)
LEMMA NearCopyIsSymmetric ==
    ASSUME NEW a \in Nickname, NEW b \in Nickname, NearCopy(a, b)
    PROVE  NearCopy(b, a)
BY Zenon DEF NearCopy

(* A claim takes no name of another account, and no near-copy of one.      *)
LEMMA ClaimIsApart ==
    ASSUME AccountsInv, NEW r \in auths, NEW n \in Nickname, claim_nickname(r, n),
           NEW m \in Nickname, nickname[m] # None, nickname[m].user # r.user
    PROVE  m # n /\ ~NearCopy(n, m)
<1>1. <<n, m>> \notin Confusable
  BY Zenon DEF claim_nickname
<1>2. ~nicknames_are_confusing(n, m)
  <2>1. <<n, m>> \in Nickname \X Nickname /\ <<n, m>>[1] = n /\ <<n, m>>[2] = m
    OBVIOUS
  <2>2. QED  BY <1>1, <2>1, Zenon DEF Confusable
<1>3. n # m
  BY <1>2, Zenon DEF nicknames_are_confusing
<1>4. QED  BY <1>2, <1>3, NearCopiesAreConfusing, Zenon

(* The names after a claim. *)
LEMMA NamesAfterClaim ==
    ASSUME AccountsInv, NEW r \in auths, NEW n \in Nickname, claim_nickname(r, n)
    PROVE  /\ nickname'[n] = r
           /\ \A m \in Nickname : m # n /\ nickname'[m] # None =>
                 nickname'[m] = nickname[m] /\ nickname[m].user # r.user
           /\ \A m \in Nickname : nickname[m] # None /\ nickname[m].user # r.user =>
                 nickname'[m] = nickname[m]
<1>1. nickname' = [Forget(r.user) EXCEPT ![n] = r] /\ DOMAIN Forget(r.user) = Nickname
  BY Zenon DEF claim_nickname, Forget
<1>2. nickname'[n] = r /\ \A m \in Nickname : m # n => nickname'[m] = Forget(r.user)[m]
  BY <1>1, Zenon
<1>3. \A m \in Nickname : nickname[m] # None /\ nickname[m].user # r.user => m # n
  BY ClaimIsApart, Zenon
<1>4. QED  BY <1>2, <1>3, Zenon DEF Forget

LEMMA NamesStayApart ==
    ASSUME AccountsInv, [Next]_vars
    PROVE  NicknamesApart'
<1>0. NicknamesApart /\ auths \subseteq Auth
  BY Zenon DEF AccountsInv, TypeOK
<1>1. ASSUME NEW r \in auths, NEW t \in 0 .. now, NEW o \in Device, link_device(r, o, t)
      PROVE  NicknamesApart'
  <2>1. \A m \in Nickname : nickname'[m] # None => nickname'[m] = nickname[m]
    BY <1>1, Zenon DEF link_device, Forget
  <2>2. QED  BY <1>0, <2>1, Zenon DEF NicknamesApart
<1>2. ASSUME NEW r \in auths, NEW n \in Nickname, claim_nickname(r, n)
      PROVE  NicknamesApart'
  <2> SUFFICES ASSUME NEW k \in Nickname, NEW m \in Nickname,
                      k # m, nickname'[k] # None, nickname'[m] # None
               PROVE  nickname'[k].user # nickname'[m].user /\ ~NearCopy(k, m)
    BY Zenon DEF NicknamesApart
  <2>1. /\ nickname'[n] = r
        /\ \A l \in Nickname : l # n /\ nickname'[l] # None =>
              nickname'[l] = nickname[l] /\ nickname[l].user # r.user
    BY <1>2, NamesAfterClaim, ZenonT(30)
  <2>2. ASSUME NEW l \in Nickname, l # n, nickname'[l] # None
        PROVE  nickname'[l].user # r.user /\ ~NearCopy(n, l) /\ ~NearCopy(l, n)
    BY <1>2, <2>1, <2>2, ClaimIsApart, NearCopyIsSymmetric, Zenon
  <2>3. CASE k = n
    <3>1. nickname'[k] = r /\ m # n
      BY <2>1, <2>3, Zenon
    <3>2. nickname'[m].user # r.user /\ ~NearCopy(n, m) /\ ~NearCopy(m, n)
      BY <2>2, <3>1, Zenon
    <3>3. ~NearCopy(k, m) /\ ~NearCopy(m, k)
      BY <2>3, <3>2
    <3>4. QED  BY <3>1, <3>2, <3>3, Zenon
  <2>4. CASE m = n
    <3>1. nickname'[m] = r /\ k # n
      BY <2>1, <2>4, Zenon
    <3>2. nickname'[k].user # r.user /\ ~NearCopy(n, k) /\ ~NearCopy(k, n)
      BY <2>2, <3>1, Zenon
    <3>3. ~NearCopy(m, k) /\ ~NearCopy(k, m)
      BY <2>4, <3>2
    <3>4. QED  BY <3>1, <3>2, <3>3, Zenon
  <2>5. CASE k # n /\ m # n
    <3>1. nickname'[k] = nickname[k] /\ nickname'[m] = nickname[m]
      BY <2>1, <2>5, Zenon
    <3>2. QED  BY <1>0, <3>1, Zenon DEF NicknamesApart
  <2>6. QED  BY <2>3, <2>4, <2>5, Zenon
<1>3. CASE UNCHANGED nickname
  BY <1>0, <1>3, Zenon DEF NicknamesApart
<1>4. QED
  BY <1>1, <1>2, <1>3, Zenon
     DEF Next, vars, register_device, create_link_code, revoke_device, Tick

(* AccountsInv is inductive. *)
THEOREM AccountsInvariant == Spec => []AccountsInv
<1>1. AccountsInv /\ [Next]_vars => AccountsInv'
  <2> SUFFICES ASSUME AccountsInv, [Next]_vars PROVE AccountsInv'
    BY Zenon
  <2>2. TypeOK /\ IsFiniteSet(Registered)
    BY Zenon DEF AccountsInv
  <2>3. TypeOK' /\ IsFiniteSet(Registered)' /\ NicknamesApart'
    BY <2>2, AccountsTyped, RegisteredStaysFinite, NamesStayApart, Zenon
  <2>4. QED  BY <2>3, Zenon DEF AccountsInv
<1>2. QED  BY <1>1, AccountsInitially, PTL DEF Spec

(* Names of different accounts are never near-copies of each other and an  *)
(* account has one name, for every set of names and in every order of      *)
(* claims (claim_nickname, link_device, edit_distance).                    *)
THEOREM NamesAreApart == Spec => []NicknamesApart
<1>1. AccountsInv => NicknamesApart
  BY Zenon DEF AccountsInv
<1>2. QED  BY <1>1, AccountsInvariant, PTL

(* Whatever devices revoke and link concurrently, an account loses its     *)
(* last active device only when that device links to another account.      *)
THEOREM LastDevicesStay == Spec => LastDeviceStays
<1> DEFINE A == \A u \in User : Active(u) # {} /\ Active(u)' = {} =>
                   \E d \in Device : Active(u) = {d} /\ user_id'[d] # u
<1>1. ASSUME AccountsInv, [Next]_vars PROVE A
  <2> SUFFICES ASSUME NEW u \in User, Active(u) # {}, Active(u)' = {}
               PROVE  \E d \in Device : Active(u) = {d} /\ user_id'[d] # u
    BY Zenon
  <2>1. PICK r \in auths, o \in Device, t \in 0 .. now : link_device(r, o, t) /\ r.user = u
    BY <1>1, ActiveAfter, Zenon
  <2>2. r.device \in Device /\ Active(u) = {r.device} /\ code[o].user # u
    BY <1>1, <2>1, LinkLeavesAlone, Zenon
  <2>3. user_id'[r.device] = code[o].user
    BY <1>1, <2>1, <2>2, Zenon DEF link_device, AccountsInv, TypeOK
  <2>4. QED  BY <2>2, <2>3, Zenon
<1>2. AccountsInv /\ [Next]_vars => [A]_vars
  BY <1>1, Zenon
<1>3. QED  BY <1>2, AccountsInvariant, PTL DEF Spec, LastDeviceStays

(* A device changes its account only by a code of the new account that the *)
(* same step uses up, alone (link_device, register_device).                *)
THEOREM CodesMoveOneDevice == Spec => CodeMovesOneDevice
<1> DEFINE A == \A d \in Device : user_id[d] # None /\ user_id'[d] # user_id[d] =>
                   /\ \A e \in Device \ {d} : user_id'[e] = user_id[e]
                   /\ \E o \in Device : /\ code[o] # None /\ ~code[o].consumed
                                        /\ code'[o] = [code[o] EXCEPT !.consumed = TRUE]
                                        /\ user_id'[d] = code[o].user
<1>1. ASSUME AccountsInv, [Next]_vars PROVE A
  <2>0. user_id \in [Device -> User \cup {None}] /\ code \in [Device -> Code \cup {None}]
    BY <1>1, Zenon DEF AccountsInv, TypeOK
  <2> SUFFICES ASSUME NEW d \in Device, user_id[d] # None, user_id'[d] # user_id[d]
               PROVE  /\ \A e \in Device \ {d} : user_id'[e] = user_id[e]
                      /\ \E o \in Device : /\ code[o] # None /\ ~code[o].consumed
                                           /\ code'[o] = [code[o] EXCEPT !.consumed = TRUE]
                                           /\ user_id'[d] = code[o].user
    BY Zenon
  <2>1. ASSUME NEW r \in Auth, register_device(r)
        PROVE  FALSE
    <3>1. r.device # d
      BY <2>1, Zenon DEF register_device
    <3>2. user_id'[d] = user_id[d]
      BY <2>0, <2>1, <3>1, Zenon DEF register_device
    <3>3. QED  BY <3>2, Zenon
  <2>2. PICK r \in auths, t \in 0 .. now, o \in Device : link_device(r, o, t)
    <3>1. CASE UNCHANGED user_id
      BY <3>1, Zenon
    <3>2. QED
      BY <1>1, <2>1, <3>1, Zenon
         DEF Next, vars, create_link_code, revoke_device, claim_nickname, Tick
  <2>3. user_id' = [user_id EXCEPT ![r.device] = code[o].user]
    BY <2>2, Zenon DEF link_device
  <2>4. d = r.device
    BY <2>0, <2>3, Zenon
  <2>5. user_id'[d] = code[o].user /\ \A e \in Device \ {d} : user_id'[e] = user_id[e]
    BY <2>0, <2>3, <2>4, Zenon
  <2>6. code[o] # None /\ ~code[o].consumed
    BY <2>2, Zenon DEF link_device, may_adopt_account
  <2>7. code' = [code EXCEPT ![o] = [code[o] EXCEPT !.consumed = TRUE]]
    BY <2>2, Zenon DEF link_device, Consume
  <2>8. code'[o] = [code[o] EXCEPT !.consumed = TRUE]
    BY <2>0, <2>7, Zenon
  <2>9. QED  BY <2>5, <2>6, <2>8, Zenon
<1>2. AccountsInv /\ [Next]_vars => [A]_vars
  BY <1>1, Zenon
<1>3. QED  BY <1>2, AccountsInvariant, PTL DEF Spec, CodeMovesOneDevice

(* A name that answers lookups goes exactly when its account loses its     *)
(* last active device (link_device, revoke_device, claim_nickname).        *)
THEOREM NamesFollow == Spec => NamesFollowAccounts
<1> DEFINE A == \A n \in Nickname : search_nicknames(n) # None =>
          IF {d \in Device : user_id'[d] = search_nicknames(n) /\ d \notin revoked'} = {}
          THEN nickname'[n] = None
          ELSE \E m \in Nickname : nickname'[m] # None
                                  /\ nickname'[m].user = search_nicknames(n)
<1>1. ASSUME AccountsInv, [Next]_vars PROVE A
  <2> SUFFICES ASSUME NEW n \in Nickname, search_nicknames(n) # None
               PROVE  IF {d \in Device : /\ user_id'[d] = search_nicknames(n)
                                         /\ d \notin revoked'} = {}
                      THEN nickname'[n] = None
                      ELSE \E m \in Nickname : nickname'[m] # None
                                  /\ nickname'[m].user = search_nicknames(n)
    BY Zenon
  <2>1. /\ search_nicknames(n) = nickname[n].user /\ nickname[n] # None
        /\ Active(nickname[n].user) # {}
    BY Zenon DEF search_nicknames
  <2>2. nickname[n] \in Auth /\ auths \subseteq Auth
    BY <1>1, <2>1, Zenon DEF AccountsInv, TypeOK
  <2>3. PICK u \in User : u = nickname[n].user
    BY <2>2, Fields, Zenon
  <2> SUFFICES IF Active(u)' = {} THEN nickname'[n] = None
               ELSE \E m \in Nickname : nickname'[m] # None /\ nickname'[m].user = u
    BY <2>1, <2>3, Zenon DEF Active
  <2>4. CASE \E r \in auths, o \in Device, t \in 0 .. now :
               link_device(r, o, t) /\ r.user = u
    <3>1. PICK r \in auths, o \in Device, t \in 0 .. now :
               link_device(r, o, t) /\ r.user = u
      BY <2>4, Zenon
    <3>2. nickname'[n] = None
      BY <2>1, <2>3, <3>1, Zenon DEF link_device, Forget
    <3>3. Active(u) = {r.device} /\ r.device \in Device /\ code[o].user # u
      BY <1>1, <3>1, LinkLeavesAlone, Zenon
    <3>4. user_id' = [user_id EXCEPT ![r.device] = code[o].user] /\ revoked' = revoked
      BY <3>1, Zenon DEF link_device
    <3>5. user_id \in [Device -> User \cup {None}]
      BY <1>1, Zenon DEF AccountsInv, TypeOK
    <3>6. ASSUME NEW d \in Device, user_id'[d] = u, d \notin revoked'
          PROVE  FALSE
      <4>1. d # r.device
        BY <3>3, <3>4, <3>5, <3>6, Zenon
      <4>2. user_id[d] = u /\ d \notin revoked
        BY <3>4, <3>5, <3>6, <4>1, Zenon
      <4>3. d \in Active(u)
        BY <4>2, Zenon DEF Active
      <4>4. QED  BY <3>3, <4>1, <4>3, Zenon
    <3>7. Active(u)' = {}
      BY <3>6, Zenon DEF Active
    <3>8. QED  BY <3>2, <3>7, Zenon
  <2>5. CASE ~\E r \in auths, o \in Device, t \in 0 .. now :
               link_device(r, o, t) /\ r.user = u
    <3>1. Active(u)' # {}
      BY <1>1, <2>1, <2>3, <2>5, ActiveAfter, Zenon
    <3>2. ASSUME NEW r \in auths, NEW t \in 0 .. now, NEW o \in Device, link_device(r, o, t)
          PROVE  nickname'[n] = nickname[n]
      BY <2>3, <2>5, <3>2, Zenon DEF link_device, Forget
    <3>3. ASSUME NEW r \in auths, NEW m \in Nickname, claim_nickname(r, m)
          PROVE  \E k \in Nickname : nickname'[k] # None /\ nickname'[k].user = u
      <4>1. CASE r.user = u
        <5>1. nickname'[m] = r /\ r # None
          BY <1>1, <2>2, <3>3, NamesAfterClaim, Fields, Zenon
        <5>2. QED  BY <4>1, <5>1, Zenon
      <4>2. CASE r.user # u
        <5>1. nickname'[n] = nickname[n]
          BY <1>1, <2>1, <2>3, <3>3, <4>2, NamesAfterClaim, Zenon
        <5>2. QED  BY <2>1, <2>3, <5>1, Zenon
      <4>3. QED  BY <4>1, <4>2, Zenon
    <3>4. \/ nickname'[n] = nickname[n]
          \/ \E k \in Nickname : nickname'[k] # None /\ nickname'[k].user = u
      BY <1>1, <3>2, <3>3, Zenon
         DEF Next, vars, register_device, create_link_code, revoke_device, Tick
    <3>5. QED  BY <2>1, <2>3, <3>1, <3>4, Zenon
  <2>6. QED  BY <2>4, <2>5, Zenon
<1>2. AccountsInv /\ [Next]_vars => [A]_vars
  BY <1>1, Zenon
<1>3. QED  BY <1>2, AccountsInvariant, PTL DEF Spec, NamesFollowAccounts
=============================================================================
