------------------------- MODULE MachineActor_proofs -------------------------
(***************************************************************************)
(* For all machines, children and bounds: the effects of a macrostep and   *)
(* the actor that executes them.  What is proved of one effect holds of a  *)
(* list of them, since a list of which it does not has a least place where *)
(* it fails; what is proved of one microstep holds of a macrostep for the  *)
(* same reason.  That the children of the active state are registered is   *)
(* first a fact about lists: After, of the lists that microsteps put       *)
(* together, and then about the actor that executes them.                  *)
(***************************************************************************)
EXTENDS MachineActor, SequenceTheorems, FiniteSetTheorems, WellFoundedInduction, TLAPS

-----------------------------------------------------------------------------
(* Recursions *)

\* A set of natural numbers has a least element.
LEMMA Least ==
    ASSUME NEW T \in SUBSET Nat, T # {}
    PROVE  \E x \in T : \A y \in T : x <= y
<1>1. \E x \in T : \A y \in T : <<y, x>> \notin OpToRel(<, Nat)
  BY NatLessThanWellFounded, WFMin
<1>2. PICK x \in T : \A y \in T : <<y, x>> \notin OpToRel(<, Nat)
  BY <1>1
<1>3. ASSUME NEW y \in T PROVE x <= y
  <2>1. x \in Nat /\ y \in Nat
    OBVIOUS
  <2>2. <<y, x>> \notin OpToRel(<, Nat)
    BY <1>2
  <2>3. ~(y < x)
    BY <2>1, <2>2 DEF OpToRel
  <2> QED
    BY <2>1, <2>3
<1> QED
  BY <1>3

\* Min of numbers is one of them.
LEMMA MinIsOne ==
    ASSUME NEW T \in SUBSET Nat, T # {}
    PROVE  Min(T) \in T
BY Least DEF Min

\* f goes through the effects of a list, one after the other.
Executes(f, sh, list) ==
    /\ f[0] = sh
    /\ \A n \in 1 .. Len(list) : f[n] = ExecuteEffect(f[n - 1], list[n])
    /\ ExecuteEffects(sh, list) = f[Len(list)]

\* Such a function exists.
LEMMA Executing ==
    ASSUME NEW sh, NEW list, Len(list) \in Nat
    PROVE  \E f : Executes(f, sh, list)
<1> DEFINE Body(f, n) == IF n = 0 THEN sh ELSE ExecuteEffect(f[n - 1], list[n])
           Bad == {N \in Nat : ~\E f : f = [n \in 0 .. N |-> Body(f, n)]}
           after == CHOOSE f : f = [n \in 0 .. Len(list) |-> Body(f, n)]
<1>1. Bad = {}
  <2> SUFFICES ASSUME Bad # {} PROVE FALSE
    OBVIOUS
  <2>1. PICK N \in Bad : \A M \in Bad : N <= M
    <3>1. Bad \in SUBSET Nat
      OBVIOUS
    <3> HIDE DEF Bad
    <3> QED
      BY <3>1, Least
  <2>2. CASE N = 0
    <3> DEFINE f == [n \in 0 .. 0 |-> sh]
    <3>1. f = [n \in 0 .. N |-> Body(f, n)]
      BY <2>2
    <3> QED
      BY <3>1
  <2>3. CASE N # 0
    <3>1. N \in Nat /\ N - 1 \in Nat /\ ~(N <= N - 1)
      BY <2>3
    <3>2. PICK g : g = [n \in 0 .. N - 1 |-> Body(g, n)]
      BY <2>1, <3>1
    <3> DEFINE f == [n \in 0 .. N |-> IF n = N THEN ExecuteEffect(g[n - 1], list[n]) ELSE g[n]]
    <3>3. ASSUME NEW n \in 0 .. N PROVE f[n] = Body(f, n)
      <4>1. CASE n = 0
        <5>1. n \in 0 .. N - 1 /\ n # N
          BY <3>1, <4>1, <2>3
        <5>2. g[n] = Body(g, n)
          BY <3>2, <5>1
        <5> QED
          BY <4>1, <5>1, <5>2
      <4>2. CASE n # 0
        <5>1. n - 1 \in 0 .. N /\ n - 1 # N /\ f[n - 1] = g[n - 1]
          BY <3>1, <4>2
        <5>2. CASE n = N
          BY <4>2, <5>1, <5>2
        <5>3. CASE n # N
          <6>1. n \in 0 .. N - 1
            BY <3>1, <5>3
          <6>2. g[n] = Body(g, n)
            BY <3>2, <6>1
          <6> QED
            BY <4>2, <5>1, <5>3, <6>2
        <5> QED
          BY <5>2, <5>3
      <4> QED
        BY <4>1, <4>2
    <3>4. f = [n \in 0 .. N |-> Body(f, n)]
      <4> DEFINE h == [n \in 0 .. N |-> Body(f, n)]
      <4>1. f = [n \in 0 .. N |-> f[n]] /\ h = [n \in 0 .. N |-> h[n]]
        OBVIOUS
      <4>2. \A n \in 0 .. N : f[n] = h[n]
        BY <3>3
      <4> HIDE DEF f, h, Body
      <4>3. f = h
        BY <4>1, <4>2
      <4> QED
        BY <4>3 DEF h
    <3> QED
      BY <2>1, <3>4
  <2> QED
    BY <2>2, <2>3
<1>2. after = [n \in 0 .. Len(list) |-> Body(after, n)]
  <2>1. \E f : f = [n \in 0 .. Len(list) |-> Body(f, n)]
    BY <1>1
  <2> QED
    BY <2>1
<1>3. ExecuteEffects(sh, list) = after[Len(list)]
  BY DEF ExecuteEffects
<1> HIDE DEF after
<1>4. after[0] = sh
  BY <1>2
<1>5. ASSUME NEW n \in 1 .. Len(list) PROVE after[n] = ExecuteEffect(after[n - 1], list[n])
  <2>1. n \in 0 .. Len(list) /\ n # 0
    OBVIOUS
  <2> QED
    BY <1>2, <2>1
<1> QED
  BY <1>3, <1>4, <1>5 DEF Executes

\* So are the raised events of a macrostep.
LEMMA Settling ==
    ASSUME NEW step
    PROVE  \E f : /\ f[0] = step
                  /\ \A n \in 1 .. StepLimit : f[n] = Settle(f[n - 1])
                  /\ Stabilize(step) = f[StepLimit]
<1> DEFINE Body(f, n) == IF n = 0 THEN step ELSE Settle(f[n - 1])
           Bad == {N \in Nat : ~\E f : f = [n \in 0 .. N |-> Body(f, n)]}
           after == CHOOSE f : f = [n \in 0 .. StepLimit |-> Body(f, n)]
<1>1. Bad = {}
  <2> SUFFICES ASSUME Bad # {} PROVE FALSE
    OBVIOUS
  <2>1. PICK N \in Bad : \A M \in Bad : N <= M
    <3>1. Bad \in SUBSET Nat
      OBVIOUS
    <3> HIDE DEF Bad
    <3> QED
      BY <3>1, Least
  <2>2. CASE N = 0
    <3> DEFINE f == [n \in 0 .. 0 |-> step]
    <3>1. f = [n \in 0 .. N |-> Body(f, n)]
      BY <2>2
    <3> QED
      BY <3>1
  <2>3. CASE N # 0
    <3>1. N \in Nat /\ N - 1 \in Nat /\ ~(N <= N - 1)
      BY <2>3
    <3>2. PICK g : g = [n \in 0 .. N - 1 |-> Body(g, n)]
      BY <2>1, <3>1
    <3> DEFINE f == [n \in 0 .. N |-> IF n = N THEN Settle(g[n - 1]) ELSE g[n]]
    <3>3. ASSUME NEW n \in 0 .. N PROVE f[n] = Body(f, n)
      <4>1. CASE n = 0
        <5>1. n \in 0 .. N - 1 /\ n # N
          BY <3>1, <4>1, <2>3
        <5>2. g[n] = Body(g, n)
          BY <3>2, <5>1
        <5> QED
          BY <4>1, <5>1, <5>2
      <4>2. CASE n # 0
        <5>1. n - 1 \in 0 .. N /\ n - 1 # N /\ f[n - 1] = g[n - 1]
          BY <3>1, <4>2
        <5>2. CASE n = N
          BY <4>2, <5>1, <5>2
        <5>3. CASE n # N
          <6>1. n \in 0 .. N - 1
            BY <3>1, <5>3
          <6>2. g[n] = Body(g, n)
            BY <3>2, <6>1
          <6> QED
            BY <4>2, <5>1, <5>3, <6>2
        <5> QED
          BY <5>2, <5>3
      <4> QED
        BY <4>1, <4>2
    <3>4. f = [n \in 0 .. N |-> Body(f, n)]
      <4> DEFINE h == [n \in 0 .. N |-> Body(f, n)]
      <4>1. f = [n \in 0 .. N |-> f[n]] /\ h = [n \in 0 .. N |-> h[n]]
        OBVIOUS
      <4>2. \A n \in 0 .. N : f[n] = h[n]
        BY <3>3
      <4> HIDE DEF f, h, Body
      <4>3. f = h
        BY <4>1, <4>2
      <4> QED
        BY <4>3 DEF h
    <3> QED
      BY <2>1, <3>4
  <2> QED
    BY <2>2, <2>3
<1>2. after = [n \in 0 .. StepLimit |-> Body(after, n)]
  <2>1. \E f : f = [n \in 0 .. StepLimit |-> Body(f, n)]
    BY <1>1, NamesAssumption
  <2> QED
    BY <2>1
<1>3. Stabilize(step) = after[StepLimit]
  BY DEF Stabilize
<1> HIDE DEF after
<1>4. after[0] = step
  BY <1>2, NamesAssumption
<1>5. ASSUME NEW n \in 1 .. StepLimit PROVE after[n] = Settle(after[n - 1])
  <2>1. n \in 0 .. StepLimit /\ n # 0
    BY NamesAssumption
  <2> QED
    BY <1>2, <2>1
<1> QED
  BY <1>3, <1>4, <1>5

-----------------------------------------------------------------------------
(* Lists of actions and effects, and the children they register *)

\* The parts of a concatenation.
LEMMA Joined ==
    ASSUME NEW S, NEW a \in Seq(S), NEW b \in Seq(S)
    PROVE  /\ a \o b \in Seq(S) /\ Len(a) \in Nat /\ Len(b) \in Nat
           /\ Len(a \o b) = Len(a) + Len(b)
           /\ \A j \in 1 .. Len(a) : (a \o b)[j] = a[j]
           /\ \A j \in 1 .. Len(b) : (a \o b)[Len(a) + j] = b[j]
OBVIOUS

\* Inside the first part of a list nothing is known of the second.
LEMMA HoldsInFront ==
    ASSUME NEW S, NEW a \in Seq(S), NEW b \in Seq(S), NEW R, NEW c,
           NEW i \in 1 .. Len(a) + 1
    PROVE  Holds(a \o b, i, R, c) <=> Holds(a, i, R, c)
<1> DEFINE ab == a \o b
<1>1. \A j \in 1 .. i - 1 : ab[j] = a[j]
  BY Joined
<1>2. Len(a) \in Nat /\ i \in Nat
  BY Joined
<1> HIDE DEF ab
<1>3. \A j \in 1 .. i - 1 : /\ Spawns(ab[j], c) <=> Spawns(a[j], c)
                            /\ Stops(ab[j], c) <=> Stops(a[j], c)
  BY <1>1
<1>4. Holds(ab, i, R, c) <=> Holds(a, i, R, c)
  <2>1. \A j \in 1 .. i - 1 : \A k \in j + 1 .. i - 1 : k \in 1 .. i - 1
    BY <1>2
  <2>2. (\A j \in 1 .. i - 1 : ~Stops(ab[j], c)) <=> (\A j \in 1 .. i - 1 : ~Stops(a[j], c))
    BY <1>3
  <2>3. \A j \in 1 .. i - 1 : (\A k \in j + 1 .. i - 1 : ~Stops(ab[k], c))
                               <=> (\A k \in j + 1 .. i - 1 : ~Stops(a[k], c))
    BY <1>3, <2>1
  <2> QED
    BY <1>3, <2>2, <2>3 DEF Holds
<1> QED
  BY <1>4 DEF ab

\* What the first part leaves registered is what the second begins with.
LEMMA HoldsBehind ==
    ASSUME NEW S, NEW a \in Seq(S), NEW b \in Seq(S), NEW R, NEW c \in ChildIds,
           NEW i \in 1 .. Len(b) + 1
    PROVE  Holds(a \o b, Len(a) + i, R, c) <=> Holds(b, i, After(a, R), c)
<1> DEFINE ab == a \o b
           l == Len(a)
           sp(j) == Spawns(ab[j], c)
           st(j) == Stops(ab[j], c)
<1>1. \A j \in 1 .. l : (Spawns(a[j], c) <=> sp(j)) /\ (Stops(a[j], c) <=> st(j))
  BY Joined
<1>2. \A j \in 1 .. i - 1 : (Spawns(b[j], c) <=> sp(l + j)) /\ (Stops(b[j], c) <=> st(l + j))
  BY Joined
<1>3. l \in Nat /\ i \in Nat \ {0}
  BY Joined
<1>4. c \in After(a, R) <=> Holds(a, l + 1, R, c)
  BY DEF After
<1>5. Holds(a, l + 1, R, c) <=> \/ c \in R /\ \A j \in 1 .. l : ~st(j)
                                \/ \E j \in 1 .. l : sp(j) /\ \A k \in j + 1 .. l : ~st(k)
  BY <1>1, <1>3 DEF Holds
<1>6. Holds(b, i, After(a, R), c) <=>
         \/ c \in After(a, R) /\ \A j \in 1 .. i - 1 : ~st(l + j)
         \/ \E j \in 1 .. i - 1 : sp(l + j) /\ \A k \in j + 1 .. i - 1 : ~st(l + k)
  <2> DEFINE D == After(a, R)
  <2> HIDE DEF ab, l, D
  <2>1. (\A j \in 1 .. i - 1 : ~Stops(b[j], c)) <=> \A j \in 1 .. i - 1 : ~st(l + j)
    BY <1>2
  <2>2. ASSUME NEW j \in 1 .. i - 1
        PROVE  (\A k \in j + 1 .. i - 1 : ~Stops(b[k], c)) <=>
                  \A k \in j + 1 .. i - 1 : ~st(l + k)
    <3>1. \A k \in j + 1 .. i - 1 : k \in 1 .. i - 1
      BY <1>3
    <3> QED
      BY <1>2, <3>1
  <2>3. Holds(b, i, D, c) <=>
           \/ c \in D /\ \A j \in 1 .. i - 1 : ~st(l + j)
           \/ \E j \in 1 .. i - 1 : sp(l + j) /\ \A k \in j + 1 .. i - 1 : ~st(l + k)
    <3> HIDE DEF sp, st
    <3> QED
      BY <1>2, <2>1, <2>2 DEF Holds
  <2> QED
    BY <2>3 DEF D
<1>7. Holds(ab, l + i, R, c) <=>
         \/ c \in R /\ \A j \in 1 .. l + i - 1 : ~st(j)
         \/ \E j \in 1 .. l + i - 1 : sp(j) /\ \A k \in j + 1 .. l + i - 1 : ~st(k)
  <2> DEFINE z == l + i
  <2>1. Holds(ab, z, R, c) <=>
           \/ c \in R /\ \A j \in 1 .. z - 1 : ~st(j)
           \/ \E j \in 1 .. z - 1 : sp(j) /\ \A k \in j + 1 .. z - 1 : ~st(k)
    <3> HIDE DEF ab, l, z
    <3> QED
      BY DEF Holds
  <2>2. z - 1 = l + i - 1
    BY <1>3
  <2> HIDE DEF ab, l, sp, st, z
  <2>3. Holds(ab, z, R, c) <=>
           \/ c \in R /\ \A j \in 1 .. l + i - 1 : ~st(j)
           \/ \E j \in 1 .. l + i - 1 : sp(j) /\ \A k \in j + 1 .. l + i - 1 : ~st(k)
    BY <2>1, <2>2
  <2> QED
    BY <2>3 DEF z
<1> HIDE DEF ab, l, sp, st
<1>8. \A j \in 1 .. l + i - 1 : j \in 1 .. l \/ (j - l \in 1 .. i - 1 /\ j = l + (j - l))
  BY <1>3
<1>9. \A j \in 1 .. i - 1 : l + j \in 1 .. l + i - 1 /\ l + j \notin 1 .. l
  BY <1>3
<1>10. \A j \in 1 .. l : j \in 1 .. l + i - 1
  BY <1>3
<1>11. ASSUME Holds(ab, l + i, R, c) PROVE Holds(b, i, After(a, R), c)
  <2>1. CASE c \in R /\ \A j \in 1 .. l + i - 1 : ~st(j)
    BY <2>1, <1>4, <1>5, <1>6, <1>9, <1>10
  <2>2. CASE \E j \in 1 .. l + i - 1 : sp(j) /\ \A k \in j + 1 .. l + i - 1 : ~st(k)
    <3>1. PICK j \in 1 .. l + i - 1 : sp(j) /\ \A k \in j + 1 .. l + i - 1 : ~st(k)
      BY <2>2
    <3>2. CASE j \in 1 .. l
      <4>1. \A k \in j + 1 .. l : k \in j + 1 .. l + i - 1
        BY <1>3
      <4>2. \A k \in 1 .. i - 1 : l + k \in j + 1 .. l + i - 1
        BY <1>3, <3>2
      <4> QED
        BY <3>1, <3>2, <4>1, <4>2, <1>4, <1>5, <1>6
    <3>3. CASE j - l \in 1 .. i - 1 /\ j = l + (j - l)
      <4>1. \A k \in j - l + 1 .. i - 1 : l + k \in j + 1 .. l + i - 1
        BY <1>3, <3>3
      <4> QED
        BY <3>1, <3>3, <4>1, <1>6
    <3> QED
      BY <1>8, <3>2, <3>3
  <2> QED
    BY <1>11, <1>7, <2>1, <2>2
<1>12. ASSUME Holds(b, i, After(a, R), c) PROVE Holds(ab, l + i, R, c)
  <2>1. CASE c \in After(a, R) /\ \A j \in 1 .. i - 1 : ~st(l + j)
    <3>1. CASE c \in R /\ \A j \in 1 .. l : ~st(j)
      <4>1. \A j \in 1 .. l + i - 1 : ~st(j)
        BY <1>8, <2>1, <3>1
      <4> QED
        BY <1>7, <3>1, <4>1
    <3>2. CASE \E j \in 1 .. l : sp(j) /\ \A k \in j + 1 .. l : ~st(k)
      <4>1. PICK j \in 1 .. l : sp(j) /\ \A k \in j + 1 .. l : ~st(k)
        BY <3>2
      <4>2. ASSUME NEW k \in j + 1 .. l + i - 1 PROVE ~st(k)
        <5>1. CASE k \in 1 .. l
          BY <1>3, <4>1, <5>1
        <5>2. CASE k - l \in 1 .. i - 1 /\ k = l + (k - l)
          BY <2>1, <5>2
        <5> QED
          BY <1>3, <1>8, <5>1, <5>2
      <4> QED
        BY <1>7, <1>10, <4>1, <4>2
    <3> QED
      BY <1>4, <1>5, <2>1, <3>1, <3>2
  <2>2. CASE \E j \in 1 .. i - 1 : sp(l + j) /\ \A k \in j + 1 .. i - 1 : ~st(l + k)
    <3>1. PICK j \in 1 .. i - 1 : sp(l + j) /\ \A k \in j + 1 .. i - 1 : ~st(l + k)
      BY <2>2
    <3>2. ASSUME NEW k \in l + j + 1 .. l + i - 1 PROVE ~st(k)
      <4>1. k - l \in j + 1 .. i - 1 /\ k = l + (k - l)
        BY <1>3
      <4> QED
        BY <3>1, <4>1
    <3> QED
      BY <1>7, <1>9, <3>1, <3>2
  <2> QED
    BY <1>12, <1>6, <2>1, <2>2
<1>13. Holds(ab, l + i, R, c) <=> Holds(b, i, After(a, R), c)
  BY <1>11, <1>12
<1> QED
  BY <1>13 DEF ab, l

\* A list in two parts.
LEMMA InParts ==
    ASSUME NEW S, NEW a \in Seq(S), NEW b \in Seq(S), NEW R
    PROVE  /\ After(a \o b, R) = After(b, After(a, R))
           /\ Clean(a \o b, R) <=> Clean(a, R) /\ Clean(b, After(a, R))
<1>1. /\ Len(a) \in Nat /\ Len(b) \in Nat /\ Len(a \o b) = Len(a) + Len(b)
      /\ \A j \in 1 .. Len(a) : (a \o b)[j] = a[j]
      /\ \A j \in 1 .. Len(b) : (a \o b)[Len(a) + j] = b[j]
  BY Joined
<1>2. ASSUME NEW c \in ChildIds PROVE c \in After(a \o b, R) <=> c \in After(b, After(a, R))
  <2>1. Len(b) + 1 \in 1 .. Len(b) + 1 /\ Len(a) + (Len(b) + 1) = Len(a \o b) + 1
    BY <1>1
  <2>2. Holds(a \o b, Len(a) + (Len(b) + 1), R, c) <=> Holds(b, Len(b) + 1, After(a, R), c)
    BY <2>1, HoldsBehind
  <2> QED
    BY <2>1, <2>2 DEF After
<1>3. ASSUME Clean(a \o b, R) PROVE Clean(a, R) /\ Clean(b, After(a, R))
  <2>1. ASSUME NEW i \in 1 .. Len(a), NEW c \in ChildIds, Spawns(a[i], c)
        PROVE  ~Holds(a, i, R, c)
    <3>1. i \in 1 .. Len(a \o b) /\ (a \o b)[i] = a[i] /\ i \in 1 .. Len(a) + 1
      BY <1>1
    <3> QED
      BY <1>3, <2>1, <3>1, HoldsInFront DEF Clean
  <2>2. ASSUME NEW i \in 1 .. Len(b), NEW c \in ChildIds, Spawns(b[i], c)
        PROVE  ~Holds(b, i, After(a, R), c)
    <3>1. Len(a) + i \in 1 .. Len(a \o b) /\ (a \o b)[Len(a) + i] = b[i] /\ i \in 1 .. Len(b) + 1
      BY <1>1
    <3> QED
      BY <1>3, <2>2, <3>1, HoldsBehind DEF Clean
  <2> QED
    BY <2>1, <2>2 DEF Clean
<1>4. ASSUME Clean(a, R), Clean(b, After(a, R)) PROVE Clean(a \o b, R)
  <2> SUFFICES ASSUME NEW i \in 1 .. Len(a \o b), NEW c \in ChildIds, Spawns((a \o b)[i], c)
               PROVE  ~Holds(a \o b, i, R, c)
    BY DEF Clean
  <2>1. CASE i \in 1 .. Len(a)
    <3>1. (a \o b)[i] = a[i] /\ i \in 1 .. Len(a) + 1
      BY <1>1, <2>1
    <3> QED
      BY <1>4, <2>1, <3>1, HoldsInFront DEF Clean
  <2>2. CASE i \notin 1 .. Len(a)
    <3>1. i - Len(a) \in 1 .. Len(b) /\ i - Len(a) \in 1 .. Len(b) + 1 /\ i = Len(a) + (i - Len(a))
      BY <1>1, <2>2
    <3>2. (a \o b)[i] = b[i - Len(a)]
      BY <1>1, <3>1
    <3>3. Holds(a \o b, i, R, c) <=> Holds(b, i - Len(a), After(a, R), c)
      BY <3>1, HoldsBehind
    <3> QED
      BY <1>4, <3>1, <3>2, <3>3 DEF Clean
  <2> QED
    BY <2>1, <2>2
<1>5. After(a \o b, R) \subseteq ChildIds /\ After(b, After(a, R)) \subseteq ChildIds
  BY DEF After
<1> QED
  BY <1>2, <1>3, <1>4, <1>5

\* Lists that spawn and stop the same children in the same places.
LEMMA SameChildren ==
    ASSUME NEW a, NEW b, Len(a) \in Nat, Len(a) = Len(b), NEW R,
           \A i \in 1 .. Len(a), c \in ChildIds :
              (Spawns(a[i], c) <=> Spawns(b[i], c)) /\ (Stops(a[i], c) <=> Stops(b[i], c))
    PROVE  After(a, R) = After(b, R) /\ (Clean(a, R) <=> Clean(b, R))
<1>1. ASSUME NEW c \in ChildIds, NEW i \in 1 .. Len(a) + 1
      PROVE  Holds(a, i, R, c) <=> Holds(b, i, R, c)
  <2>1. \A j \in 1 .. i - 1 : j \in 1 .. Len(a)
    OBVIOUS
  <2>2. \A j \in 1 .. i - 1 : /\ Spawns(a[j], c) <=> Spawns(b[j], c)
                              /\ Stops(a[j], c) <=> Stops(b[j], c)
    BY <2>1
  <2>3. i \in Nat
    OBVIOUS
  <2>4. ASSUME NEW j \in 1 .. i - 1
        PROVE  (\A k \in j + 1 .. i - 1 : ~Stops(a[k], c)) <=>
                  \A k \in j + 1 .. i - 1 : ~Stops(b[k], c)
    BY <2>2, <2>3
  <2> QED
    BY <2>2, <2>4 DEF Holds
<1>2. Len(a) + 1 \in 1 .. Len(a) + 1 /\ \A i \in 1 .. Len(a) : i \in 1 .. Len(a) + 1
  OBVIOUS
<1>3. After(a, R) = After(b, R)
  <2>1. \A c \in ChildIds : Holds(a, Len(a) + 1, R, c) <=> Holds(b, Len(b) + 1, R, c)
    BY <1>1, <1>2
  <2> QED
    BY <2>1 DEF After
<1>4. Clean(a, R) <=> Clean(b, R)
  <2>1. \A i \in 1 .. Len(a), c \in ChildIds :
           (Spawns(a[i], c) => ~Holds(a, i, R, c)) <=> (Spawns(b[i], c) => ~Holds(b, i, R, c))
    BY <1>1, <1>2
  <2> QED
    BY <2>1 DEF Clean
<1> QED
  BY <1>3, <1>4

\* A list that spawns and stops nobody.
LEMMA NoChildren ==
    ASSUME NEW a, Len(a) \in Nat, NEW R \in SUBSET ChildIds,
           \A i \in 1 .. Len(a), c \in ChildIds : ~Spawns(a[i], c) /\ ~Stops(a[i], c)
    PROVE  After(a, R) = R /\ Clean(a, R)
<1>1. \A c \in ChildIds : Holds(a, Len(a) + 1, R, c) <=> c \in R
  <2>1. \A j \in 1 .. Len(a) + 1 - 1 : j \in 1 .. Len(a)
    OBVIOUS
  <2> QED
    BY <2>1 DEF Holds
<1> QED
  BY <1>1 DEF After, Clean

\* A list that stops children.
LEMMA OnlyStops ==
    ASSUME NEW a, Len(a) \in Nat, NEW R \in SUBSET ChildIds, NEW K,
           \A i \in 1 .. Len(a), c \in ChildIds : ~Spawns(a[i], c),
           \A c \in ChildIds : c \in K <=> \E i \in 1 .. Len(a) : Stops(a[i], c)
    PROVE  After(a, R) = R \ K /\ Clean(a, R)
<1>1. \A c \in ChildIds : Holds(a, Len(a) + 1, R, c) <=> c \in R \ K
  <2>1. \A j : j \in 1 .. Len(a) + 1 - 1 <=> j \in 1 .. Len(a)
    OBVIOUS
  <2> QED
    BY <2>1 DEF Holds
<1> QED
  BY <1>1 DEF After, Clean

\* A list that spawns different children, of which none is registered.
LEMMA OnlySpawns ==
    ASSUME NEW a, Len(a) \in Nat, NEW R \in SUBSET ChildIds, NEW K, R \cap K = {},
           \A i \in 1 .. Len(a), c \in ChildIds : ~Stops(a[i], c),
           \A c \in ChildIds : c \in K <=> \E i \in 1 .. Len(a) : Spawns(a[i], c),
           \A c \in ChildIds : \A i, j \in 1 .. Len(a) :
              Spawns(a[i], c) /\ Spawns(a[j], c) => i = j
    PROVE  After(a, R) = R \cup (K \cap ChildIds) /\ Clean(a, R)
<1>1. \A c \in ChildIds : Holds(a, Len(a) + 1, R, c) <=> c \in R \cup K
  <2>1. \A j : j \in 1 .. Len(a) + 1 - 1 <=> j \in 1 .. Len(a)
    OBVIOUS
  <2>2. \A j \in 1 .. Len(a) : \A k \in j + 1 .. Len(a) + 1 - 1 : k \in 1 .. Len(a)
    OBVIOUS
  <2> QED
    BY <2>1, <2>2 DEF Holds
<1>2. ASSUME NEW i \in 1 .. Len(a), NEW c \in ChildIds, Spawns(a[i], c)
      PROVE  ~Holds(a, i, R, c)
  <2>1. c \notin R
    BY <1>2
  <2>2. \A j \in 1 .. i - 1 : j \in 1 .. Len(a) /\ j # i
    OBVIOUS
  <2>3. \A j \in 1 .. i - 1 : ~Spawns(a[j], c)
    BY <1>2, <2>2
  <2> QED
    BY <2>1, <2>3 DEF Holds
<1>3. After(a, R) = R \cup (K \cap ChildIds)
  BY <1>1 DEF After
<1> QED
  BY <1>2, <1>3 DEF Clean

\* Where more may be registered, more is left; where a list is clean it is with less.
LEMMA LessIsClean ==
    ASSUME NEW a, NEW R, NEW M, NEW K \in SUBSET ChildIds, R \cap K \subseteq M,
           \A i \in 1 .. Len(a), c \in ChildIds \ K : ~Spawns(a[i], c) /\ ~Stops(a[i], c),
           Len(a) \in Nat
    PROVE  /\ Clean(a, M) => Clean(a, R)
           /\ After(a, R) \cap K \subseteq After(a, M)
           /\ After(a, R) \ K = (R \cap ChildIds) \ K
<1>1. ASSUME NEW c \in K, NEW i, Holds(a, i, R, c) PROVE Holds(a, i, M, c)
  BY <1>1 DEF Holds
<1>2. ASSUME Clean(a, M) PROVE Clean(a, R)
  <2> SUFFICES ASSUME NEW i \in 1 .. Len(a), NEW c \in ChildIds, Spawns(a[i], c)
               PROVE  ~Holds(a, i, R, c)
    BY DEF Clean
  <2>1. c \in K
    OBVIOUS
  <2> QED
    BY <1>1, <1>2, <2>1 DEF Clean
<1>3. After(a, R) \cap K \subseteq After(a, M)
  BY <1>1 DEF After
<1>4. ASSUME NEW c \in ChildIds \ K PROVE Holds(a, Len(a) + 1, R, c) <=> c \in R
  <2>1. \A j \in 1 .. Len(a) + 1 - 1 : j \in 1 .. Len(a)
    OBVIOUS
  <2> QED
    BY <2>1 DEF Holds
<1>5. After(a, R) \ K = (R \cap ChildIds) \ K
  BY <1>4 DEF After
<1> QED
  BY <1>2, <1>3, <1>5

-----------------------------------------------------------------------------
(* The effects of actions, delays and invocations *)

States == DOMAIN m.after

\* What is posted, and what timers and children are named by.
Messages == Events \cup {Start, Stop, Finish, Control("none")}
Ids == Events \cup {Named(s) : s \in STRING}
              \cup {Anonymous(kind, n) : kind \in ActionKinds, n \in Nat}

\* Of the machine or of a child.
Statuses == {"none", "active", "done", "stopped"}

\* What an actor is told to do: nobody starts the machine again.
EffectKinds == {"none", "timer", "send", "cancel", "spawnChild", "respawnChild", "stopChild"}
Effects ==
    {e \in [kind : EffectKinds, id : Ids, to : ChildIds \cup {NoName},
            event : Messages, delay : Nat] :
        /\ e.kind \in {"spawnChild", "respawnChild", "stopChild"} => e.to \in ChildIds
        /\ e.kind = "respawnChild" => restoring.children[e.to] \in Statuses
        /\ e.event # Start}

\* Events and ids by their kinds.
LEMMA EventsByKind ==
    ASSUME NEW s \in STRING, NEW i \in Nat
    PROVE  /\ External(s) \in Events /\ External(s) \notin {Start, Stop}
           /\ AfterEvent(s, i) \in Events /\ AfterEvent(s, i) # Start
           /\ DoneActor(s) \in Events /\ DoneActor(s) \notin {Start, Stop}
           /\ Stop # Start /\ Control("none") # Start
<1>1. External(s)[1] = "external" /\ AfterEvent(s, i)[1] = "after" /\ DoneActor(s)[1] = "done"
  BY DEF External, AfterEvent, DoneActor
<1>2. Start[1] = "start" /\ Stop[1] = "stop" /\ Control("none")[1] = "none"
  BY DEF Start, Stop, Control
<1>3. External(s) # Start /\ External(s) # Stop /\ AfterEvent(s, i) # Start
  BY <1>1, <1>2
<1>4. DoneActor(s) # Start /\ DoneActor(s) # Stop /\ Stop # Start /\ Control("none") # Start
  BY <1>1, <1>2
<1>5. \A a \in {"external", "after", "done"}, b \in STRING, n \in Nat : <<a, b, n>> \in Events
  BY DEF Events
<1>6. External(s) \in Events /\ DoneActor(s) \in Events /\ AfterEvent(s, i) \in Events
  BY <1>5 DEF External, DoneActor, AfterEvent
<1> QED
  BY <1>3, <1>4, <1>6

\* A machine as it is assumed to be.
LEMMA TheMachine ==
    ASSUME m \in Machines
    PROVE  /\ States \subseteq STRING /\ Top \notin States /\ NoName \notin States
           /\ m.initial \in States
           /\ \A s \in States : /\ m.after[s] \in Seq(Nat)
                                /\ m.invokes[s] \in Seq(ChildIds)
           /\ \A s \in {Top} \cup States : /\ m.entry[s] \in Seq(Actions)
                                           /\ m.exit[s] \in Seq(Actions)
           /\ m.trans \in Seq(Transitions(States))
BY MachinesAssumption DEF IsMachine, States

\* An action is an effect about the same child, or of none.
LEMMA ActionsHaveEffects ==
    ASSUME NEW acts \in Seq(Actions), NEW i \in 1 .. Len(acts)
    PROVE  /\ EffectOf(acts, i) \in Effects
           /\ \A c : /\ Spawns(EffectOf(acts, i), c) <=> Spawns(acts[i], c)
                     /\ Stops(EffectOf(acts, i), c) <=> Stops(acts[i], c)
<1> DEFINE a == acts[i]
<1>1. a \in Actions
  OBVIOUS
<1>2. /\ a.kind \in ActionKinds /\ a.id \in STRING /\ a.event \in STRING /\ a.delay \in Nat
      /\ a.to \in ChildIds \cup {NoName}
      /\ a.kind \in {"spawnChild", "stopChild"} => a.to \in ChildIds
  BY <1>1 DEF Actions
<1>3. SendId(acts, i) \in Ids
  <2>1. CASE a.id # NoName
    BY <2>1, <1>2 DEF SendId, Ids
  <2>2. CASE a.id = NoName
    <3> DEFINE J == {j \in 1 .. i - 1 : TakesNumber(acts[j])}
    <3>1. IsFiniteSet(1 .. i - 1)
      BY FS_Interval
    <3>2. Cardinality(J) \in Nat
      BY <3>1, FS_Subset, FS_CardinalityType
    <3>3. SendId(acts, i) = Anonymous(a.kind, Cardinality(J))
      <4>1. Quantify(1 .. i - 1, LAMBDA j : TakesNumber(acts[j])) = Cardinality(J)
        BY DEF Quantify
      <4> QED
        BY <2>2, <4>1 DEF SendId
    <3> HIDE DEF J, a
    <3> QED
      BY <3>2, <3>3, <1>2 DEF Ids
  <2> QED
    BY <2>1, <2>2
<1> DEFINE listed == IF Raised(a) THEN "none"
                     ELSE IF a.kind = "raise" \/ (a.kind = "send" /\ a.delay > 0) THEN "timer"
                     ELSE a.kind
<1>4. EffectOf(acts, i) = [kind |-> listed, id |-> SendId(acts, i), to |-> a.to,
                           event |-> External(a.event), delay |-> a.delay]
  BY DEF EffectOf, Effect
<1>5. /\ listed \in EffectKinds
      /\ listed \in {"spawnChild", "respawnChild", "stopChild"} => listed = a.kind
      /\ a.kind \in {"spawnChild", "respawnChild", "stopChild"} => listed = a.kind
      /\ listed # "respawnChild"
  BY <1>2 DEF ActionKinds, EffectKinds, Raised
<1>6. External(a.event) \in Messages /\ External(a.event) # Start
  BY <1>2, EventsByKind DEF Messages
<1>7. listed \in {"spawnChild", "respawnChild", "stopChild"} => a.to \in ChildIds
  BY <1>2, <1>5 DEF ActionKinds
<1> HIDE DEF listed, a
<1>8. EffectOf(acts, i) \in Effects
  BY <1>2, <1>3, <1>4, <1>5, <1>6, <1>7 DEF Effects
<1>9. \A c : /\ Spawns(EffectOf(acts, i), c) <=> Spawns(a, c)
             /\ Stops(EffectOf(acts, i), c) <=> Stops(a, c)
  BY <1>4, <1>5 DEF Spawns, Stops
<1> QED
  BY <1>8, <1>9 DEF a

\* So are some of the actions of a list.
LEMMA EffectsOfSome ==
    ASSUME NEW acts \in Seq(Actions), NEW first \in Nat, NEW n \in Nat,
           first + n <= Len(acts)
    PROVE  /\ EffectsIn(acts, first, n) \in Seq(Effects) /\ Len(EffectsIn(acts, first, n)) = n
           /\ \A i \in 1 .. n, c \in ChildIds :
                 /\ Spawns(EffectsIn(acts, first, n)[i], c) <=> Spawns(acts[first + i], c)
                 /\ Stops(EffectsIn(acts, first, n)[i], c) <=> Stops(acts[first + i], c)
<1>1. \A i \in 1 .. n : first + i \in 1 .. Len(acts)
  OBVIOUS
<1>2. \A i \in 1 .. n : EffectsIn(acts, first, n)[i] = EffectOf(acts, first + i)
  BY DEF EffectsIn
<1>3. EffectsIn(acts, first, n) \in Seq(Effects) /\ Len(EffectsIn(acts, first, n)) = n
  <2>1. \A i \in 1 .. n : EffectOf(acts, first + i) \in Effects
    BY <1>1, ActionsHaveEffects
  <2>2. EffectsIn(acts, first, n) \in [1 .. n -> Effects]
    BY <2>1 DEF EffectsIn
  <2> QED
    BY <2>2
<1> QED
  BY <1>1, <1>2, <1>3, ActionsHaveEffects

\* Of all of them.
LEMMA EffectsOfAll ==
    ASSUME NEW acts \in Seq(Actions), NEW R
    PROVE  /\ EffectsOf(acts) \in Seq(Effects)
           /\ After(EffectsOf(acts), R) = After(acts, R)
           /\ Clean(EffectsOf(acts), R) <=> Clean(acts, R)
<1>1. Len(acts) \in Nat /\ 0 \in Nat /\ 0 + Len(acts) <= Len(acts)
  OBVIOUS
<1>2. /\ EffectsOf(acts) \in Seq(Effects) /\ Len(EffectsOf(acts)) = Len(acts)
      /\ \A i \in 1 .. Len(acts), c \in ChildIds :
            /\ Spawns(EffectsOf(acts)[i], c) <=> Spawns(acts[0 + i], c)
            /\ Stops(EffectsOf(acts)[i], c) <=> Stops(acts[0 + i], c)
  BY <1>1, EffectsOfSome DEF EffectsOf
<1>3. \A i \in 1 .. Len(acts) : 0 + i = i
  OBVIOUS
<1> QED
  BY <1>1, <1>2, <1>3, SameChildren

\* A part of a list of actions is a list of actions.
LEMMA EffectsOfPart ==
    ASSUME NEW a \in Seq(Actions), NEW acts \in Seq(Actions), NEW first \in Nat,
           first + Len(a) <= Len(acts),
           \A i \in 1 .. Len(a) : acts[first + i] = a[i], NEW R
    PROVE  /\ EffectsIn(acts, first, Len(a)) \in Seq(Effects)
           /\ After(EffectsIn(acts, first, Len(a)), R) = After(a, R)
           /\ Clean(EffectsIn(acts, first, Len(a)), R) <=> Clean(a, R)
<1>1. Len(a) \in Nat
  OBVIOUS
<1> QED
  BY <1>1, EffectsOfSome, SameChildren

\* Delays concern no children.
LEMMA DelaysHaveEffects ==
    ASSUME m \in Machines, NEW s \in States, NEW R \in SUBSET ChildIds
    PROVE  /\ CancelDelays(s) \in Seq(Effects) /\ StartDelays(s) \in Seq(Effects)
           /\ After(CancelDelays(s), R) = R /\ Clean(CancelDelays(s), R)
           /\ After(StartDelays(s), R) = R /\ Clean(StartDelays(s), R)
<1>1. s \in STRING /\ m.after[s] \in Seq(Nat) /\ DOMAIN m.after[s] = 1 .. Len(m.after[s])
      /\ Len(m.after[s]) \in Nat
  BY TheMachine
<1>2. /\ CancelDelays(s) \in [1 .. Len(m.after[s]) -> Effects]
      /\ StartDelays(s) \in [1 .. Len(m.after[s]) -> Effects]
  <2>1. ASSUME NEW i \in 1 .. Len(m.after[s])
        PROVE  /\ Effect("cancel", AfterEvent(s, i), NoName, Stop, 0) \in Effects
               /\ Effect("timer", AfterEvent(s, i), NoName, AfterEvent(s, i), m.after[s][i])
                     \in Effects
    <3>1. /\ AfterEvent(s, i) \in Ids /\ AfterEvent(s, i) \in Messages /\ AfterEvent(s, i) # Start
          /\ Stop \in Messages /\ Stop # Start
      <4>1. s \in STRING /\ i \in Nat
        BY <1>1
      <4> QED
        BY <4>1, EventsByKind DEF Messages, Ids
    <3>2. m.after[s][i] \in Nat
      BY <1>1
    <3> QED
      BY <3>1, <3>2 DEF Effect, Effects, EffectKinds
  <2> QED
    BY <1>1, <2>1 DEF CancelDelays, StartDelays
<1>3. \A i \in 1 .. Len(m.after[s]) :
         CancelDelays(s)[i].kind = "cancel" /\ StartDelays(s)[i].kind = "timer"
  BY <1>1 DEF CancelDelays, StartDelays, Effect
<1>4. /\ CancelDelays(s) \in Seq(Effects) /\ StartDelays(s) \in Seq(Effects)
      /\ Len(CancelDelays(s)) = Len(m.after[s]) /\ Len(StartDelays(s)) = Len(m.after[s])
  <2>1. \A l \in Nat : \A f \in [1 .. l -> Effects] : f \in Seq(Effects) /\ Len(f) = l
    OBVIOUS
  <2> QED
    BY <1>1, <1>2, <2>1
<1>5. \A i \in 1 .. Len(m.after[s]), c \in ChildIds :
         /\ ~Spawns(CancelDelays(s)[i], c) /\ ~Stops(CancelDelays(s)[i], c)
         /\ ~Spawns(StartDelays(s)[i], c) /\ ~Stops(StartDelays(s)[i], c)
  BY <1>3 DEF Spawns, Stops
<1> QED
  BY <1>1, <1>4, <1>5, NoChildren

\* An invocation spawns or stops the children of the state.
LEMMA InvocationsHaveEffects ==
    ASSUME m \in Machines, NEW s \in States, NEW R \in SUBSET ChildIds
    PROVE  /\ InvokeEffects("stopChild", s) \in Seq(Effects)
           /\ InvokeEffects("spawnChild", s) \in Seq(Effects)
           /\ After(InvokeEffects("stopChild", s), R) = R \ ToSet(m.invokes[s])
           /\ Clean(InvokeEffects("stopChild", s), R)
           /\ IsInjective(m.invokes[s]) /\ R \cap ToSet(m.invokes[s]) = {} =>
                 /\ After(InvokeEffects("spawnChild", s), R) = R \cup ToSet(m.invokes[s])
                 /\ Clean(InvokeEffects("spawnChild", s), R)
<1> DEFINE ids == m.invokes[s]
<1>1. ids \in Seq(ChildIds) /\ DOMAIN ids = 1 .. Len(ids) /\ Len(ids) \in Nat
  BY TheMachine
<1>2. \A i \in 1 .. Len(ids) : ids[i] \in ChildIds
  BY <1>1
<1>3. ToSet(ids) = {ids[i] : i \in 1 .. Len(ids)}
  BY <1>1 DEF ToSet
<1>4. \A i \in 1 .. Len(ids) :
         /\ InvokeEffects("stopChild", s)[i] = Effect("stopChild", Named(ids[i]), ids[i], Control("none"), 0)
         /\ InvokeEffects("spawnChild", s)[i] = Effect("spawnChild", Named(ids[i]), ids[i], Control("none"), 0)
  BY <1>1 DEF InvokeEffects
<1>5. \A i \in 1 .. Len(ids), kind \in {"stopChild", "spawnChild"} :
         Effect(kind, Named(ids[i]), ids[i], Control("none"), 0) \in Effects
  <2>1. Control("none") \in Messages /\ Control("none") # Start
    <3>1. Control("none")[1] = "none" /\ Start[1] = "start"
      BY DEF Start, Control
    <3> QED
      BY <3>1 DEF Messages
  <2>2. \A i \in 1 .. Len(ids) : Named(ids[i]) \in Ids
    <3>1. \A c \in ChildIds : c \in STRING
      BY NamesAssumption
    <3> HIDE DEF ids
    <3> QED
      BY <1>2, <3>1 DEF Ids
  <2> QED
    BY <1>2, <2>1, <2>2 DEF Effect, Effects, EffectKinds
<1>6. /\ InvokeEffects("stopChild", s) \in [1 .. Len(ids) -> Effects]
      /\ InvokeEffects("spawnChild", s) \in [1 .. Len(ids) -> Effects]
  BY <1>1, <1>5 DEF InvokeEffects
<1>7. /\ InvokeEffects("stopChild", s) \in Seq(Effects) /\ Len(InvokeEffects("stopChild", s)) = Len(ids)
      /\ InvokeEffects("spawnChild", s) \in Seq(Effects) /\ Len(InvokeEffects("spawnChild", s)) = Len(ids)
  BY <1>1, <1>6
<1>8. ASSUME NEW i \in 1 .. Len(ids), NEW c \in ChildIds
      PROVE
         /\ ~Spawns(InvokeEffects("stopChild", s)[i], c)
         /\ Stops(InvokeEffects("stopChild", s)[i], c) <=> ids[i] = c
         /\ ~Stops(InvokeEffects("spawnChild", s)[i], c)
         /\ Spawns(InvokeEffects("spawnChild", s)[i], c) <=> ids[i] = c
  <2> HIDE DEF ids
  <2> DEFINE x == InvokeEffects("stopChild", s)[i]
             y == InvokeEffects("spawnChild", s)[i]
  <2>1. x.kind = "stopChild" /\ x.to = ids[i] /\ y.kind = "spawnChild" /\ y.to = ids[i]
    <3>1. /\ x = Effect("stopChild", Named(ids[i]), ids[i], Control("none"), 0)
          /\ y = Effect("spawnChild", Named(ids[i]), ids[i], Control("none"), 0)
      BY <1>4
    <3> HIDE DEF x, y
    <3> QED
      BY <3>1 DEF Effect
  <2> HIDE DEF x, y
  <2>2. ~Spawns(x, c) /\ (Stops(x, c) <=> ids[i] = c)
    BY <2>1 DEF Spawns, Stops
  <2>3. ~Stops(y, c) /\ (Spawns(y, c) <=> ids[i] = c)
    BY <2>1 DEF Spawns, Stops
  <2> QED
    BY <2>2, <2>3 DEF x, y
<1> HIDE DEF ids
<1>9. ToSet(ids) \cap ChildIds = ToSet(ids)
  BY <1>2, <1>3
<1>10. After(InvokeEffects("stopChild", s), R) = R \ ToSet(ids) /\ Clean(InvokeEffects("stopChild", s), R)
  <2>1. \A c \in ChildIds : c \in ToSet(ids) <=>
           \E i \in 1 .. Len(ids) : Stops(InvokeEffects("stopChild", s)[i], c)
    BY <1>3, <1>8
  <2> QED
    BY <1>1, <1>7, <1>8, <2>1, OnlyStops
<1>11. ASSUME IsInjective(ids), R \cap ToSet(ids) = {}
       PROVE  /\ After(InvokeEffects("spawnChild", s), R) = R \cup ToSet(ids)
              /\ Clean(InvokeEffects("spawnChild", s), R)
  <2>1. \A i, j \in 1 .. Len(ids) : ids[i] = ids[j] => i = j
    BY <1>1, <1>11 DEF IsInjective
  <2>2. \A c \in ChildIds : \A i, j \in 1 .. Len(ids) :
           Spawns(InvokeEffects("spawnChild", s)[i], c) /\ Spawns(InvokeEffects("spawnChild", s)[j], c)
              => i = j
    BY <1>8, <2>1
  <2>3. \A c \in ChildIds : c \in ToSet(ids) <=>
           \E i \in 1 .. Len(ids) : Spawns(InvokeEffects("spawnChild", s)[i], c)
    BY <1>3, <1>8
  <2>4. /\ After(InvokeEffects("spawnChild", s), R) = R \cup (ToSet(ids) \cap ChildIds)
        /\ Clean(InvokeEffects("spawnChild", s), R)
    BY <1>1, <1>7, <1>8, <1>11, <2>2, <2>3, OnlySpawns
  <2> QED
    BY <1>9, <2>4
<1> QED
  BY <1>7, <1>10, <1>11 DEF ids

-----------------------------------------------------------------------------
(* Macrosteps *)

\* A macrostep under way.
IsStep(step) ==
    /\ step = [leaf |-> step.leaf, raised |-> step.raised, effects |-> step.effects]
    /\ step.leaf \in States
    /\ step.effects \in Seq(Effects)

\* The children of the state s are registered, and of the others those the plan allows.
Plan(x) == CHOOSE plan \in Plans(x) : IsPlan(x, plan)
Manned(x, s, R) ==
    /\ R \subseteq ChildIds
    /\ R \cap Invoked(x) = ToSet(x.invokes[s])
    /\ R \ Invoked(x) \subseteq Plan(x)[s]

\* What the macrostep does to the children R that were registered before it.
OnPlan(step, R) == Clean(step.effects, R) /\ Manned(m, step.leaf, After(step.effects, R))

\* A tidy machine has a plan.
LEMMA PlanIsPlan ==
    ASSUME m \in Machines, Tidy(m)
    PROVE  Plan(m) \in Plans(m) /\ IsPlan(m, Plan(m))
BY DEF Tidy, Plan

\* What is invoked are children.
LEMMA InvokedAreChildren ==
    ASSUME m \in Machines
    PROVE  /\ Invoked(m) \subseteq ChildIds
           /\ \A s \in States : ToSet(m.invokes[s]) \subseteq Invoked(m)
<1>1. \A s \in States : ToSet(m.invokes[s]) \subseteq ChildIds
  <2> TAKE s \in States
  <2>1. m.invokes[s] \in Seq(ChildIds)
    BY TheMachine
  <2> QED
    BY <2>1 DEF ToSet
<1>2. Invoked(m) = UNION {ToSet(m.invokes[s]) : s \in States}
  BY DEF Invoked, States
<1> QED
  BY <1>1, <1>2

\* Actions do to other children what the plan says, and nothing to those of invocations.
LEMMA ActionsFollowPlan ==
    ASSUME m \in Machines, Tidy(m), NEW a \in ActionLists(m), a \in Seq(Actions),
           NEW R \in SUBSET ChildIds, NEW M, R \ Invoked(m) \subseteq M, Clean(a, M)
    PROVE  /\ Clean(a, R)
           /\ After(a, R) \in SUBSET ChildIds
           /\ After(a, R) \cap Invoked(m) = R \cap Invoked(m)
           /\ After(a, R) \ Invoked(m) \subseteq After(a, M)
<1> DEFINE K == ChildIds \ Invoked(m)
<1>1. Len(a) \in Nat /\ DOMAIN a = 1 .. Len(a)
  OBVIOUS
<1>2. \A i \in 1 .. Len(a), c \in ChildIds \ K : ~Spawns(a[i], c) /\ ~Stops(a[i], c)
  BY <1>1 DEF Tidy
<1>3. K \in SUBSET ChildIds /\ R \cap K \subseteq M
  OBVIOUS
<1> HIDE DEF K
<1>4. /\ Clean(a, M) => Clean(a, R)
      /\ After(a, R) \cap K \subseteq After(a, M)
      /\ After(a, R) \ K = (R \cap ChildIds) \ K
  BY <1>1, <1>2, <1>3, LessIsClean
<1>5. After(a, R) \in SUBSET ChildIds
  BY DEF After
<1> QED
  BY <1>4, <1>5, InvokedAreChildren DEF K

\* A list that is clean, and clean with some more.
LEMMA OneMore ==
    ASSUME NEW S, NEW e \in Seq(S), NEW x \in Seq(S), NEW R, Clean(e, R), Clean(x, After(e, R))
    PROVE  /\ e \o x \in Seq(S) /\ Clean(e \o x, R)
           /\ After(e \o x, R) = After(x, After(e, R))
BY InParts, Joined

\* The actions of a transition are those it exits, its own and those it enters with.
LEMMA ThreeLists ==
    ASSUME NEW x \in Seq(Actions), NEW y \in Seq(Actions), NEW z \in Seq(Actions)
    PROVE  /\ x \o y \o z \in Seq(Actions)
           /\ Len(x) \in Nat /\ Len(y) \in Nat /\ Len(z) \in Nat
           /\ Len(x \o y \o z) = Len(x) + Len(y) + Len(z)
           /\ \A i \in 1 .. Len(x) : (x \o y \o z)[0 + i] = x[i]
           /\ \A i \in 1 .. Len(y) : (x \o y \o z)[Len(x) + i] = y[i]
           /\ \A i \in 1 .. Len(z) : (x \o y \o z)[Len(x) + Len(y) + i] = z[i]
OBVIOUS

\* A transition of a machine.
LEMMA TheTransition ==
    ASSUME m \in Machines, NEW i \in DOMAIN m.trans
    PROVE  /\ m.trans[i].actions \in Seq(Actions) /\ m.trans[i].actions \in ActionLists(m)
           /\ Moves(m.trans[i]) => m.trans[i].target \in States
<1>1. m.trans \in Seq(Transitions(States))
  BY TheMachine
<1>2. m.trans[i] \in Transitions(States)
  BY <1>1
<1> DEFINE t == m.trans[i]
<1>3. t.actions \in ActionLists(m)
  BY DEF ActionLists
<1> HIDE DEF t
<1>4. t.actions \in Seq(Actions) /\ t.target \in {NoName} \cup States
  BY <1>2 DEF Transitions, t
<1> QED
  BY <1>3, <1>4 DEF Moves, t

\* So are the actions of its states.
LEMMA TheStates ==
    ASSUME m \in Machines, NEW s \in {Top} \cup States
    PROVE  /\ m.entry[s] \in Seq(Actions) /\ m.entry[s] \in ActionLists(m)
           /\ m.exit[s] \in Seq(Actions) /\ m.exit[s] \in ActionLists(m)
BY TheMachine DEF ActionLists, States

\* The effects of a transition from s to u by the actions x, y and z.
Moving(s, u, x, y, z) ==
    <<EffectsIn(x \o y \o z, 0, Len(x)), CancelDelays(s), InvokeEffects("stopChild", s),
      EffectsIn(x \o y \o z, Len(x), Len(y)), InvokeEffects("spawnChild", u),
      EffectsIn(x \o y \o z, Len(x) + Len(y), Len(z)), StartDelays(u)>>

Strung(e, l) == e \o l[1] \o l[2] \o l[3] \o l[4] \o l[5] \o l[6] \o l[7]

\* They are effects.
LEMMA MovingIsTyped ==
    ASSUME m \in Machines, NEW s \in States, NEW u \in States,
           NEW x \in Seq(Actions), NEW y \in Seq(Actions), NEW z \in Seq(Actions),
           NEW j \in 1 .. 7
    PROVE  Moving(s, u, x, y, z)[j] \in Seq(Effects)
<1> DEFINE acts == x \o y \o z
<1>1. /\ acts \in Seq(Actions) /\ Len(x) \in Nat /\ Len(y) \in Nat /\ Len(z) \in Nat
      /\ Len(acts) = Len(x) + Len(y) + Len(z)
  BY ThreeLists
<1>2. Moving(s, u, x, y, z) =
         <<EffectsIn(acts, 0, Len(x)), CancelDelays(s), InvokeEffects("stopChild", s),
           EffectsIn(acts, Len(x), Len(y)), InvokeEffects("spawnChild", u),
           EffectsIn(acts, Len(x) + Len(y), Len(z)), StartDelays(u)>>
  BY DEF Moving
<1> HIDE DEF acts
<1>3. /\ EffectsIn(acts, 0, Len(x)) \in Seq(Effects)
      /\ EffectsIn(acts, Len(x), Len(y)) \in Seq(Effects)
      /\ EffectsIn(acts, Len(x) + Len(y), Len(z)) \in Seq(Effects)
  <2>1. /\ 0 + Len(x) <= Len(acts) /\ Len(x) + Len(y) <= Len(acts)
        /\ Len(x) + Len(y) + Len(z) <= Len(acts) /\ 0 \in Nat /\ Len(x) + Len(y) \in Nat
    BY <1>1
  <2> QED
    BY <1>1, <2>1, EffectsOfSome
<1>4. /\ CancelDelays(s) \in Seq(Effects) /\ StartDelays(u) \in Seq(Effects)
      /\ InvokeEffects("stopChild", s) \in Seq(Effects)
      /\ InvokeEffects("spawnChild", u) \in Seq(Effects)
  <2>1. {} \in SUBSET ChildIds
    OBVIOUS
  <2> QED
    BY <2>1, DelaysHaveEffects, InvocationsHaveEffects
<1> QED
  BY <1>2, <1>3, <1>4

\* A microstep that moves lists the effects of its actions, delays and invocations.
LEMMA MovingLists ==
    ASSUME m \in Machines, NEW step, NEW i \in DOMAIN m.trans, Moves(m.trans[i])
    PROVE  \E raised : Microstep(step, m.trans[i]) =
              [leaf |-> m.trans[i].target, raised |-> raised,
               effects |-> Strung(step.effects,
                   Moving(step.leaf, m.trans[i].target, m.exit[step.leaf],
                          m.trans[i].actions, m.entry[m.trans[i].target]))]
<1> DEFINE t == m.trans[i]
           s == step.leaf
           u == t.target
           l == Moving(s, u, m.exit[s], t.actions, m.entry[u])
           acts == m.exit[s] \o t.actions \o m.entry[u]
           raised == step.raised \o RaisedBy(acts)
           list == step.effects
                    \o EffectsIn(acts, 0, Len(m.exit[s])) \o CancelDelays(s)
                    \o InvokeEffects("stopChild", s)
                    \o EffectsIn(acts, Len(m.exit[s]), Len(t.actions))
                    \o InvokeEffects("spawnChild", u)
                    \o EffectsIn(acts, Len(m.exit[s]) + Len(t.actions), Len(m.entry[u]))
                    \o StartDelays(u)
<1>1. Microstep(step, t) = [leaf |-> u, raised |-> raised, effects |-> list]
  BY DEF Microstep
<1>2. list = Strung(step.effects, l)
  BY DEF Moving, Strung
<1> HIDE DEF list, raised, l
<1>3. Microstep(step, t) = [leaf |-> u, raised |-> raised, effects |-> Strung(step.effects, l)]
  BY <1>1, <1>2
<1> QED
  BY <1>3 DEF l

\* One that does not lists those of its actions.
LEMMA StayingLists ==
    ASSUME m \in Machines, NEW step, IsStep(step), NEW i \in DOMAIN m.trans,
           ~Moves(m.trans[i])
    PROVE  \E raised : Microstep(step, m.trans[i]) =
              [leaf |-> step.leaf, raised |-> raised,
               effects |-> step.effects \o EffectsOf(m.trans[i].actions)]
<1> DEFINE t == m.trans[i]
           raised == step.raised \o RaisedBy(t.actions)
           list == step.effects \o EffectsOf(t.actions)
<1>1. Microstep(step, t) = [step EXCEPT !.raised = raised, !.effects = list]
  BY DEF Microstep
<1> HIDE DEF raised, list
<1>2. Microstep(step, t) = [leaf |-> step.leaf, raised |-> raised, effects |-> list]
  BY <1>1 DEF IsStep
<1> QED
  BY <1>2 DEF list

\* A microstep leads to a state of the machine and lists effects.
LEMMA MicrostepIsStep ==
    ASSUME m \in Machines, NEW step, IsStep(step), NEW i \in DOMAIN m.trans
    PROVE  IsStep(Microstep(step, m.trans[i]))
<1> DEFINE t == m.trans[i]
           s == step.leaf
           new == Microstep(step, t)
<1>1. s \in States /\ step.effects \in Seq(Effects)
  BY DEF IsStep
<1>2. \A a, b \in Seq(Effects) : a \o b \in Seq(Effects)
  OBVIOUS
<1>3. CASE Moves(t)
  <2> DEFINE u == t.target
             l == Moving(s, u, m.exit[s], t.actions, m.entry[u])
             list == Strung(step.effects, l)
  <2>1. u \in States /\ t.actions \in Seq(Actions)
    BY <1>3, TheTransition
  <2>2. m.exit[s] \in Seq(Actions) /\ m.entry[u] \in Seq(Actions)
    BY <1>1, <2>1, TheStates
  <2>3. \A j \in 1 .. 7 : l[j] \in Seq(Effects)
    <3> HIDE DEF s, t, u
    <3> QED
      BY <1>1, <2>1, <2>2, MovingIsTyped
  <2>4. PICK raised : new = [leaf |-> u, raised |-> raised, effects |-> list]
    BY <1>3, MovingLists
  <2> HIDE DEF l, new, t, u
  <2>5. list \in Seq(Effects)
    BY <1>1, <1>2, <2>3 DEF Strung
  <2> HIDE DEF list
  <2>6. IsStep(new)
    BY <2>1, <2>4, <2>5 DEF IsStep
  <2> QED
    BY <2>6 DEF new, t
<1>4. CASE ~Moves(t)
  <2>1. EffectsOf(t.actions) \in Seq(Effects)
    BY TheTransition, EffectsOfAll
  <2>2. PICK raised : new = [leaf |-> s, raised |-> raised,
                             effects |-> step.effects \o EffectsOf(t.actions)]
    BY <1>4, StayingLists
  <2> DEFINE list == step.effects \o EffectsOf(t.actions)
  <2>3. list \in Seq(Effects)
    BY <1>1, <1>2, <2>1
  <2> HIDE DEF list, new, t, s
  <2>4. new = [leaf |-> s, raised |-> raised, effects |-> list]
    BY <2>2 DEF list
  <2>5. IsStep(new)
    BY <1>1, <2>3, <2>4 DEF IsStep
  <2> QED
    BY <2>5 DEF new, t
<1> QED
  BY <1>3, <1>4

\* The children of the state that is left are stopped, those of the state that is
\* entered are spawned when none of them is registered.
LEMMA MovingOnPlan ==
    ASSUME m \in Machines, Tidy(m), NEW s \in States, NEW u \in States,
           NEW x \in Seq(Actions), x \in ActionLists(m),
           NEW y \in Seq(Actions), y \in ActionLists(m),
           NEW z \in Seq(Actions), z \in ActionLists(m),
           NEW P, NEW Q, LeadsTo(x \o y \o z, P, Q),
           NEW e \in Seq(Effects), NEW R, Clean(e, R), After(e, R) \in SUBSET ChildIds,
           After(e, R) \cap Invoked(m) = ToSet(m.invokes[s]),
           After(e, R) \ Invoked(m) \subseteq P
    PROVE  LET list == Strung(e, Moving(s, u, x, y, z))
           IN /\ Clean(list, R) /\ After(list, R) \in SUBSET ChildIds
              /\ After(list, R) \cap Invoked(m) = ToSet(m.invokes[u])
              /\ After(list, R) \ Invoked(m) \subseteq Q
<1> DEFINE l == Moving(s, u, x, y, z)
           list == Strung(e, l)
           A0 == After(e, R)
           acts == x \o y \o z
           V == Invoked(m)
           inv == ToSet(m.invokes[s])
           next == ToSet(m.invokes[u])
           A1 == After(x, A0)
           A3 == A1 \ inv
           A4 == After(y, A3)
           A5 == A4 \cup next
           A6 == After(z, A5)
           M1 == After(x, P)
           M4 == After(y, M1)
<1>1. /\ acts \in Seq(Actions) /\ Len(x) \in Nat /\ Len(y) \in Nat /\ Len(z) \in Nat
      /\ Len(acts) = Len(x) + Len(y) + Len(z)
      /\ \A j \in 1 .. Len(x) : acts[0 + j] = x[j]
      /\ \A j \in 1 .. Len(y) : acts[Len(x) + j] = y[j]
      /\ \A j \in 1 .. Len(z) : acts[Len(x) + Len(y) + j] = z[j]
  BY ThreeLists
<1>2. Clean(x, P) /\ Clean(y, M1) /\ Clean(z, M4) /\ After(z, M4) \subseteq Q
  <2>1. Clean(acts, P) /\ After(acts, P) \subseteq Q
    BY DEF LeadsTo
  <2> DEFINE xy == x \o y
  <2>2. xy \in Seq(Actions) /\ acts = xy \o z
    OBVIOUS
  <2>3. After(xy, P) = M4 /\ (Clean(xy, P) <=> Clean(x, P) /\ Clean(y, M1))
    BY InParts
  <2> HIDE DEF xy, acts
  <2>4. /\ After(xy \o z, P) = After(z, After(xy, P))
        /\ Clean(xy \o z, P) <=> Clean(xy, P) /\ Clean(z, After(xy, P))
    BY <2>2, InParts
  <2> HIDE DEF M4, M1
  <2> QED
    BY <2>1, <2>2, <2>3, <2>4
<1>3. inv \subseteq V /\ next \subseteq V /\ V \subseteq ChildIds /\ IsInjective(m.invokes[u])
  BY InvokedAreChildren DEF Tidy, States
<1>4. /\ l[1] = EffectsIn(acts, 0, Len(x)) /\ l[2] = CancelDelays(s)
      /\ l[3] = InvokeEffects("stopChild", s) /\ l[4] = EffectsIn(acts, Len(x), Len(y))
      /\ l[5] = InvokeEffects("spawnChild", u)
      /\ l[6] = EffectsIn(acts, Len(x) + Len(y), Len(z)) /\ l[7] = StartDelays(u)
  BY DEF Moving
<1> HIDE DEF acts, l, list, A0
<1> USE DEF A0
<1>5. /\ l[1] \in Seq(Effects) /\ Clean(l[1], A0) /\ After(l[1], A0) = A1
      /\ A1 \in SUBSET ChildIds /\ A1 \cap V = inv /\ A1 \ V \subseteq M1
  <2> HIDE DEF M1
  <2>1. /\ Clean(x, A0) /\ A1 \in SUBSET ChildIds
        /\ A1 \cap V = A0 \cap V /\ A1 \ V \subseteq After(x, P)
    BY <1>2, ActionsFollowPlan
  <2>2. PICK n \in Nat : n = 0
    OBVIOUS
  <2>3. n + Len(x) <= Len(acts) /\ \A j \in 1 .. Len(x) : acts[n + j] = x[j]
    BY <1>1, <2>2
  <2>4. /\ EffectsIn(acts, n, Len(x)) \in Seq(Effects)
        /\ After(EffectsIn(acts, n, Len(x)), A0) = After(x, A0)
        /\ Clean(EffectsIn(acts, n, Len(x)), A0) <=> Clean(x, A0)
    BY <1>1, <2>3, EffectsOfPart
  <2> HIDE DEF V
  <2> QED
    BY <1>4, <2>1, <2>2, <2>4 DEF V, M1
<1> HIDE DEF A1, A0
<1>6. /\ l[2] \in Seq(Effects) /\ Clean(l[2], A1) /\ After(l[2], A1) = A1
  BY <1>4, <1>5, DelaysHaveEffects
<1>7. /\ l[3] \in Seq(Effects) /\ Clean(l[3], A1) /\ After(l[3], A1) = A3
      /\ A3 \in SUBSET ChildIds /\ A3 \cap V = {} /\ A3 \ V \subseteq M1
  <2>1. l[3] \in Seq(Effects) /\ Clean(l[3], A1) /\ After(l[3], A1) = A3
    BY <1>4, <1>5, InvocationsHaveEffects
  <2> HIDE DEF V, inv, M1
  <2>2. A3 \in SUBSET ChildIds /\ A3 \cap V = {} /\ A3 \ V \subseteq M1
    BY <1>5
  <2> QED
    BY <2>1, <2>2
<1> HIDE DEF A3
<1>8. /\ l[4] \in Seq(Effects) /\ Clean(l[4], A3) /\ After(l[4], A3) = A4
      /\ A4 \in SUBSET ChildIds /\ A4 \cap V = {} /\ A4 \ V \subseteq M4
  <2>1. /\ Clean(y, A3) /\ A4 \in SUBSET ChildIds
        /\ A4 \cap V = A3 \cap V /\ A4 \ V \subseteq M4
    <3>1. A3 \in SUBSET ChildIds /\ A3 \ V \subseteq M1 /\ Clean(y, M1)
      BY <1>2, <1>7
    <3> HIDE DEF M1
    <3> QED
      BY <3>1, ActionsFollowPlan
  <2>2. Len(x) + Len(y) <= Len(acts)
    BY <1>1
  <2>3. /\ EffectsIn(acts, Len(x), Len(y)) \in Seq(Effects)
        /\ After(EffectsIn(acts, Len(x), Len(y)), A3) = After(y, A3)
        /\ Clean(EffectsIn(acts, Len(x), Len(y)), A3) <=> Clean(y, A3)
    BY <1>1, <2>2, EffectsOfPart
  <2> HIDE DEF V, M4
  <2> QED
    BY <1>4, <1>7, <2>1, <2>3
<1> HIDE DEF A4
<1>9. /\ l[5] \in Seq(Effects) /\ Clean(l[5], A4) /\ After(l[5], A4) = A5
      /\ A5 \in SUBSET ChildIds /\ A5 \cap V = next /\ A5 \ V \subseteq M4
  <2>1. A4 \cap next = {}
    <3> HIDE DEF V, next
    <3> QED
      BY <1>3, <1>8
  <2>2. l[5] \in Seq(Effects) /\ Clean(l[5], A4) /\ After(l[5], A4) = A5
    BY <1>3, <1>4, <1>8, <2>1, InvocationsHaveEffects
  <2> HIDE DEF V, next, M4
  <2>3. A5 \in SUBSET ChildIds /\ A5 \cap V = next /\ A5 \ V \subseteq M4
    BY <1>3, <1>8
  <2> QED
    BY <2>2, <2>3
<1> HIDE DEF A5
<1>10. /\ l[6] \in Seq(Effects) /\ Clean(l[6], A5) /\ After(l[6], A5) = A6
       /\ A6 \in SUBSET ChildIds /\ A6 \cap V = next /\ A6 \ V \subseteq Q
  <2>1. /\ Clean(z, A5) /\ A6 \in SUBSET ChildIds
        /\ A6 \cap V = A5 \cap V /\ A6 \ V \subseteq After(z, M4)
    <3>1. A5 \in SUBSET ChildIds /\ A5 \ V \subseteq M4 /\ Clean(z, M4)
      BY <1>2, <1>9
    <3> HIDE DEF M4
    <3> QED
      BY <3>1, ActionsFollowPlan
  <2>2. Len(x) + Len(y) + Len(z) <= Len(acts) /\ Len(x) + Len(y) \in Nat
    BY <1>1
  <2>3. /\ EffectsIn(acts, Len(x) + Len(y), Len(z)) \in Seq(Effects)
        /\ After(EffectsIn(acts, Len(x) + Len(y), Len(z)), A5) = After(z, A5)
        /\ Clean(EffectsIn(acts, Len(x) + Len(y), Len(z)), A5) <=> Clean(z, A5)
    BY <1>1, <2>2, EffectsOfPart
  <2> HIDE DEF V, M4, next
  <2> QED
    BY <1>2, <1>4, <1>9, <2>1, <2>3
<1> HIDE DEF A6
<1>11. l[7] \in Seq(Effects) /\ Clean(l[7], A6) /\ After(l[7], A6) = A6
  BY <1>4, <1>10, DelaysHaveEffects
<1>12. Clean(list, R) /\ After(list, R) = A6
  <2> DEFINE e1 == e \o l[1]
             e2 == e1 \o l[2]
             e3 == e2 \o l[3]
             e4 == e3 \o l[4]
             e5 == e4 \o l[5]
             e6 == e5 \o l[6]
             e7 == e6 \o l[7]
  <2>1. e1 \in Seq(Effects) /\ Clean(e1, R) /\ After(e1, R) = A1
    BY <1>5, OneMore DEF A0
  <2> HIDE DEF e1
  <2>2. e2 \in Seq(Effects) /\ Clean(e2, R) /\ After(e2, R) = A1
    BY <1>6, <2>1, OneMore
  <2> HIDE DEF e2
  <2>3. e3 \in Seq(Effects) /\ Clean(e3, R) /\ After(e3, R) = A3
    BY <1>7, <2>2, OneMore
  <2> HIDE DEF e3
  <2>4. e4 \in Seq(Effects) /\ Clean(e4, R) /\ After(e4, R) = A4
    BY <1>8, <2>3, OneMore
  <2> HIDE DEF e4
  <2>5. e5 \in Seq(Effects) /\ Clean(e5, R) /\ After(e5, R) = A5
    BY <1>9, <2>4, OneMore
  <2> HIDE DEF e5
  <2>6. e6 \in Seq(Effects) /\ Clean(e6, R) /\ After(e6, R) = A6
    BY <1>10, <2>5, OneMore
  <2> HIDE DEF e6
  <2>7. e7 \in Seq(Effects) /\ Clean(e7, R) /\ After(e7, R) = A6
    BY <1>11, <2>6, OneMore
  <2>8. list = e7
    BY DEF list, Strung, e1, e2, e3, e4, e5, e6
  <2> HIDE DEF e7
  <2> QED
    BY <2>7, <2>8
<1> QED
  BY <1>10, <1>12 DEF list, l

\* A microstep follows the plan.
LEMMA MicrostepOnPlan ==
    ASSUME m \in Machines, Tidy(m), NEW step, IsStep(step), NEW i \in DOMAIN m.trans,
           m.trans[i].from \in {step.leaf, Top}, NEW R, OnPlan(step, R)
    PROVE  OnPlan(Microstep(step, m.trans[i]), R)
<1> DEFINE t == m.trans[i]
           s == step.leaf
           new == Microstep(step, t)
           V == Invoked(m)
           P == Plan(m)
           A0 == After(step.effects, R)
<1>1. s \in States /\ step.effects \in Seq(Effects)
  BY DEF IsStep
<1>2. /\ Clean(step.effects, R) /\ A0 \in SUBSET ChildIds
      /\ A0 \cap V = ToSet(m.invokes[s]) /\ A0 \ V \subseteq P[s]
  BY DEF OnPlan, Manned
<1>3. IsPlan(m, P)
  BY PlanIsPlan
<1>4. IF Moves(t) THEN LeadsTo(m.exit[s] \o t.actions \o m.entry[t.target], P[s], P[t.target])
                  ELSE LeadsTo(t.actions, P[s], P[s])
  <2>1. t.from \in {s, Top}
    OBVIOUS
  <2> HIDE DEF P, s
  <2> QED
    BY <1>1, <1>3, <2>1 DEF IsPlan, States
<1>5. CASE Moves(t)
  <2> DEFINE u == t.target
             x == m.exit[s]
             y == t.actions
             z == m.entry[u]
             list == Strung(step.effects, Moving(s, u, x, y, z))
  <2>1. u \in States /\ y \in Seq(Actions) /\ y \in ActionLists(m)
    BY <1>5, TheTransition
  <2>2. /\ x \in Seq(Actions) /\ x \in ActionLists(m)
        /\ z \in Seq(Actions) /\ z \in ActionLists(m)
    BY <1>1, <2>1, TheStates
  <2>3. PICK raised : new = [leaf |-> u, raised |-> raised, effects |-> list]
    BY <1>5, MovingLists
  <2>4. LeadsTo(x \o y \o z, P[s], P[u])
    BY <1>4, <1>5
  <2> HIDE DEF x, y, z, u, s, P, new
  <2>5. /\ Clean(list, R) /\ After(list, R) \in SUBSET ChildIds
        /\ After(list, R) \cap Invoked(m) = ToSet(m.invokes[u])
        /\ After(list, R) \ Invoked(m) \subseteq P[u]
    BY <1>1, <1>2, <2>1, <2>2, <2>4, MovingOnPlan
  <2> HIDE DEF list
  <2>6. new.leaf = u /\ new.effects = list
    BY <2>3
  <2>7. OnPlan(new, R)
    BY <2>5, <2>6 DEF OnPlan, Manned, P
  <2> QED
    BY <2>7 DEF new
<1>6. CASE ~Moves(t)
  <2> DEFINE y == t.actions
             A1 == After(y, A0)
             list == step.effects \o EffectsOf(y)
  <2>1. y \in Seq(Actions) /\ y \in ActionLists(m)
    BY TheTransition
  <2>2. Clean(y, P[s]) /\ After(y, P[s]) \subseteq P[s]
    BY <1>4, <1>6 DEF LeadsTo
  <2>3. PICK raised : new = [leaf |-> s, raised |-> raised, effects |-> list]
    BY <1>6, StayingLists
  <2> HIDE DEF y, new, P, s
  <2>4. /\ Clean(y, A0) /\ A1 \in SUBSET ChildIds
        /\ A1 \cap V = A0 \cap V /\ A1 \ V \subseteq After(y, P[s])
    BY <1>2, <2>1, <2>2, ActionsFollowPlan
  <2>5. /\ EffectsOf(y) \in Seq(Effects) /\ Clean(EffectsOf(y), A0)
        /\ After(EffectsOf(y), A0) = A1
    BY <2>1, <2>4, EffectsOfAll
  <2>6. Clean(list, R) /\ After(list, R) = A1
    BY <1>1, <1>2, <2>5, InParts
  <2> HIDE DEF list, A1
  <2>7. new.leaf = s /\ new.effects = list
    BY <2>3
  <2> HIDE DEF V, A0
  <2>8. /\ A1 \in SUBSET ChildIds /\ A1 \cap V = ToSet(m.invokes[s]) /\ A1 \ V \subseteq P[s]
    BY <1>2, <2>2, <2>4
  <2>9. OnPlan(new, R)
    BY <2>6, <2>7, <2>8 DEF OnPlan, Manned, P, V
  <2> QED
    BY <2>9 DEF new
<1> QED
  BY <1>5, <1>6

\* A state has transitions of its own and those of the root.
LEMMA OneOfTheCandidates ==
    ASSUME m \in Machines, NEW s, NEW e, Candidates(s, e) # {}
    PROVE  /\ Min(Candidates(s, e)) \in DOMAIN m.trans
           /\ m.trans[Min(Candidates(s, e))].from \in {s, Top}
<1> DEFINE ways == Candidates(s, e)
<1>1. \A i \in ways : i \in DOMAIN m.trans /\ m.trans[i].from \in {s, Top}
  BY DEF Candidates, TransitionsOf
<1>2. DOMAIN m.trans \subseteq Nat
  <2>1. m.trans \in Seq(Transitions(States))
    BY TheMachine
  <2> QED
    BY <2>1
<1> HIDE DEF ways
<1>3. ways \in SUBSET Nat
  BY <1>1, <1>2
<1>4. Min(ways) \in ways
  BY <1>3, MinIsOne DEF ways
<1> QED
  BY <1>1, <1>4 DEF ways

\* Taking a raised event keeps what is known of a macrostep.
LEMMA SettleKeeps ==
    ASSUME m \in Machines, NEW step, IsStep(step)
    PROVE  /\ IsStep(Settle(step))
           /\ \A R : Tidy(m) /\ OnPlan(step, R) => OnPlan(Settle(step), R)
<1> DEFINE rest == [step EXCEPT !.raised = Tail(@)]
           e == Head(step.raised)
           ways == Candidates(step.leaf, e)
           i == Min(ways)
<1>1. /\ rest.leaf = step.leaf /\ rest.effects = step.effects
      /\ rest = [leaf |-> rest.leaf, raised |-> rest.raised, effects |-> rest.effects]
  <2> DEFINE tail == Tail(step.raised)
  <2>1. rest = [step EXCEPT !.raised = tail]
    OBVIOUS
  <2> HIDE DEF tail, rest
  <2>2. rest = [leaf |-> step.leaf, raised |-> tail, effects |-> step.effects]
    BY <2>1 DEF IsStep
  <2> QED
    BY <2>2
<1>2. Settle(step) = IF Settled(step) THEN step
                     ELSE IF ways = {} THEN rest ELSE Microstep(rest, m.trans[i])
  BY DEF Settle
<1> HIDE DEF rest
<1>3. IsStep(rest) /\ \A R : OnPlan(step, R) => OnPlan(rest, R)
  BY <1>1 DEF IsStep, OnPlan
<1>4. ASSUME ways # {} PROVE i \in DOMAIN m.trans /\ m.trans[i].from \in {step.leaf, Top}
  BY <1>4, OneOfTheCandidates
<1> HIDE DEF ways, i
<1>5. ASSUME ways # {}
      PROVE  /\ IsStep(Microstep(rest, m.trans[i]))
             /\ \A R : Tidy(m) /\ OnPlan(step, R) => OnPlan(Microstep(rest, m.trans[i]), R)
  <2>1. i \in DOMAIN m.trans /\ m.trans[i].from \in {rest.leaf, Top}
    BY <1>1, <1>4, <1>5
  <2>2. IsStep(Microstep(rest, m.trans[i]))
    BY <1>3, <2>1, MicrostepIsStep
  <2>3. ASSUME NEW R, Tidy(m), OnPlan(step, R) PROVE OnPlan(Microstep(rest, m.trans[i]), R)
    BY <1>3, <2>1, <2>3, MicrostepOnPlan
  <2> QED
    BY <2>2, <2>3
<1> QED
  BY <1>2, <1>3, <1>5

\* So does a macrostep until it settles.
LEMMA StabilizeKeeps ==
    ASSUME m \in Machines, NEW step, IsStep(step)
    PROVE  /\ IsStep(Stabilize(step))
           /\ \A R : Tidy(m) /\ OnPlan(step, R) => OnPlan(Stabilize(step), R)
<1> DEFINE Kept(new) == IsStep(new) /\ \A R : Tidy(m) /\ OnPlan(step, R) => OnPlan(new, R)
<1>1. PICK f : /\ f[0] = step
               /\ \A n \in 1 .. StepLimit : f[n] = Settle(f[n - 1])
               /\ Stabilize(step) = f[StepLimit]
  BY Settling
<1> DEFINE Bad == {n \in 0 .. StepLimit : ~Kept(f[n])}
<1>2. Kept(step)
  OBVIOUS
<1>3. ASSUME NEW new, Kept(new) PROVE Kept(Settle(new))
  BY <1>3, SettleKeeps
<1> HIDE DEF Kept
<1>4. Bad = {}
  <2> SUFFICES ASSUME Bad # {} PROVE FALSE
    OBVIOUS
  <2>1. Bad \in SUBSET Nat
    BY NamesAssumption
  <2>2. PICK n \in Bad : \A k \in Bad : n <= k
    <3> HIDE DEF Bad
    <3> QED
      BY <2>1, Least
  <2>3. n \in 0 .. StepLimit /\ ~Kept(f[n]) /\ n \in Nat /\ StepLimit \in Nat
    BY <2>1, <2>2, NamesAssumption
  <2>4. n # 0
    BY <1>1, <1>2, <2>3
  <2>5. n \in 1 .. StepLimit /\ n - 1 \in 0 .. StepLimit /\ ~(n <= n - 1)
    BY <2>3, <2>4
  <2>6. Kept(f[n - 1])
    BY <2>2, <2>5
  <2>7. Kept(f[n])
    BY <1>1, <1>3, <2>5, <2>6
  <2> QED
    BY <2>3, <2>7
<1>5. Kept(f[StepLimit])
  BY <1>4, NamesAssumption
<1> QED
  BY <1>1, <1>5 DEF Kept

\* Two lists of actions do what the plan says when one after the other does.
LEMMA TwoListsFollowPlan ==
    ASSUME m \in Machines, Tidy(m), NEW x \in ActionLists(m), x \in Seq(Actions),
           NEW y \in ActionLists(m), y \in Seq(Actions),
           NEW R \in SUBSET ChildIds, NEW M, R \ Invoked(m) \subseteq M, Clean(x \o y, M)
    PROVE  /\ EffectsOf(x \o y) \in Seq(Effects)
           /\ Clean(EffectsOf(x \o y), R)
           /\ After(EffectsOf(x \o y), R) \in SUBSET ChildIds
           /\ After(EffectsOf(x \o y), R) \cap Invoked(m) = R \cap Invoked(m)
           /\ After(EffectsOf(x \o y), R) \ Invoked(m) \subseteq After(x \o y, M)
<1> DEFINE A == After(x, R)
           B == After(y, A)
           M1 == After(x, M)
<1>1. Clean(x, M) /\ Clean(y, M1) /\ After(x \o y, M) = After(y, M1)
  BY InParts
<1>2. /\ Clean(x, R) /\ A \in SUBSET ChildIds /\ A \cap Invoked(m) = R \cap Invoked(m)
      /\ A \ Invoked(m) \subseteq M1
  BY <1>1, ActionsFollowPlan
<1> HIDE DEF A, M1
<1>3. /\ Clean(y, A) /\ B \in SUBSET ChildIds /\ B \cap Invoked(m) = A \cap Invoked(m)
      /\ B \ Invoked(m) \subseteq After(y, M1)
  BY <1>1, <1>2, ActionsFollowPlan
<1>4. x \o y \in Seq(Actions) /\ Clean(x \o y, R) /\ After(x \o y, R) = B
  BY <1>2, <1>3, InParts DEF A
<1>5. /\ EffectsOf(x \o y) \in Seq(Effects) /\ Clean(EffectsOf(x \o y), R)
      /\ After(EffectsOf(x \o y), R) = B
  BY <1>4, EffectsOfAll
<1> HIDE DEF B
<1> QED
  BY <1>1, <1>2, <1>3, <1>5

\* The machine enters its initial state when no child is registered.
LEMMA InitialStepKeeps ==
    ASSUME m \in Machines
    PROVE  IsStep(InitialStep) /\ (Tidy(m) => OnPlan(InitialStep, {}))
<1> DEFINE u == m.initial
           x == m.entry[Top]
           y == m.entry[u]
           e1 == InvokeEffects("spawnChild", u)
           e2 == e1 \o EffectsOf(x \o y)
           e3 == e2 \o StartDelays(u)
           inv == ToSet(m.invokes[u])
<1>1. u \in States /\ {} \in SUBSET ChildIds
  BY TheMachine
<1>2. /\ x \in Seq(Actions) /\ x \in ActionLists(m)
      /\ y \in Seq(Actions) /\ y \in ActionLists(m)
  BY <1>1, TheStates
<1>3. e1 \in Seq(Effects) /\ StartDelays(u) \in Seq(Effects)
  BY <1>1, InvocationsHaveEffects, DelaysHaveEffects
<1>4. InitialStep = [leaf |-> u, raised |-> RaisedBy(x \o y), effects |-> e3]
  BY DEF InitialStep
<1>5. EffectsOf(x \o y) \in Seq(Effects)
  <2> HIDE DEF x, y
  <2>1. x \o y \in Seq(Actions)
    BY <1>2
  <2> QED
    BY <2>1, EffectsOfAll
<1> HIDE DEF x, y, e1
<1>6. e3 \in Seq(Effects)
  BY <1>3, <1>5
<1>7. IsStep(InitialStep)
  <2> HIDE DEF e3, u
  <2> DEFINE r == RaisedBy(x \o y)
  <2> HIDE DEF r
  <2>1. InitialStep = [leaf |-> u, raised |-> r, effects |-> e3]
    BY <1>4 DEF r
  <2> QED
    BY <1>1, <1>6, <2>1 DEF IsStep
<1>8. ASSUME Tidy(m) PROVE OnPlan(InitialStep, {})
  <2> DEFINE A == After(e2, {})
             P == Plan(m)
  <2>1. LeadsTo(x \o y, {}, P[u])
    BY <1>8, PlanIsPlan DEF IsPlan, x, y
  <2>2. inv \subseteq Invoked(m) /\ Invoked(m) \subseteq ChildIds /\ IsInjective(m.invokes[u])
    BY <1>1, <1>8, InvokedAreChildren DEF Tidy, States
  <2>3. Clean(e1, {}) /\ After(e1, {}) = inv
    <3>1. {} \cap inv = {} /\ {} \cup inv = inv
      OBVIOUS
    <3> QED
      BY <1>1, <2>2, <3>1, InvocationsHaveEffects DEF e1
  <2> HIDE DEF inv, u, P
  <2>4. /\ Clean(EffectsOf(x \o y), inv)
        /\ After(EffectsOf(x \o y), inv) \in SUBSET ChildIds
        /\ After(EffectsOf(x \o y), inv) \cap Invoked(m) = inv
        /\ After(EffectsOf(x \o y), inv) \ Invoked(m) \subseteq P[u]
    <3>1. Clean(x \o y, {}) /\ After(x \o y, {}) \subseteq P[u]
      BY <2>1 DEF LeadsTo
    <3>2. inv \in SUBSET ChildIds /\ inv \ Invoked(m) \subseteq {} /\ inv \cap Invoked(m) = inv
      BY <2>2
    <3>3. /\ Clean(EffectsOf(x \o y), inv)
          /\ After(EffectsOf(x \o y), inv) \in SUBSET ChildIds
          /\ After(EffectsOf(x \o y), inv) \cap Invoked(m) = inv \cap Invoked(m)
          /\ After(EffectsOf(x \o y), inv) \ Invoked(m) \subseteq After(x \o y, {})
      BY <1>2, <1>8, <3>1, <3>2, TwoListsFollowPlan
    <3> QED
      BY <3>1, <3>2, <3>3
  <2> DEFINE ef == EffectsOf(x \o y)
  <2>5. ef \in Seq(Effects) /\ Clean(ef, After(e1, {}))
    BY <1>5, <2>3, <2>4
  <2> HIDE DEF ef
  <2>6. e1 \o ef \in Seq(Effects) /\ Clean(e1 \o ef, {}) /\ After(e1 \o ef, {}) = After(ef, inv)
    BY <1>3, <2>3, <2>5, OneMore
  <2>7. e2 \in Seq(Effects) /\ Clean(e2, {}) /\ A = After(EffectsOf(x \o y), inv)
    BY <2>6 DEF ef
  <2> HIDE DEF A, e2
  <2>8. A \in SUBSET ChildIds
    BY <2>4, <2>7
  <2>9. Clean(StartDelays(u), A) /\ After(StartDelays(u), A) = A
    BY <1>1, <2>8, DelaysHaveEffects
  <2>10. Clean(e3, {}) /\ After(e3, {}) = A
    BY <1>3, <2>7, <2>9, OneMore DEF A
  <2> HIDE DEF e3
  <2>11. InitialStep.leaf = u /\ InitialStep.effects = e3
    BY <1>4
  <2>12. Manned(m, u, A)
    BY <2>4, <2>7 DEF Manned, P, inv
  <2> QED
    BY <2>10, <2>11, <2>12 DEF OnPlan
<1> QED
  BY <1>7, <1>8

\* What a machine does on its way out of a state whose children are registered.
LEMMA ExitingKeeps ==
    ASSUME m \in Machines, NEW s \in States
    PROVE  /\ ExitActions(s) \in Seq(Effects)
           /\ \A R \in SUBSET ChildIds : Tidy(m) /\ Manned(m, s, R) =>
                 Clean(ExitActions(s), R) /\ After(ExitActions(s), R) \in SUBSET ChildIds
           /\ Tidy(m) => Clean(ExitActions(s), {})
<1> DEFINE x == m.exit[s]
           y == m.exit[Top]
           P == Plan(m)
<1>1. /\ x \in Seq(Actions) /\ x \in ActionLists(m)
      /\ y \in Seq(Actions) /\ y \in ActionLists(m)
  BY TheStates
<1>2. x \o y \in Seq(Actions)
  <2> HIDE DEF x, y
  <2> QED
    BY <1>1
<1>3. ExitActions(s) = EffectsOf(x \o y)
  BY DEF ExitActions
<1>4. Tidy(m) => Clean(x \o y, P[s])
  BY PlanIsPlan DEF IsPlan, States
<1> HIDE DEF x, y
<1>5. ExitActions(s) \in Seq(Effects)
  BY <1>2, <1>3, EffectsOfAll
<1>6. ASSUME NEW R \in SUBSET ChildIds, Tidy(m), R \ Invoked(m) \subseteq P[s]
      PROVE  Clean(ExitActions(s), R) /\ After(ExitActions(s), R) \in SUBSET ChildIds
  BY <1>1, <1>3, <1>4, <1>6, TwoListsFollowPlan
<1> QED
  BY <1>5, <1>6 DEF Manned

\* A macrostep leads to a state of the machine and lists effects; from a state
\* whose children are registered to another one, unless the machine is done.
LEMMA MacrostepKeeps ==
    ASSUME m \in Machines, NEW step, IsStep(step)
    PROVE  LET new == Macrostep(step)
           IN /\ IsStep(new)
              /\ \A R : Tidy(m) /\ OnPlan(step, R) =>
                    /\ Clean(new.effects, R)
                    /\ new.leaf \notin m.final => OnPlan(new, R)
<1> DEFINE mid == Stabilize(step)
           s == mid.leaf
           new == Macrostep(step)
           e1 == mid.effects
           e2 == e1 \o ExitActions(s)
           e3 == e2 \o CancelDelays(s)
           e4 == e3 \o InvokeEffects("stopChild", s)
<1>1. IsStep(mid) /\ \A R : Tidy(m) /\ OnPlan(step, R) => OnPlan(mid, R)
  BY StabilizeKeeps
<1>2. s \in States /\ e1 \in Seq(Effects)
  BY <1>1 DEF IsStep
<1>3. CASE s \notin m.final
  <2>1. new = mid
    BY <1>3 DEF Macrostep, FinishIfDone
  <2> HIDE DEF new, mid
  <2> QED
    BY <1>1, <2>1 DEF OnPlan, new
<1>4. CASE s \in m.final
  <2>1. new = [mid EXCEPT !.effects = e4]
    BY <1>4 DEF Macrostep, FinishIfDone
  <2> HIDE DEF new, mid, e4
  <2>2. /\ new.leaf = s /\ new.effects = e4
        /\ new = [leaf |-> new.leaf, raised |-> new.raised, effects |-> new.effects]
    BY <1>1, <2>1 DEF IsStep
  <2>3. ExitActions(s) \in Seq(Effects)
    BY <1>2, ExitingKeeps
  <2>4. CancelDelays(s) \in Seq(Effects) /\ InvokeEffects("stopChild", s) \in Seq(Effects)
    <3>1. {} \in SUBSET ChildIds
      OBVIOUS
    <3> QED
      BY <1>2, <3>1, DelaysHaveEffects, InvocationsHaveEffects
  <2> HIDE DEF s, e1
  <2>5. e2 \in Seq(Effects) /\ e3 \in Seq(Effects) /\ e4 \in Seq(Effects)
    BY <1>2, <2>3, <2>4 DEF e4
  <2>6. IsStep(new)
    BY <1>2, <2>2, <2>5 DEF IsStep
  <2>7. ASSUME NEW R, Tidy(m), OnPlan(step, R) PROVE Clean(e4, R)
    <3> DEFINE A1 == After(e1, R)
               A2 == After(ExitActions(s), A1)
    <3>1. Clean(e1, R) /\ Manned(m, s, A1)
      BY <1>1, <2>7 DEF OnPlan, s, e1
    <3>2. A1 \in SUBSET ChildIds
      BY <3>1 DEF Manned
    <3> HIDE DEF A1
    <3>3. Clean(ExitActions(s), A1) /\ A2 \in SUBSET ChildIds
      BY <1>2, <2>7, <3>1, <3>2, ExitingKeeps
    <3>4. Clean(e2, R) /\ After(e2, R) = A2
      BY <1>2, <2>3, <3>1, <3>3, OneMore DEF A1
    <3> HIDE DEF A2, e2
    <3>5. Clean(CancelDelays(s), A2) /\ After(CancelDelays(s), A2) = A2
      BY <1>2, <3>3, DelaysHaveEffects
    <3>6. Clean(e3, R) /\ After(e3, R) = A2
      BY <2>4, <2>5, <3>4, <3>5, OneMore
    <3> HIDE DEF e3
    <3>7. Clean(InvokeEffects("stopChild", s), A2)
      BY <1>2, <3>3, InvocationsHaveEffects
    <3> QED
      BY <2>4, <2>5, <3>6, <3>7, OneMore DEF e4
  <2> QED
    BY <1>4, <2>2, <2>6, <2>7 DEF new
<1> QED
  BY <1>3, <1>4

-----------------------------------------------------------------------------
(* The actor that executes effects *)

\* Its tasks, timers and children; nobody posts a second start to the machine.
Tasks == {t \in [to : {Self} \cup Objects, event : Messages] : t.to = Self => t.event # Start}
Timers == [id : Ids, event : Messages \ {Start}, to : ChildIds \cup {NoName}, left : Nat]
Kids == [id : ChildIds \cup {NoName}, status : Statuses, from : Statuses]

IsShell(sh) ==
    /\ sh = [timers |-> sh.timers, children |-> sh.children, object |-> sh.object,
             mailbox |-> sh.mailbox, heard |-> sh.heard, room |-> sh.room]
    /\ sh.timers \in Seq(Timers)
    /\ sh.children \in [ChildIds -> Objects \cup {NoObject}]
    /\ sh.object \in [Objects -> Kids]
    /\ sh.mailbox \in Seq(Tasks)
    /\ sh.heard \in SUBSET ChildIds
    /\ sh.room \in BOOLEAN

\* The objects somebody refers to, and the children that are registered.
Alive(sh) == Objects \cap Referred(sh)
Registered(sh) == {c \in ChildIds : sh.children[c] # NoObject}

\* A child is registered under its own id.
Sound(sh) ==
    /\ \A c \in Registered(sh) : sh.object[sh.children[c]].id = c
    /\ \A o \in Alive(sh) : sh.object[o].id \in ChildIds
\* A registered child that is done was heard of, or its report waits.
Told(sh) ==
    \A c \in Registered(sh) : sh.object[sh.children[c]].status = "done"
        => c \in sh.heard \/ Task(Self, DoneActor(c)) \in ToSet(sh.mailbox)
\* A child that is not registered is about to be stopped.
Owned(sh) ==
    \A o \in Alive(sh) : sh.object[o].status \in {"none", "active"}
        => sh.children[sh.object[o].id] = o \/ Task(o, Stop) \in ToSet(sh.mailbox)

\* Nobody is posted to who is not there.
LEMMA NamesApart ==
    /\ Self \notin Objects /\ NoObject \notin Objects /\ Self # NoObject
    /\ NoName \notin ChildIds
BY NamesAssumption DEF Self, NoObject

\* The registered children are alive.
LEMMA RegisteredAreAlive ==
    ASSUME NEW sh, IsShell(sh), NEW c \in Registered(sh)
    PROVE  sh.children[c] \in Alive(sh)
BY DEF IsShell, Registered, Alive, Referred

\* The tasks of a mailbox with another task behind, and without the first.
LEMMA Queued ==
    ASSUME NEW S, NEW q \in Seq(S), NEW t
    PROVE  /\ ToSet(Append(q, t)) = ToSet(q) \cup {t}
           /\ q # <<>> => /\ Head(q) \in S /\ Tail(q) \in Seq(S)
                          /\ ToSet(q) = {Head(q)} \cup ToSet(Tail(q))
<1>1. ToSet(Append(q, t)) = ToSet(q) \cup {t}
  <2>1. /\ DOMAIN Append(q, t) = 1 .. Len(q) + 1 /\ DOMAIN q = 1 .. Len(q) /\ Len(q) \in Nat
        /\ \A i \in 1 .. Len(q) : Append(q, t)[i] = q[i]
        /\ Append(q, t)[Len(q) + 1] = t
    OBVIOUS
  <2> DEFINE a == Append(q, t)
  <2> HIDE DEF a
  <2>2. ASSUME NEW y \in ToSet(a) PROVE y \in ToSet(q) \cup {t}
    <3>1. PICK i \in 1 .. Len(q) + 1 : y = a[i]
      BY <2>1 DEF ToSet, a
    <3>2. i \in 1 .. Len(q) \/ i = Len(q) + 1
      BY <2>1
    <3> QED
      BY <2>1, <3>1, <3>2 DEF ToSet, a
  <2>3. ASSUME NEW y \in ToSet(q) \cup {t} PROVE y \in ToSet(a)
    <3>1. \A i \in 1 .. Len(q) : i \in 1 .. Len(q) + 1
      BY <2>1
    <3>2. Len(q) + 1 \in 1 .. Len(q) + 1
      BY <2>1
    <3> QED
      BY <2>1, <3>1, <3>2 DEF ToSet, a
  <2>4. ToSet(a) = ToSet(q) \cup {t}
    BY <2>2, <2>3
  <2> QED
    BY <2>4 DEF a
<1>2. ASSUME q # <<>>
      PROVE  Head(q) \in S /\ Tail(q) \in Seq(S) /\ ToSet(q) = {Head(q)} \cup ToSet(Tail(q))
  <2> DEFINE r == Tail(q)
             h == Head(q)
  <2>1. /\ Len(q) \in Nat /\ Len(q) > 0 /\ DOMAIN q = 1 .. Len(q)
        /\ DOMAIN r = 1 .. Len(q) - 1 /\ h = q[1]
        /\ \A i \in 1 .. Len(q) - 1 : r[i] = q[i + 1]
    BY <1>2
  <2> HIDE DEF r, h
  <2>2. ASSUME NEW y \in ToSet(q) PROVE y \in {h} \cup ToSet(r)
    <3>1. PICK i \in 1 .. Len(q) : y = q[i]
      BY <2>1 DEF ToSet
    <3>2. CASE i = 1
      BY <2>1, <3>1, <3>2
    <3>3. CASE i # 1
      <4>1. i - 1 \in 1 .. Len(q) - 1 /\ i - 1 + 1 = i
        BY <2>1, <3>3
      <4> QED
        BY <2>1, <3>1, <4>1 DEF ToSet
    <3> QED
      BY <3>2, <3>3
  <2>3. ASSUME NEW y \in {h} \cup ToSet(r) PROVE y \in ToSet(q)
    <3>1. \A i \in 1 .. Len(q) - 1 : i + 1 \in 1 .. Len(q)
      BY <2>1
    <3>2. 1 \in 1 .. Len(q)
      BY <2>1
    <3> QED
      BY <2>1, <3>1, <3>2 DEF ToSet
  <2>4. ToSet(q) = {h} \cup ToSet(r)
    BY <2>2, <2>3
  <2>5. h \in S /\ r \in Seq(S)
    BY <1>2 DEF h, r
  <2> QED
    BY <2>4, <2>5 DEF h, r
<1> QED
  BY <1>1, <1>2

\* What is posted to somebody who is alive.
LEMMA Posting ==
    ASSUME NEW sh, IsShell(sh), NEW to \in {Self, NoObject} \cup Alive(sh),
           NEW event \in Messages, to = Self => event # Start
    PROVE  LET new == Post(sh, to, event)
           IN /\ IsShell(new)
              /\ new.timers = sh.timers /\ new.children = sh.children /\ new.object = sh.object
              /\ new.heard = sh.heard /\ new.room = sh.room
              /\ ToSet(sh.mailbox) \subseteq ToSet(new.mailbox)
              /\ to # NoObject => Task(to, event) \in ToSet(new.mailbox)
              /\ Alive(new) = Alive(sh)
<1>1. CASE to = NoObject
  <2>1. Post(sh, to, event) = sh
    BY <1>1 DEF Post
  <2> QED
    BY <1>1, <2>1
<1>2. CASE to # NoObject
  <2> DEFINE t == Task(to, event)
             q == Append(sh.mailbox, t)
             new == [sh EXCEPT !.mailbox = q]
  <2>1. t \in Tasks
    BY <1>2 DEF Task, Tasks, Alive
  <2>2. q \in Seq(Tasks) /\ ToSet(q) = ToSet(sh.mailbox) \cup {t} /\ t.to = to
    BY <2>1, Queued DEF IsShell, Task
  <2>3. Post(sh, to, event) = new
    BY <1>2 DEF Post
  <2> HIDE DEF t, q, new
  <2>4. new = [timers |-> sh.timers, children |-> sh.children, object |-> sh.object,
               mailbox |-> q, heard |-> sh.heard, room |-> sh.room]
    <3>1. sh = [timers |-> sh.timers, children |-> sh.children, object |-> sh.object,
                mailbox |-> sh.mailbox, heard |-> sh.heard, room |-> sh.room]
      BY DEF IsShell
    <3> QED
      BY <3>1 DEF new
  <2>5. IsShell(new)
    BY <2>2, <2>4 DEF IsShell
  <2>6. Alive(new) = Alive(sh)
    <3>1. Referred(new) = Referred(sh) \cup {to}
      <4>1. {x.to : x \in ToSet(q)} = {x.to : x \in ToSet(sh.mailbox)} \cup {to}
        <5>1. \A P : {x.to : x \in P \cup {t}} = {x.to : x \in P} \cup {t.to}
          OBVIOUS
        <5> QED
          BY <2>2, <5>1
      <4>2. new.children = sh.children /\ new.mailbox = q
        BY <2>4
      <4> QED
        BY <4>1, <4>2 DEF Referred
    <3> QED
      BY <1>2, <3>1, NamesApart DEF Alive
  <2> QED
    <3>1. ToSet(sh.mailbox) \subseteq ToSet(q) /\ t \in ToSet(q) /\ t = Task(to, event)
      BY <2>2 DEF t
    <3>2. /\ new.timers = sh.timers /\ new.children = sh.children /\ new.object = sh.object
          /\ new.heard = sh.heard /\ new.room = sh.room /\ new.mailbox = q
      BY <2>4
    <3> QED
      BY <2>3, <2>5, <2>6, <3>1, <3>2
<1> QED
  BY <1>1, <1>2

\* It keeps what is known of children.
LEMMA PostingKeeps ==
    ASSUME NEW sh, IsShell(sh), Sound(sh), NEW to \in {Self, NoObject} \cup Alive(sh),
           NEW event \in Messages, to = Self => event # Start
    PROVE  LET new == Post(sh, to, event)
           IN /\ Sound(new) /\ (Told(sh) => Told(new)) /\ (Owned(sh) => Owned(new))
              /\ Registered(new) = Registered(sh)
<1> DEFINE new == Post(sh, to, event)
<1>1. /\ new.children = sh.children /\ new.object = sh.object /\ new.heard = sh.heard
      /\ ToSet(sh.mailbox) \subseteq ToSet(new.mailbox) /\ Alive(new) = Alive(sh)
  BY Posting
<1> HIDE DEF new
<1>2. Registered(new) = Registered(sh)
  BY <1>1 DEF Registered
<1>3. Sound(new)
  BY <1>1, <1>2 DEF Sound
<1>4. Told(sh) => Told(new)
  BY <1>1, <1>2 DEF Told
<1>5. Owned(sh) => Owned(new)
  BY <1>1, <1>2 DEF Owned
<1> QED
  BY <1>2, <1>3, <1>4, <1>5 DEF new

\* Without an element a list is one of the same elements, with one more too.
LEMMA TakenOut ==
    ASSUME NEW S, NEW q \in Seq(S), NEW i \in DOMAIN q
    PROVE  RemoveAt(q, i) \in Seq(S)
<1>1. Len(q) \in Nat /\ i \in 1 .. Len(q) /\ \A j \in 1 .. Len(q) : q[j] \in S
  OBVIOUS
<1>2. SubSeq(q, 1, i - 1) \in Seq(S)
  <2>1. \A j \in 1 .. i - 1 : q[j] \in S
    BY <1>1
  <2>2. 1 \in Int /\ i - 1 \in Int
    BY <1>1
  <2> QED
    BY <2>1, <2>2, SubSeqProperties
<1>3. SubSeq(q, i + 1, Len(q)) \in Seq(S)
  <2>1. \A j \in i + 1 .. Len(q) : q[j] \in S
    BY <1>1
  <2>2. i + 1 \in Int /\ Len(q) \in Int
    BY <1>1
  <2> QED
    BY <2>1, <2>2, SubSeqProperties
<1>4. \A a, b \in Seq(S) : a \o b \in Seq(S)
  OBVIOUS
<1> QED
  BY <1>2, <1>3, <1>4 DEF RemoveAt

\* With one more.
LEMMA PutIn ==
    ASSUME NEW S, NEW q \in Seq(S), NEW i \in DOMAIN q, NEW x \in S
    PROVE  InsertAt(q, i, x) \in Seq(S)
<1>1. Len(q) \in Nat /\ i \in 1 .. Len(q) /\ \A j \in 1 .. Len(q) : q[j] \in S
  OBVIOUS
<1>2. SubSeq(q, 1, i - 1) \in Seq(S)
  <2>1. \A j \in 1 .. i - 1 : q[j] \in S
    BY <1>1
  <2>2. 1 \in Int /\ i - 1 \in Int
    BY <1>1
  <2> QED
    BY <2>1, <2>2, SubSeqProperties
<1>3. SubSeq(q, i, Len(q)) \in Seq(S)
  <2>1. \A j \in i .. Len(q) : q[j] \in S
    BY <1>1
  <2>2. i \in Int /\ Len(q) \in Int
    BY <1>1
  <2> QED
    BY <2>1, <2>2, SubSeqProperties
<1>4. \A a, b \in Seq(S) : a \o b \in Seq(S)
  OBVIOUS
<1>5. <<x>> \in Seq(S)
  OBVIOUS
<1> QED
  BY <1>2, <1>3, <1>4, <1>5 DEF InsertAt

\* Shells that differ in their timers know the same children.
LEMMA OtherTimers ==
    ASSUME NEW sh, IsShell(sh), Sound(sh), NEW timing \in Seq(Timers)
    PROVE  LET new == [sh EXCEPT !.timers = timing]
           IN /\ IsShell(new) /\ Sound(new) /\ (Told(sh) => Told(new)) /\ (Owned(sh) => Owned(new))
              /\ Registered(new) = Registered(sh) /\ new.room = sh.room
              /\ new.children = sh.children /\ Alive(new) = Alive(sh) /\ new.timers = timing
<1> DEFINE new == [sh EXCEPT !.timers = timing]
<1>1. new = [timers |-> timing, children |-> sh.children, object |-> sh.object,
             mailbox |-> sh.mailbox, heard |-> sh.heard, room |-> sh.room]
  BY DEF IsShell
<1> HIDE DEF new
<1>2. IsShell(new)
  BY <1>1 DEF IsShell
<1>3. Registered(new) = Registered(sh) /\ Alive(new) = Alive(sh)
  BY <1>1 DEF Registered, Alive, Referred
<1>4. Sound(new)
  BY <1>1, <1>3 DEF Sound
<1>5. Told(sh) => Told(new)
  BY <1>1, <1>3 DEF Told
<1>6. Owned(sh) => Owned(new)
  BY <1>1, <1>3 DEF Owned
<1> QED
  BY <1>1, <1>2, <1>3, <1>4, <1>5, <1>6 DEF new

\* Cancelling and starting timers leaves timers.
LEMMA TimersStayTimers ==
    ASSUME NEW sh, IsShell(sh)
    PROVE  /\ \A id : \E timing \in Seq(Timers) : ClearTimer(sh, id) = [sh EXCEPT !.timers = timing]
           /\ \A e \in Effects : \E timing \in Seq(Timers) :
                 StartTimer(sh, e) = [sh EXCEPT !.timers = timing]
<1>1. sh.timers \in Seq(Timers) /\ sh = [sh EXCEPT !.timers = sh.timers]
  BY DEF IsShell
<1>2. ASSUME NEW id
      PROVE  \E timing \in Seq(Timers) : ClearTimer(sh, id) = [sh EXCEPT !.timers = timing]
  <2> DEFINE armed == {i \in DOMAIN sh.timers : sh.timers[i].id = id}
             timing == RemoveAt(sh.timers, Min(armed))
  <2>1. CASE armed = {}
    BY <1>1, <2>1 DEF ClearTimer
  <2>2. CASE armed # {}
    <3>1. armed \in SUBSET Nat
      BY <1>1
    <3>2. Min(armed) \in armed
      <4> HIDE DEF armed
      <4> QED
        BY <2>2, <3>1, MinIsOne
    <3>3. Min(armed) \in DOMAIN sh.timers
      BY <3>2
    <3> HIDE DEF armed
    <3>4. timing \in Seq(Timers)
      BY <1>1, <3>3, TakenOut
    <3>5. ClearTimer(sh, id) = [sh EXCEPT !.timers = timing]
      BY <2>2 DEF ClearTimer, armed
    <3> HIDE DEF timing
    <3> QED
      BY <3>4, <3>5
  <2> QED
    BY <2>1, <2>2
<1>3. ASSUME NEW e \in Effects
      PROVE  \E timing \in Seq(Timers) : StartTimer(sh, e) = [sh EXCEPT !.timers = timing]
  <2> DEFINE others == ClearTimer(sh, e.id).timers
             later == {i \in DOMAIN others : others[i].left > e.delay}
             timer == [id |-> e.id, event |-> e.event, to |-> e.to, left |-> e.delay]
             timing == IF later = {} THEN Append(others, timer)
                       ELSE InsertAt(others, Min(later), timer)
  <2>1. others \in Seq(Timers)
    <3>1. PICK t \in Seq(Timers) : ClearTimer(sh, e.id) = [sh EXCEPT !.timers = t]
      BY <1>2
    <3>2. [sh EXCEPT !.timers = t].timers = t
      BY DEF IsShell
    <3> QED
      BY <3>1, <3>2
  <2>2. timer \in Timers
    BY DEF Effects, Timers
  <2>3. StartTimer(sh, e) = [sh EXCEPT !.timers = timing]
    BY DEF StartTimer
  <2> HIDE DEF others, timer
  <2>4. later \in SUBSET Nat
    BY <2>1
  <2>5. timing \in Seq(Timers)
    <3>1. CASE later = {}
      BY <2>1, <2>2, <3>1
    <3>2. CASE later # {}
      <4>1. Min(later) \in later
        <5> HIDE DEF later
        <5> QED
          BY <2>4, <3>2, MinIsOne
      <4>2. Min(later) \in DOMAIN others
        BY <4>1
      <4> HIDE DEF later
      <4> QED
        BY <2>1, <2>2, <3>2, <4>2, PutIn
    <3> QED
      BY <3>1, <3>2
  <2> HIDE DEF timing
  <2> QED
    BY <2>3, <2>5
<1> QED
  BY <1>2, <1>3

\* A child that is stopped is no longer registered and is told.
LEMMA StoppingKeeps ==
    ASSUME NEW sh, IsShell(sh), Sound(sh), NEW c \in ChildIds
    PROVE  LET new == StopChild(sh, c)
           IN /\ IsShell(new) /\ Sound(new) /\ (Told(sh) => Told(new)) /\ (Owned(sh) => Owned(new))
              /\ Registered(new) = Registered(sh) \ {c} /\ new.room = sh.room
<1> DEFINE o == sh.children[c]
           mid == Post(sh, o, Stop)
           new == StopChild(sh, c)
<1>1. o \in {Self, NoObject} \cup Alive(sh) /\ o # Self
  <2>1. CASE o = NoObject
    BY <2>1, NamesApart
  <2>2. CASE o # NoObject
    BY <2>2, RegisteredAreAlive, NamesApart DEF Registered, Alive
  <2> QED
    BY <2>1, <2>2
<1>2. Stop \in Messages
  BY DEF Messages
<1> HIDE DEF mid, o
<1>3. /\ IsShell(mid) /\ mid.timers = sh.timers /\ mid.children = sh.children
      /\ mid.object = sh.object /\ mid.heard = sh.heard /\ mid.room = sh.room
      /\ ToSet(sh.mailbox) \subseteq ToSet(mid.mailbox)
      /\ o # NoObject => Task(o, Stop) \in ToSet(mid.mailbox)
      /\ Alive(mid) = Alive(sh)
      /\ Sound(mid) /\ (Told(sh) => Told(mid)) /\ (Owned(sh) => Owned(mid))
      /\ Registered(mid) = Registered(sh)
  <2>1. o = Self => Stop # Start
    BY <1>1
  <2>2. o \in {Self, NoObject} \cup Alive(sh)
    BY <1>1
  <2>3. /\ IsShell(mid) /\ mid.timers = sh.timers /\ mid.children = sh.children
        /\ mid.object = sh.object /\ mid.heard = sh.heard /\ mid.room = sh.room
        /\ ToSet(sh.mailbox) \subseteq ToSet(mid.mailbox)
        /\ o # NoObject => Task(o, Stop) \in ToSet(mid.mailbox)
        /\ Alive(mid) = Alive(sh)
    BY <1>2, <2>1, <2>2, Posting DEF mid
  <2>4. /\ Sound(mid) /\ (Told(sh) => Told(mid)) /\ (Owned(sh) => Owned(mid))
        /\ Registered(mid) = Registered(sh)
    BY <1>2, <2>1, <2>2, PostingKeeps DEF mid
  <2> QED
    BY <2>3, <2>4
<1> DEFINE kids == [mid.children EXCEPT ![c] = NoObject]
<1>4. new = [timers |-> mid.timers, children |-> kids, object |-> mid.object,
             mailbox |-> mid.mailbox, heard |-> mid.heard, room |-> mid.room]
  <2>1. new = [mid EXCEPT !.children = kids]
    BY DEF StopChild, mid, o
  <2> HIDE DEF kids, new
  <2> QED
    BY <1>3, <2>1 DEF IsShell
<1>5. /\ kids \in [ChildIds -> Objects \cup {NoObject}]
      /\ kids[c] = NoObject /\ \A d \in ChildIds \ {c} : kids[d] = sh.children[d]
  BY <1>3 DEF IsShell
<1> HIDE DEF kids, new
<1>6. IsShell(new)
  BY <1>3, <1>4, <1>5 DEF IsShell
<1>7. Registered(new) = Registered(sh) \ {c}
  BY <1>4, <1>5 DEF Registered
<1>8. Alive(new) \subseteq Alive(sh)
  <2>1. \A d \in ChildIds : kids[d] \in Objects => kids[d] = mid.children[d]
    BY <1>3, <1>5, NamesApart
  <2>2. Alive(new) \subseteq Alive(mid)
    BY <1>4, <2>1 DEF Alive, Referred
  <2> QED
    BY <1>3, <2>2
<1>9. Sound(new)
  <2>1. \A x \in Alive(new) : new.object[x].id \in ChildIds
    BY <1>3, <1>4, <1>8 DEF Sound
  <2>2. ASSUME NEW d \in Registered(new) PROVE new.object[new.children[d]].id = d
    <3>1. d \in Registered(sh) /\ d \in ChildIds \ {c}
      BY <1>7 DEF Registered
    <3>2. new.children[d] = sh.children[d] /\ new.object = sh.object
      BY <1>3, <1>4, <1>5, <3>1
    <3> QED
      BY <3>1, <3>2 DEF Sound
  <2> QED
    BY <2>1, <2>2 DEF Sound
<1>10. Told(sh) => Told(new)
  BY <1>3, <1>4, <1>5, <1>7 DEF Told, Registered
<1>11. ASSUME Owned(sh) PROVE Owned(new)
  <2> SUFFICES ASSUME NEW x \in Alive(new), new.object[x].status \in {"none", "active"}
               PROVE  new.children[new.object[x].id] = x \/ Task(x, Stop) \in ToSet(new.mailbox)
    BY DEF Owned
  <2> DEFINE d == sh.object[x].id
  <2>1. x \in Alive(sh) /\ d \in ChildIds /\ x \in Objects
    BY <1>8 DEF Sound, Alive
  <2>2. sh.children[d] = x \/ Task(x, Stop) \in ToSet(sh.mailbox)
    BY <1>3, <1>4, <1>11, <2>1 DEF Owned
  <2>3. CASE Task(x, Stop) \in ToSet(sh.mailbox)
    BY <1>3, <1>4, <2>3
  <2>4. CASE sh.children[d] = x /\ d = c
    BY <1>3, <1>4, <2>1, <2>4, NamesApart DEF o
  <2>5. CASE sh.children[d] = x /\ d # c
    BY <1>3, <1>4, <1>5, <2>1, <2>5
  <2> QED
    BY <2>2, <2>3, <2>4, <2>5
<1> QED
  BY <1>3, <1>4, <1>6, <1>7, <1>9, <1>10, <1>11 DEF new

\* A child that is spawned takes the place of no other when none is registered.
LEMMA SpawningKeeps ==
    ASSUME NEW sh, IsShell(sh), Sound(sh), NEW c \in ChildIds, NEW from \in Statuses
    PROVE  LET new == SpawnFrom(sh, c, from)
           IN /\ IsShell(new) /\ Sound(new) /\ (Told(sh) => Told(new))
              /\ Owned(sh) /\ c \notin Registered(sh) => Owned(new)
              /\ new.room => sh.room /\ Registered(new) = Registered(sh) \cup {c}
<1>1. CASE Unused(sh) = {}
  <2> DEFINE new == [sh EXCEPT !.room = FALSE]
  <2>1. SpawnFrom(sh, c, from) = new
    BY <1>1 DEF SpawnFrom
  <2> HIDE DEF new
  <2>2. PICK no \in BOOLEAN : no = FALSE /\ new = [timers |-> sh.timers,
            children |-> sh.children, object |-> sh.object,
            mailbox |-> sh.mailbox, heard |-> sh.heard, room |-> no]
    <3>1. PICK no \in BOOLEAN : no = FALSE
      OBVIOUS
    <3>2. new = [sh EXCEPT !.room = no]
      BY <3>1 DEF new
    <3>3. new = [timers |-> sh.timers, children |-> sh.children, object |-> sh.object,
                 mailbox |-> sh.mailbox, heard |-> sh.heard, room |-> no]
      BY <3>2 DEF IsShell
    <3> QED
      BY <3>1, <3>3
  <2>3. IsShell(new) /\ ~new.room
    <3>1. IsShell(new) /\ new.room = no
      BY <2>2 DEF IsShell
    <3> QED
      BY <2>2, <3>1
  <2>4. Registered(new) = Registered(sh) /\ Alive(new) = Alive(sh)
    BY <2>2 DEF Registered, Alive, Referred
  <2>5. Sound(new)
    BY <2>2, <2>4 DEF Sound
  <2>6. Told(sh) => Told(new)
    BY <2>2, <2>4 DEF Told
  <2>7. Owned(sh) => Owned(new)
    BY <2>2, <2>4 DEF Owned
  <2> QED
    BY <2>1, <2>3, <2>5, <2>6, <2>7
<1>2. CASE Unused(sh) # {}
  <2> DEFINE n == CHOOSE x \in Unused(sh) : TRUE
             kid == [id |-> c, status |-> "none", from |-> from]
             kids == [sh.children EXCEPT ![c] = n]
             objs == [sh.object EXCEPT ![n] = kid]
             made == [sh EXCEPT !.children[c] = n, !.heard = @ \ {c}, !.object[n] = kid]
             new == SpawnFrom(sh, c, from)
  <2>1. new = Post(made, n, Start)
    BY <1>2 DEF SpawnFrom
  <2>2. n \in Unused(sh)
    BY <1>2
  <2> HIDE DEF n
  <2>3. /\ n \in Objects /\ n # NoObject /\ n # Self /\ n \notin Alive(sh)
        /\ \A d \in ChildIds : sh.children[d] # n
        /\ \A t \in ToSet(sh.mailbox) : t.to # n
    BY <2>2, NamesApart DEF Unused, Referred, Alive
  <2>4. kid \in Kids /\ kid.id = c /\ kid.status = "none"
    BY DEF Kids, Statuses
  <2> HIDE DEF kid
  <2>5. made = [timers |-> sh.timers, children |-> kids, object |-> objs,
                mailbox |-> sh.mailbox, heard |-> sh.heard \ {c}, room |-> sh.room]
    <3>1. made = [sh EXCEPT !.children = kids, !.heard = sh.heard \ {c}, !.object = objs]
      BY DEF IsShell
    <3> HIDE DEF kids, objs, made
    <3> QED
      BY <3>1 DEF IsShell
  <2>6. /\ kids \in [ChildIds -> Objects \cup {NoObject}] /\ kids[c] = n
        /\ \A d \in ChildIds \ {c} : kids[d] = sh.children[d]
    BY <2>3 DEF IsShell
  <2>7. /\ objs \in [Objects -> Kids] /\ objs[n] = kid
        /\ \A x \in Objects \ {n} : objs[x] = sh.object[x]
    BY <2>3, <2>4 DEF IsShell
  <2> HIDE DEF kids, objs, made, new
  <2>8. IsShell(made)
    BY <2>5, <2>6, <2>7 DEF IsShell
  <2>9. Registered(made) = Registered(sh) \cup {c}
    BY <2>3, <2>5, <2>6 DEF Registered
  <2>10. Alive(made) \subseteq Alive(sh) \cup {n} /\ n \in Alive(made)
    <3>1. \A d \in ChildIds : kids[d] = n \/ kids[d] = sh.children[d]
      BY <2>6
    <3> QED
      BY <2>3, <2>5, <2>6, <3>1 DEF Alive, Referred
  <2>11. Sound(made)
    <3>1. ASSUME NEW d \in Registered(made) PROVE made.object[made.children[d]].id = d
      <4>1. CASE d = c
        BY <2>4, <2>5, <2>6, <2>7, <4>1
      <4>2. CASE d # c
        <5>1. d \in Registered(sh) /\ d \in ChildIds
          BY <2>9, <4>2 DEF Registered
        <5>2. sh.children[d] # n /\ sh.children[d] \in Objects
          BY <2>3, <5>1, RegisteredAreAlive DEF Alive
        <5> QED
          BY <2>5, <2>6, <2>7, <4>2, <5>1, <5>2 DEF Sound
      <4> QED
        BY <4>1, <4>2
    <3>2. ASSUME NEW x \in Alive(made) PROVE made.object[x].id \in ChildIds
      <4>1. CASE x = n
        BY <2>4, <2>5, <2>7, <4>1
      <4>2. CASE x # n
        <5>1. x \in Alive(sh) /\ x \in Objects
          BY <2>10, <4>2 DEF Alive
        <5> QED
          BY <2>5, <2>7, <4>2, <5>1 DEF Sound
      <4> QED
        BY <4>1, <4>2
    <3> QED
      BY <3>1, <3>2 DEF Sound
  <2>12. ASSUME Told(sh) PROVE Told(made)
    <3> SUFFICES ASSUME NEW d \in Registered(made),
                        made.object[made.children[d]].status = "done"
                 PROVE  d \in made.heard \/ Task(Self, DoneActor(d)) \in ToSet(made.mailbox)
      BY DEF Told
    <3>1. d # c
      BY <2>4, <2>5, <2>6, <2>7
    <3>2. d \in Registered(sh) /\ d \in ChildIds
      BY <2>9, <3>1 DEF Registered
    <3>3. sh.children[d] # n /\ sh.children[d] \in Objects
      BY <2>3, <3>2, RegisteredAreAlive DEF Alive
    <3> QED
      BY <2>5, <2>6, <2>7, <2>12, <3>1, <3>2, <3>3 DEF Told
  <2>13. ASSUME Owned(sh), c \notin Registered(sh) PROVE Owned(made)
    <3> SUFFICES ASSUME NEW x \in Alive(made), made.object[x].status \in {"none", "active"}
                 PROVE  \/ made.children[made.object[x].id] = x
                        \/ Task(x, Stop) \in ToSet(made.mailbox)
      BY DEF Owned
    <3>1. CASE x = n
      BY <2>4, <2>5, <2>6, <2>7, <3>1
    <3>2. CASE x # n
      <4>1. x \in Alive(sh) /\ x \in Objects
        BY <2>10, <3>2 DEF Alive
      <4>2. made.object[x] = sh.object[x] /\ sh.object[x].id \in ChildIds
        BY <2>5, <2>7, <3>2, <4>1 DEF Sound
      <4>3. sh.children[sh.object[x].id] = x \/ Task(x, Stop) \in ToSet(sh.mailbox)
        BY <2>13, <4>1, <4>2 DEF Owned
      <4>4. sh.children[c] # x
        BY <2>13, <4>1, NamesApart DEF Registered
      <4> QED
        BY <2>5, <2>6, <4>2, <4>3, <4>4
    <3> QED
      BY <3>1, <3>2
  <2>14. Start \in Messages
    BY DEF Messages
  <2>15. /\ IsShell(new) /\ new.room = made.room /\ Sound(new) /\ (Told(made) => Told(new))
         /\ (Owned(made) => Owned(new)) /\ Registered(new) = Registered(made)
    BY <2>1, <2>3, <2>8, <2>10, <2>11, <2>14, Posting, PostingKeeps
  <2>16. made.room = sh.room
    BY <2>5
  <2> QED
    BY <2>9, <2>12, <2>13, <2>15, <2>16 DEF new
<1> QED
  BY <1>1, <1>2

\* One effect.
LEMMA EffectKeeps ==
    ASSUME NEW sh, IsShell(sh), Sound(sh), NEW e \in Effects
    PROVE  LET new == ExecuteEffect(sh, e)
           IN /\ IsShell(new) /\ Sound(new) /\ (Told(sh) => Told(new))
              /\ Owned(sh) /\ (\A c \in Registered(sh) : ~Spawns(e, c)) => Owned(new)
              /\ new.room => sh.room
              /\ new.room => \A c \in ChildIds : c \in Registered(new) <=>
                                Spawns(e, c) \/ (c \in Registered(sh) /\ ~Stops(e, c))
<1> DEFINE new == ExecuteEffect(sh, e)
<1>1. /\ e.kind \in EffectKinds /\ e.to \in ChildIds \cup {NoName} /\ e.event \in Messages
      /\ e.event # Start
      /\ e.kind \in {"spawnChild", "respawnChild", "stopChild"} => e.to \in ChildIds
      /\ e.kind = "respawnChild" => restoring.children[e.to] \in Statuses
  BY DEF Effects
<1>2. CASE e.kind = "send"
  <2> DEFINE to == ResolveTarget(sh, e.to)
  <2>1. to \in {Self, NoObject} \cup Alive(sh)
    <3>1. CASE e.to = NoName
      BY <3>1 DEF ResolveTarget
    <3>2. CASE e.to # NoName
      <4>1. e.to \in ChildIds /\ to = sh.children[e.to]
        BY <1>1, <3>2 DEF ResolveTarget
      <4> QED
        BY <4>1, RegisteredAreAlive DEF Registered
    <3> QED
      BY <3>1, <3>2
  <2>2. new = Post(sh, to, e.event)
    BY <1>2 DEF ExecuteEffect
  <2>3. \A c : ~Spawns(e, c) /\ ~Stops(e, c)
    BY <1>2 DEF Spawns, Stops
  <2> HIDE DEF to, new
  <2>4. /\ IsShell(new) /\ Sound(new) /\ (Told(sh) => Told(new)) /\ (Owned(sh) => Owned(new))
        /\ Registered(new) = Registered(sh) /\ new.room = sh.room
    <3>1. e.event \in Messages /\ (to = Self => e.event # Start)
      BY <1>1
    <3>2. IsShell(new) /\ new.room = sh.room
      BY <2>1, <2>2, <3>1, Posting
    <3>3. /\ Sound(new) /\ (Told(sh) => Told(new)) /\ (Owned(sh) => Owned(new))
          /\ Registered(new) = Registered(sh)
      BY <2>1, <2>2, <3>1, PostingKeeps
    <3> QED
      BY <3>2, <3>3
  <2> QED
    BY <2>3, <2>4 DEF new
<1>3. CASE e.kind \in {"timer", "cancel"}
  <2>1. new = StartTimer(sh, e) \/ new = ClearTimer(sh, e.id)
    BY <1>3 DEF ExecuteEffect
  <2>2. PICK timing \in Seq(Timers) : new = [sh EXCEPT !.timers = timing]
    BY <2>1, TimersStayTimers
  <2>3. \A c : ~Spawns(e, c) /\ ~Stops(e, c)
    BY <1>3 DEF Spawns, Stops
  <2> HIDE DEF new
  <2>4. /\ IsShell(new) /\ Sound(new) /\ (Told(sh) => Told(new)) /\ (Owned(sh) => Owned(new))
        /\ Registered(new) = Registered(sh) /\ new.room = sh.room
    BY <2>2, OtherTimers
  <2> QED
    BY <2>3, <2>4 DEF new
<1>4. CASE e.kind \in {"spawnChild", "respawnChild"}
  <2>1. PICK from \in Statuses : new = SpawnFrom(sh, e.to, from)
    <3>1. "none" \in Statuses
      BY DEF Statuses
    <3> QED
      BY <1>1, <1>4, <3>1 DEF ExecuteEffect
  <2>2. /\ e.to \in ChildIds
        /\ \A c : (Spawns(e, c) <=> c = e.to) /\ ~Stops(e, c)
    <3>1. e.to \in ChildIds
      BY <1>1, <1>4
    <3>2. \A c : (Spawns(e, c) <=> c = e.to) /\ ~Stops(e, c)
      BY <1>4 DEF Spawns, Stops
    <3> QED
      BY <3>1, <3>2
  <2> HIDE DEF new
  <2>3. /\ IsShell(new) /\ Sound(new) /\ (Told(sh) => Told(new))
        /\ Owned(sh) /\ e.to \notin Registered(sh) => Owned(new)
        /\ new.room => sh.room /\ Registered(new) = Registered(sh) \cup {e.to}
    BY <2>1, <2>2, SpawningKeeps
  <2> QED
    BY <2>2, <2>3 DEF new
<1>5. CASE e.kind = "stopChild"
  <2>1. new = StopChild(sh, e.to)
    BY <1>5 DEF ExecuteEffect
  <2>2. /\ e.to \in ChildIds
        /\ \A c : ~Spawns(e, c) /\ (Stops(e, c) <=> c = e.to)
    <3>1. e.to \in ChildIds
      BY <1>1, <1>5
    <3>2. \A c : ~Spawns(e, c) /\ (Stops(e, c) <=> c = e.to)
      BY <1>5 DEF Spawns, Stops
    <3> QED
      BY <3>1, <3>2
  <2> HIDE DEF new
  <2>3. /\ IsShell(new) /\ Sound(new) /\ (Told(sh) => Told(new)) /\ (Owned(sh) => Owned(new))
        /\ Registered(new) = Registered(sh) \ {e.to} /\ new.room = sh.room
    BY <2>1, <2>2, StoppingKeeps
  <2> QED
    BY <2>2, <2>3 DEF new
<1>6. CASE e.kind = "none"
  <2>1. new = sh
    BY <1>6 DEF ExecuteEffect
  <2>2. \A c : ~Spawns(e, c) /\ ~Stops(e, c)
    BY <1>6 DEF Spawns, Stops
  <2> HIDE DEF new
  <2> QED
    BY <2>1, <2>2 DEF new
<1> QED
  BY <1>1, <1>2, <1>3, <1>4, <1>5, <1>6 DEF EffectKinds

\* One effect more of a list.
LEMMA HoldsNext ==
    ASSUME NEW list, NEW n \in Nat \ {0}, NEW R, NEW c
    PROVE  Holds(list, n + 1, R, c) <=>
              Spawns(list[n], c) \/ (Holds(list, n, R, c) /\ ~Stops(list[n], c))
<1>1. Spawns(list[n], c) => ~Stops(list[n], c)
  BY DEF Spawns, Stops
<1> DEFINE sp(j) == Spawns(list[j], c)
           st(j) == Stops(list[j], c)
<1>2. /\ Holds(list, n + 1, R, c) <=>
            \/ c \in R /\ \A j \in 1 .. n + 1 - 1 : ~st(j)
            \/ \E j \in 1 .. n + 1 - 1 : sp(j) /\ \A k \in j + 1 .. n + 1 - 1 : ~st(k)
      /\ Holds(list, n, R, c) <=>
            \/ c \in R /\ \A j \in 1 .. n - 1 : ~st(j)
            \/ \E j \in 1 .. n - 1 : sp(j) /\ \A k \in j + 1 .. n - 1 : ~st(k)
  BY DEF Holds
<1>3. (sp(n) => ~st(n)) /\ (Spawns(list[n], c) <=> sp(n)) /\ (Stops(list[n], c) <=> st(n))
  BY <1>1
<1> HIDE DEF sp, st
<1>4. /\ \A j \in 1 .. n + 1 - 1 : j \in 1 .. n - 1 \/ j = n
      /\ \A j \in 1 .. n - 1 : j \in 1 .. n + 1 - 1
      /\ n \in 1 .. n + 1 - 1
  OBVIOUS
<1>5. (\A j \in 1 .. n + 1 - 1 : ~st(j)) <=> (\A j \in 1 .. n - 1 : ~st(j)) /\ ~st(n)
  BY <1>4
<1>6. \A j \in 1 .. n - 1 : (\A k \in j + 1 .. n + 1 - 1 : ~st(k)) <=>
                                (\A k \in j + 1 .. n - 1 : ~st(k)) /\ ~st(n)
  <2> TAKE j \in 1 .. n - 1
  <2>1. /\ \A k \in j + 1 .. n + 1 - 1 : k \in j + 1 .. n - 1 \/ k = n
        /\ \A k \in j + 1 .. n - 1 : k \in j + 1 .. n + 1 - 1
        /\ n \in j + 1 .. n + 1 - 1
    OBVIOUS
  <2> QED
    BY <2>1
<1>7. \A k \in n + 1 .. n + 1 - 1 : ~st(k)
  OBVIOUS
<1>8. (\E j \in 1 .. n + 1 - 1 : sp(j) /\ \A k \in j + 1 .. n + 1 - 1 : ~st(k)) <=>
         sp(n) \/ ((\E j \in 1 .. n - 1 : sp(j) /\ \A k \in j + 1 .. n - 1 : ~st(k)) /\ ~st(n))
  BY <1>4, <1>6, <1>7
<1> QED
  BY <1>2, <1>3, <1>5, <1>8

\* All of a list: it leaves the children registered that it does, and behind it
\* none that goes on running, when there is room for them.
LEMMA ListKeeps ==
    ASSUME NEW sh, IsShell(sh), Sound(sh), NEW list \in Seq(Effects)
    PROVE  LET new == ExecuteEffects(sh, list)
           IN /\ IsShell(new) /\ Sound(new) /\ (Told(sh) => Told(new))
              /\ new.room => Registered(new) = After(list, Registered(sh))
              /\ new.room /\ Clean(list, Registered(sh)) /\ Owned(sh) => Owned(new)
<1> DEFINE R == Registered(sh)
           l == Len(list)
           Kept(n, x) ==
              /\ IsShell(x) /\ Sound(x) /\ (Told(sh) => Told(x))
              /\ x.room => \A c \in ChildIds : c \in Registered(x) <=> Holds(list, n + 1, R, c)
              /\ x.room /\ Clean(list, R) /\ Owned(sh) => Owned(x)
<1>1. l \in Nat
  OBVIOUS
<1>2. PICK f : /\ f[0] = sh
               /\ \A n \in 1 .. l : f[n] = ExecuteEffect(f[n - 1], list[n])
               /\ ExecuteEffects(sh, list) = f[l]
  <2>1. Len(list) \in Nat
    BY <1>1
  <2>2. PICK f : Executes(f, sh, list)
    BY <2>1, Executing
  <2> QED
    BY <2>2 DEF Executes
<1> HIDE DEF l
<1>3. Kept(0, sh)
  <2>1. \A c \in ChildIds : c \in R <=> Holds(list, 0 + 1, R, c)
    BY DEF Holds
  <2> QED
    BY <2>1
<1>4. ASSUME NEW n \in 1 .. l, NEW x, Kept(n - 1, x) PROVE Kept(n, ExecuteEffect(x, list[n]))
  <2> DEFINE e == list[n]
             new == ExecuteEffect(x, e)
  <2>1. e \in Effects /\ n \in Nat \ {0} /\ n - 1 + 1 = n
    BY <1>1 DEF l
  <2>2. /\ IsShell(x) /\ Sound(x) /\ (Told(sh) => Told(x))
        /\ x.room => \A c \in ChildIds : c \in Registered(x) <=> Holds(list, n, R, c)
        /\ x.room /\ Clean(list, R) /\ Owned(sh) => Owned(x)
    BY <1>4, <2>1
  <2> HIDE DEF e, new, R
  <2>3. /\ IsShell(new) /\ Sound(new) /\ (Told(x) => Told(new))
        /\ Owned(x) /\ (\A c \in Registered(x) : ~Spawns(e, c)) => Owned(new)
        /\ new.room => x.room
        /\ new.room => \A c \in ChildIds : c \in Registered(new) <=>
                          Spawns(e, c) \/ (c \in Registered(x) /\ ~Stops(e, c))
    BY <2>1, <2>2, EffectKeeps DEF new
  <2>4. \A c : Holds(list, n + 1, R, c) <=> Spawns(e, c) \/ (Holds(list, n, R, c) /\ ~Stops(e, c))
    BY <2>1, HoldsNext DEF e
  <2>5. new.room => \A c \in ChildIds : c \in Registered(new) <=> Holds(list, n + 1, R, c)
    BY <2>2, <2>3, <2>4
  <2>6. ASSUME new.room, Clean(list, R), Owned(sh) PROVE Owned(new)
    <3>1. x.room /\ Owned(x)
      BY <2>2, <2>3, <2>6
    <3>2. \A c \in Registered(x) : c \in ChildIds
      BY DEF Registered
    <3>3. \A c \in ChildIds : Spawns(e, c) => ~Holds(list, n, R, c)
      BY <2>6 DEF Clean, e, l
    <3>4. \A c \in Registered(x) : ~Spawns(e, c)
      BY <2>2, <3>1, <3>2, <3>3
    <3> QED
      BY <2>3, <3>1, <3>4
  <2>7. Kept(n, new)
    BY <2>2, <2>3, <2>5, <2>6
  <2> QED
    BY <2>7 DEF new, e
<1> HIDE DEF Kept
<1> DEFINE Bad == {n \in 0 .. l : ~Kept(n, f[n])}
<1>5. Bad = {}
  <2> SUFFICES ASSUME Bad # {} PROVE FALSE
    OBVIOUS
  <2>1. Bad \in SUBSET Nat
    BY <1>1
  <2>2. PICK n \in Bad : \A k \in Bad : n <= k
    <3> HIDE DEF Bad
    <3> QED
      BY <2>1, Least
  <2>3. n \in 0 .. l /\ ~Kept(n, f[n]) /\ n \in Nat
    BY <2>1, <2>2
  <2>4. n # 0
    BY <1>2, <1>3, <2>3
  <2>5. n \in 1 .. l /\ n - 1 \in 0 .. l /\ ~(n <= n - 1)
    BY <1>1, <2>3, <2>4 DEF l
  <2>6. Kept(n - 1, f[n - 1])
    BY <2>2, <2>5
  <2>7. Kept(n, f[n])
    BY <1>2, <1>4, <2>5, <2>6
  <2> QED
    BY <2>3, <2>7
<1>6. Kept(l, f[l])
  <2>1. l \in 0 .. l
    BY <1>1 DEF l
  <2> QED
    BY <1>5, <2>1
<1> DEFINE new == ExecuteEffects(sh, list)
<1>7. Kept(l, new)
  BY <1>2, <1>6
<1> HIDE DEF new
<1>8. /\ IsShell(new) /\ Sound(new) /\ (Told(sh) => Told(new))
      /\ new.room => \A c \in ChildIds : c \in Registered(new) <=> Holds(list, Len(list) + 1, R, c)
      /\ new.room /\ Clean(list, R) /\ Owned(sh) => Owned(new)
  BY <1>7 DEF Kept, l
<1>9. new.room => Registered(new) = After(list, R)
  BY <1>8 DEF After, Registered
<1> QED
  BY <1>8, <1>9 DEF new

\* What a shell becomes: the children nobody refers to are gone.
Collected(sh) ==
    [timers |-> sh.timers, children |-> sh.children,
     object |-> [o \in Objects |-> IF o \in Referred(sh) THEN sh.object[o] ELSE Gone],
     mailbox |-> sh.mailbox, heard |-> sh.heard, room |-> TRUE]

\* Nobody notices.
LEMMA CollectingKeeps ==
    ASSUME NEW sh, IsShell(sh), Sound(sh)
    PROVE  LET new == Collected(sh)
           IN /\ IsShell(new) /\ Sound(new) /\ (Told(sh) => Told(new)) /\ (Owned(sh) => Owned(new))
              /\ Registered(new) = Registered(sh) /\ Alive(new) = Alive(sh)
              /\ \A o \in Objects : o \notin Alive(new) => new.object[o] = Gone
<1> DEFINE new == Collected(sh)
           objs == [o \in Objects |-> IF o \in Referred(sh) THEN sh.object[o] ELSE Gone]
<1>1. new = [timers |-> sh.timers, children |-> sh.children, object |-> objs,
             mailbox |-> sh.mailbox, heard |-> sh.heard, room |-> TRUE]
  BY DEF Collected
<1>2. /\ \A o \in Alive(sh) : o \in Objects /\ objs[o] = sh.object[o]
      /\ \A o \in Objects : o \notin Alive(sh) => objs[o] = Gone
  BY DEF Alive
<1>3. objs \in [Objects -> Kids]
  <2>1. Gone \in Kids
    BY DEF Gone, Kids, Statuses
  <2> QED
    BY <2>1 DEF IsShell
<1> HIDE DEF new, objs
<1>4. IsShell(new)
  BY <1>1, <1>3 DEF IsShell
<1>5. Registered(new) = Registered(sh) /\ Alive(new) = Alive(sh)
  BY <1>1 DEF Registered, Alive, Referred
<1>6. \A c \in Registered(sh) : sh.children[c] \in Alive(sh)
  BY RegisteredAreAlive
<1>7. Sound(new)
  BY <1>1, <1>2, <1>5, <1>6 DEF Sound
<1>8. Told(sh) => Told(new)
  BY <1>1, <1>2, <1>5, <1>6 DEF Told
<1>9. Owned(sh) => Owned(new)
  BY <1>1, <1>2, <1>5 DEF Owned
<1>10. \A o \in Objects : o \notin Alive(new) => new.object[o] = Gone
  BY <1>1, <1>2, <1>5
<1> QED
  BY <1>4, <1>5, <1>7, <1>8, <1>9, <1>10 DEF new

\* The variables are those of the shell.
LEMMA Becoming ==
    ASSUME NEW sh, Become(sh)
    PROVE  sh.room /\ Shell' = Collected(sh)
BY DEF Become, Shell, Collected

\* A task is taken, and those in K are heard.
Taken(sh, K) == [sh EXCEPT !.mailbox = Tail(@), !.heard = @ \cup K]

\* A task for the machine takes nobody's place; a report that is taken is heard.
LEMMA TakingKeeps ==
    ASSUME NEW sh, IsShell(sh), Sound(sh), sh.mailbox # <<>>, NEW K \in SUBSET ChildIds
    PROVE  LET new == Taken(sh, K)
           IN /\ IsShell(new) /\ Sound(new) /\ Head(sh.mailbox) \in Tasks
              /\ ToSet(sh.mailbox) = {Head(sh.mailbox)} \cup ToSet(new.mailbox)
              /\ new.children = sh.children /\ new.object = sh.object /\ new.room = sh.room
              /\ Registered(new) = Registered(sh) /\ Alive(new) \subseteq Alive(sh)
              /\ new.timers = sh.timers /\ new.mailbox = Tail(sh.mailbox)
              /\ Told(sh) /\ (\A c \in ChildIds :
                    Head(sh.mailbox) = Task(Self, DoneActor(c)) => c \in K) => Told(new)
              /\ Owned(sh) /\ Head(sh.mailbox).to = Self => Owned(new)
<1> DEFINE new == Taken(sh, K)
           t == Head(sh.mailbox)
           q == Tail(sh.mailbox)
           h == sh.heard \cup K
<1>1. t \in Tasks /\ q \in Seq(Tasks) /\ ToSet(sh.mailbox) = {t} \cup ToSet(q)
  BY Queued DEF IsShell
<1>2. new = [sh EXCEPT !.mailbox = q, !.heard = h]
  BY DEF Taken
<1>3. h \in SUBSET ChildIds /\ sh.heard \subseteq h /\ K \subseteq h
  BY DEF IsShell
<1> HIDE DEF new, t, q, h
<1>4. new = [timers |-> sh.timers, children |-> sh.children, object |-> sh.object,
             mailbox |-> q, heard |-> h, room |-> sh.room]
  BY <1>2 DEF IsShell
<1>5. IsShell(new)
  BY <1>1, <1>3, <1>4 DEF IsShell
<1>6. Registered(new) = Registered(sh) /\ Alive(new) \subseteq Alive(sh)
  BY <1>1, <1>4 DEF Registered, Alive, Referred
<1>7. Sound(new)
  BY <1>4, <1>6 DEF Sound
<1>8. ASSUME Told(sh), \A c \in ChildIds : t = Task(Self, DoneActor(c)) => c \in K
      PROVE  Told(new)
  <2>1. \A c \in Registered(sh) : c \in ChildIds
    BY DEF Registered
  <2> QED
    BY <1>1, <1>3, <1>4, <1>6, <1>8, <2>1 DEF Told
<1>9. ASSUME Owned(sh), t.to = Self PROVE Owned(new)
  <2>1. \A o \in Alive(sh) : Task(o, Stop) # t
    <3>1. \A o \in Alive(sh) : o # Self
      BY NamesApart DEF Alive
    <3> QED
      BY <1>9, <3>1 DEF Task
  <2> QED
    BY <1>1, <1>4, <1>6, <1>9, <2>1 DEF Owned
<1>10. /\ new.children = sh.children /\ new.object = sh.object /\ new.room = sh.room
       /\ new.timers = sh.timers /\ new.mailbox = q
  BY <1>4
<1>11. ToSet(sh.mailbox) = {t} \cup ToSet(new.mailbox)
  BY <1>1, <1>10
<1> QED
  BY <1>1, <1>5, <1>6, <1>7, <1>8, <1>9, <1>10, <1>11 DEF new, t, q

-----------------------------------------------------------------------------
(* The inductive invariant *)

\* Before the machine starts: its start task, and what others posted since.
Waits(q) == \E r \in Seq({t \in Tasks : t.to = Self}) : q = <<Task(Self, Start)>> \o r
IsSave(x, s) ==
    s # NoSave => /\ s.leaf \in DOMAIN x.after
                  /\ s.status \in {"active", "done", "stopped"}
                  /\ s.children \in [ChildIds -> Statuses \cup {"absent"}]

ActorInv ==
    /\ m \in Machines /\ status \in Statuses
    /\ status = "none" => /\ children = [c \in ChildIds |-> NoObject]
                          /\ object = [o \in Objects |-> Gone]
                          /\ timers = <<>> /\ heard = {} /\ Waits(mailbox)
    /\ status # "none" => leaf \in DOMAIN m.after /\ IsShell(Shell) /\ Sound(Shell)
    /\ \A o \in Objects : o \notin Alive(Shell) => object[o] = Gone
    /\ IsSave(m, saved) /\ IsSave(m, restoring)
\* Of an active machine.
ToldInv == status = "active" => Told(Shell)
\* The children a machine was persisted with; of a tidy one, those of its state.
KeptIn(s) == {c \in ChildIds : s.children[c] # "absent"}
MannedSave(x, s) ==
    s # NoSave /\ s.status = "active" => Manned(x, s.leaf, KeptIn(s))
\* Of a tidy machine.
OwnedInv ==
    /\ status # "none" => Owned(Shell)
    /\ status = "active" => Manned(m, leaf, Registered(Shell))
    /\ MannedSave(m, saved) /\ MannedSave(m, restoring)

\* The shell of an actor as a record.
LEMMA ShellIsShell ==
    /\ Shell.timers = timers /\ Shell.children = children /\ Shell.object = object
    /\ Shell.mailbox = mailbox /\ Shell.heard = heard /\ Shell.room = TRUE
    /\ Popped = Taken(Shell, {})
<1>1. /\ Shell.timers = timers /\ Shell.children = children /\ Shell.object = object
      /\ Shell.mailbox = mailbox /\ Shell.heard = heard /\ Shell.room = TRUE
  BY DEF Shell
<1>2. Popped = Taken(Shell, {})
  <2>1. PICK q : q = Tail(Shell.mailbox)
    OBVIOUS
  <2>2. PICK no : no = TRUE
    OBVIOUS
  <2>3. Shell = [timers |-> timers, children |-> children, object |-> object,
                 mailbox |-> mailbox, heard |-> heard, room |-> no]
    BY <2>2 DEF Shell
  <2>4. PICK h : h = Shell.heard \cup {}
    OBVIOUS
  <2>5. /\ Popped = [Shell EXCEPT !.mailbox = q]
        /\ Taken(Shell, {}) = [Shell EXCEPT !.mailbox = q, !.heard = h]
    <3>1. Popped = [Shell EXCEPT !.mailbox = q]
      BY <2>1 DEF Popped
    <3>2. Taken(Shell, {}) = [Shell EXCEPT !.mailbox = q, !.heard = h]
      BY <2>1, <2>4, Zenon DEF Taken
    <3> QED
      BY <3>1, <3>2
  <2>6. Popped = [timers |-> timers, children |-> children,
                  object |-> object, mailbox |-> q, heard |-> heard, room |-> no]
    BY <2>3, <2>5
  <2>7. Taken(Shell, {}) = [timers |-> timers, children |-> children,
                            object |-> object, mailbox |-> q, heard |-> h, room |-> no]
    BY <2>3, <2>5
  <2>8. h = heard
    BY <1>1, <2>4
  <2> QED
    BY <2>6, <2>7, <2>8
<1> QED
  BY <1>1, <1>2

\* When it begins it has no children, and its mailbox is as it should be.
LEMMA BeginningIsSound ==
    ASSUME ActorInv, status = "none"
    PROVE  /\ mailbox # <<>> /\ Head(mailbox) = Task(Self, Start)
           /\ IsShell(Popped) /\ Sound(Popped) /\ Told(Popped) /\ Owned(Popped)
           /\ Registered(Popped) = {}
<1>1. /\ children = [c \in ChildIds |-> NoObject] /\ object = [o \in Objects |-> Gone]
      /\ timers = <<>> /\ heard = {}
  BY DEF ActorInv
<1>2. PICK r \in Seq({t \in Tasks : t.to = Self}) : mailbox = <<Task(Self, Start)>> \o r
  BY DEF ActorInv, Waits
<1>3. mailbox # <<>> /\ Head(mailbox) = Task(Self, Start) /\ Tail(mailbox) = r
  BY <1>2
<1>4. r \in Seq(Tasks) /\ \A t \in ToSet(r) : t.to = Self
  <2>1. \A t \in ToSet(r) : t \in {x \in Tasks : x.to = Self}
    BY DEF ToSet
  <2>2. r \in Seq(Tasks)
    BY SMT
  <2> QED
    BY <2>1, <2>2
<1>5. Popped = [timers |-> timers, children |-> children, object |-> object,
                mailbox |-> r, heard |-> heard, room |-> TRUE]
  BY <1>3, ShellIsShell DEF Popped, Shell
<1>6. IsShell(Popped)
  <2>1. children \in [ChildIds -> Objects \cup {NoObject}] /\ object \in [Objects -> Kids]
    <3>1. Gone \in Kids
      BY DEF Gone, Kids, Statuses
    <3> QED
      BY <1>1, <3>1
  <2>2. timers \in Seq(Timers) /\ heard \in SUBSET ChildIds
    BY <1>1
  <2> QED
    BY <1>4, <1>5, <2>1, <2>2 DEF IsShell
<1>7. Registered(Popped) = {}
  BY <1>1, <1>5 DEF Registered
<1>8. Alive(Popped) = {}
  BY <1>1, <1>4, <1>5, NamesApart DEF Alive, Referred
<1> QED
  BY <1>3, <1>6, <1>7, <1>8 DEF Sound, Told, Owned

\* What is left to show of a step after which the machine has started.
LEMMA StartedKeeps ==
    ASSUME ActorInv, m' = m, saved' = saved, restoring' = restoring,
           status' \in {"active", "done", "stopped"}, leaf' \in DOMAIN m.after,
           NEW sh, IsShell(sh), Sound(sh), Become(sh)
    PROVE  /\ ActorInv' /\ (Told(sh) => ToldInv')
           /\ OwnedInv /\ Owned(sh) /\ (status' = "active" => Manned(m, leaf', Registered(sh)))
                 => OwnedInv'
<1> DEFINE new == Collected(sh)
<1>1. Shell' = new
  BY Becoming
<1>2. /\ IsShell(new) /\ Sound(new) /\ (Told(sh) => Told(new)) /\ (Owned(sh) => Owned(new))
      /\ Registered(new) = Registered(sh)
      /\ \A o \in Objects : o \notin Alive(new) => new.object[o] = Gone
  BY CollectingKeeps
<1>3. Shell'.object = object'
  BY DEF Shell
<1> HIDE DEF new
<1>4. ActorInv'
  <2>1. m' \in Machines /\ status' \in Statuses /\ status' # "none"
    BY DEF ActorInv, Statuses
  <2>2. leaf' \in DOMAIN m'.after /\ IsShell(Shell') /\ Sound(Shell')
    BY <1>1, <1>2
  <2>3. \A o \in Objects : o \notin Alive(Shell') => object'[o] = Gone
    BY <1>1, <1>2, <1>3
  <2>4. IsSave(m', saved') /\ IsSave(m', restoring')
    BY DEF ActorInv
  <2> QED
    BY <2>1, <2>2, <2>3, <2>4 DEF ActorInv
<1>5. Told(sh) => ToldInv'
  BY <1>1, <1>2 DEF ToldInv
<1>6. ASSUME OwnedInv, Owned(sh), status' = "active" => Manned(m, leaf', Registered(sh))
      PROVE  OwnedInv'
  <2>1. Owned(Shell') /\ Registered(Shell') = Registered(sh)
    BY <1>1, <1>2, <1>6
  <2>2. MannedSave(m', saved') /\ MannedSave(m', restoring')
    BY <1>6 DEF OwnedInv
  <2> QED
    BY <1>6, <2>1, <2>2 DEF OwnedInv
<1> QED
  BY <1>4, <1>5, <1>6

\* The machine executes the effects of a macrostep.
LEMMA EnteringKeeps ==
    ASSUME ActorInv, m' = m, saved' = saved, restoring' = restoring,
           NEW step, IsStep(step), NEW sh, IsShell(sh), Sound(sh), Enter(step, sh)
    PROVE  /\ ActorInv' /\ (Told(sh) => ToldInv')
           /\ /\ OwnedInv /\ Owned(sh) /\ Clean(step.effects, Registered(sh))
              /\ step.leaf \notin m.final => OnPlan(step, Registered(sh))
              => OwnedInv'
<1> DEFINE new == ExecuteEffects(sh, step.effects)
<1>1. leaf' = step.leaf /\ status' = StatusOf(step) /\ Become(new)
  BY DEF Enter
<1>2. step.leaf \in DOMAIN m.after /\ step.effects \in Seq(Effects)
  BY DEF IsStep, States
<1>3. status' \in {"active", "done", "stopped"} /\ (status' = "active" => step.leaf \notin m.final)
  BY <1>1 DEF StatusOf
<1>4. /\ IsShell(new) /\ Sound(new) /\ (Told(sh) => Told(new))
      /\ new.room => Registered(new) = After(step.effects, Registered(sh))
      /\ new.room /\ Clean(step.effects, Registered(sh)) /\ Owned(sh) => Owned(new)
  BY <1>2, ListKeeps
<1>5. new.room
  BY <1>1, Becoming
<1> HIDE DEF new
<1>6. ActorInv' /\ (Told(sh) => ToldInv')
  BY <1>1, <1>2, <1>3, <1>4, StartedKeeps
<1>7. ASSUME OwnedInv, Owned(sh), Clean(step.effects, Registered(sh)),
             step.leaf \notin m.final => OnPlan(step, Registered(sh))
      PROVE  OwnedInv'
  <2>1. Owned(new)
    BY <1>4, <1>5, <1>7
  <2>2. status' = "active" => Manned(m, leaf', Registered(new))
    BY <1>1, <1>3, <1>4, <1>5, <1>7 DEF OnPlan
  <2> QED
    BY <1>1, <1>2, <1>3, <1>4, <1>7, <2>1, <2>2, StartedKeeps
<1> QED
  BY <1>6, <1>7

\* What has to be shown of an action.
Keeps ==
    /\ ActorInv' /\ (ToldInv => ToldInv')
    /\ Tidy(m) /\ OwnedInv => OwnedInv'

\* The start task is for a machine that did not start.
LEMMA StartsOnce ==
    ASSUME ActorInv, IsNext(Self, Start)
    PROVE  status = "none"
<1>1. ASSUME status # "none" PROVE FALSE
  <2>1. mailbox \in Seq(Tasks) /\ mailbox # <<>> /\ Head(mailbox) = Task(Self, Start)
    BY <1>1, ShellIsShell DEF ActorInv, IsShell, IsNext
  <2>2. Head(mailbox) \in Tasks
    BY <2>1
  <2>3. Task(Self, Start) \in Tasks
    BY <2>1, <2>2
  <2> QED
    BY <2>3 DEF Tasks, Task
<1> QED
  BY <1>1

\* A machine starts.
LEMMA StartMachineKeeps ==
    ASSUME ActorInv, StartMachine
    PROVE  Keeps
<1> DEFINE step == Macrostep(InitialStep)
<1>1. m \in Machines /\ Enter(step, Popped) /\ m' = m /\ saved' = saved /\ restoring' = restoring
  BY DEF StartMachine, ActorInv
<1>2. status = "none"
  BY StartsOnce DEF StartMachine
<1>3. /\ IsShell(Popped) /\ Sound(Popped) /\ Told(Popped) /\ Owned(Popped)
      /\ Registered(Popped) = {}
  BY <1>2, BeginningIsSound
<1>4. IsStep(InitialStep) /\ (Tidy(m) => OnPlan(InitialStep, {}))
  BY <1>1, InitialStepKeeps
<1>5. /\ IsStep(step)
      /\ Tidy(m) => Clean(step.effects, {}) /\ (step.leaf \notin m.final => OnPlan(step, {}))
  BY <1>1, <1>4, MacrostepKeeps
<1> HIDE DEF step
<1>6. /\ ActorInv' /\ ToldInv'
      /\ Tidy(m) /\ OwnedInv => OwnedInv'
  BY <1>1, <1>3, <1>5, EnteringKeeps
<1> QED
  BY <1>6 DEF Keeps

\* A finite set as a sequence has each element once.
LEMMA OnceEach ==
    ASSUME NEW S, IsFiniteSet(S)
    PROVE  /\ Cardinality(S) \in Nat /\ SetToSeq(S) \in [1 .. Cardinality(S) -> S]
           /\ \A i, j \in 1 .. Cardinality(S) : SetToSeq(S)[i] = SetToSeq(S)[j] => i = j
           /\ \A c \in S : \E i \in 1 .. Cardinality(S) : SetToSeq(S)[i] = c
<1> DEFINE n == Cardinality(S)
<1>1. n \in Nat /\ ExistsBijection(1 .. n, S)
  BY FS_CardinalityType
<1>2. PICK g : g \in Bijection(1 .. n, S)
  BY <1>1 DEF ExistsBijection
<1>3. g \in [1 .. n -> S] /\ IsInjective(g)
  BY <1>2 DEF Bijection, Injection
<1>4. SetToSeq(S) \in [1 .. n -> S] /\ IsInjective(SetToSeq(S))
  BY <1>3 DEF SetToSeq
<1>5. SetToSeq(S) \in Injection(1 .. n, S)
  BY <1>4 DEF Injection
<1>6. Cardinality(1 .. n) = n
  BY <1>1, FS_Interval
<1>7. SetToSeq(S) \in Surjection(1 .. n, S)
  BY <1>5, <1>6, FS_Injection
<1> QED
  BY <1>1, <1>4, <1>7 DEF IsInjective, Surjection

\* A restored machine spawns each of them once.
LEMMA RespawningKeeps ==
    ASSUME m \in Machines, IsSave(m, restoring), restoring # NoSave
    PROVE  /\ Respawned \in Seq(Effects)
           /\ After(Respawned, {}) = KeptIn(restoring) /\ Clean(Respawned, {})
<1> DEFINE K == KeptIn(restoring)
           ids == SetToSeq(K)
           n == Cardinality(K)
<1>1. K \in SUBSET ChildIds /\ IsFiniteSet(K)
  BY FS_Subset, NamesAssumption DEF KeptIn
<1>2. /\ n \in Nat /\ ids \in [1 .. n -> K]
      /\ \A i, j \in 1 .. n : ids[i] = ids[j] => i = j
      /\ \A c \in K : \E i \in 1 .. n : ids[i] = c
  BY <1>1, OnceEach
<1>3. \A c \in K : restoring.children[c] \in Statuses
  BY <1>1 DEF IsSave, KeptIn
<1>4. Respawned = [i \in 1 .. n |-> Effect("respawnChild", Named(ids[i]), ids[i], Control("none"), 0)]
  BY <1>2 DEF Respawned, KeptIn
<1> HIDE DEF K, ids, n
<1>5. \A i \in 1 .. n :
         Effect("respawnChild", Named(ids[i]), ids[i], Control("none"), 0) \in Effects
  <2>1. Control("none") \in Messages /\ Control("none") # Start
    <3>1. Control("none")[1] = "none" /\ Start[1] = "start"
      BY DEF Start, Control
    <3> QED
      BY <3>1 DEF Messages
  <2>2. \A i \in 1 .. n : ids[i] \in ChildIds /\ restoring.children[ids[i]] \in Statuses
    BY <1>1, <1>2, <1>3
  <2>3. \A i \in 1 .. n : Named(ids[i]) \in Ids
    <3>1. \A c \in ChildIds : c \in STRING
      BY NamesAssumption
    <3> QED
      BY <2>2, <3>1 DEF Ids
  <2> QED
    BY <2>1, <2>2, <2>3 DEF Effect, Effects, EffectKinds
<1>6. Respawned \in [1 .. n -> Effects]
  BY <1>4, <1>5
<1>7. Respawned \in Seq(Effects) /\ Len(Respawned) = n
  BY <1>2, <1>6
<1>8. ASSUME NEW i \in 1 .. n, NEW c \in ChildIds
      PROVE  ~Stops(Respawned[i], c) /\ (Spawns(Respawned[i], c) <=> ids[i] = c)
  <2> DEFINE x == Respawned[i]
  <2>1. x.kind = "respawnChild" /\ x.to = ids[i]
    <3>1. x = Effect("respawnChild", Named(ids[i]), ids[i], Control("none"), 0)
      BY <1>4
    <3> HIDE DEF x
    <3> QED
      BY <3>1 DEF Effect
  <2> HIDE DEF x
  <2>2. ~Stops(x, c) /\ (Spawns(x, c) <=> ids[i] = c)
    BY <2>1 DEF Spawns, Stops
  <2> QED
    BY <2>2 DEF x
<1>9. \A c \in ChildIds : c \in K <=> \E i \in 1 .. n : Spawns(Respawned[i], c)
  BY <1>2, <1>8
<1>10. \A c \in ChildIds : \A i, j \in 1 .. n :
          Spawns(Respawned[i], c) /\ Spawns(Respawned[j], c) => i = j
  BY <1>2, <1>8
<1>11. After(Respawned, {}) = {} \cup (K \cap ChildIds) /\ Clean(Respawned, {})
  <2>1. {} \in SUBSET ChildIds /\ {} \cap K = {}
    OBVIOUS
  <2> QED
    BY <1>2, <1>7, <1>8, <1>9, <1>10, <2>1, OnlySpawns
<1> QED
  BY <1>1, <1>7, <1>11 DEF K

\* A restored machine has the children it was persisted with.
LEMMA RestoreMachineKeeps ==
    ASSUME ActorInv, RestoreMachine
    PROVE  Keeps
<1> DEFINE list == Rearmed \o Respawned
           new == ExecuteEffects(Popped, list)
           s == restoring.leaf
<1>1. /\ m \in Machines /\ m' = m /\ saved' = saved /\ restoring' = restoring
      /\ leaf' = s /\ status' = restoring.status /\ restoring # NoSave
      /\ IsSave(m, restoring)
      /\ Become(IF status' = "active" THEN new ELSE Popped)
  BY DEF RestoreMachine, ActorInv
<1>2. status = "none"
  BY StartsOnce DEF RestoreMachine
<1>3. /\ IsShell(Popped) /\ Sound(Popped) /\ Told(Popped) /\ Owned(Popped)
      /\ Registered(Popped) = {}
  BY <1>2, BeginningIsSound
<1>4. s \in States /\ s \in DOMAIN m.after /\ status' \in {"active", "done", "stopped"}
  BY <1>1 DEF IsSave, States
<1> HIDE DEF new, list
<1>5. ASSUME status' # "active" PROVE Keeps
  <2>1. Become(Popped) /\ leaf' \in DOMAIN m.after
    BY <1>1, <1>4, <1>5
  <2>2. /\ ActorInv' /\ (Told(Popped) => ToldInv')
        /\ OwnedInv /\ Owned(Popped)
              /\ (status' = "active" => Manned(m, leaf', Registered(Popped))) => OwnedInv'
    BY <1>1, <1>3, <1>4, <2>1, StartedKeeps
  <2> QED
    BY <1>3, <1>5, <2>2 DEF Keeps
<1>6. ASSUME status' = "active" PROVE Keeps
  <2>1. Become(new)
    BY <1>1, <1>6
  <2>2. /\ Rearmed \in Seq(Effects) /\ After(Rearmed, {}) = {} /\ Clean(Rearmed, {})
    <3>1. {} \in SUBSET ChildIds
      OBVIOUS
    <3>2. StartDelays(s) \in Seq(Effects) /\ After(StartDelays(s), {}) = {}
          /\ Clean(StartDelays(s), {})
      BY <1>1, <1>4, <3>1, DelaysHaveEffects
    <3> QED
      BY <3>2 DEF Rearmed
  <2>3. /\ Respawned \in Seq(Effects)
        /\ After(Respawned, {}) = KeptIn(restoring) /\ Clean(Respawned, {})
    BY <1>1, RespawningKeeps
  <2>4. /\ list \in Seq(Effects) /\ Clean(list, {})
        /\ After(list, {}) = KeptIn(restoring)
    <3>1. Clean(Respawned, After(Rearmed, {}))
      BY <2>2, <2>3
    <3>2. Rearmed \o Respawned \in Seq(Effects) /\ Clean(Rearmed \o Respawned, {})
          /\ After(Rearmed \o Respawned, {}) = After(Respawned, After(Rearmed, {}))
      BY <2>2, <2>3, <3>1, OneMore
    <3> QED
      BY <2>2, <2>3, <3>2 DEF list
  <2>5. /\ IsShell(new) /\ Sound(new) /\ (Told(Popped) => Told(new))
        /\ new.room => Registered(new) = After(list, Registered(Popped))
        /\ new.room /\ Clean(list, Registered(Popped)) /\ Owned(Popped) => Owned(new)
    BY <1>3, <2>4, ListKeeps DEF new
  <2>6. new.room
    BY <2>1, Becoming
  <2>7. Registered(new) = KeptIn(restoring) /\ Owned(new) /\ Told(new)
    BY <1>3, <2>4, <2>5, <2>6
  <2>8. ActorInv' /\ ToldInv'
    BY <1>1, <1>4, <2>1, <2>5, <2>7, StartedKeeps
  <2>9. ASSUME OwnedInv PROVE OwnedInv'
    <3>1. Manned(m, leaf', Registered(new))
      BY <1>1, <1>6, <2>7, <2>9 DEF OwnedInv, MannedSave
    <3> QED
      BY <1>1, <1>4, <2>1, <2>5, <2>7, <2>9, <3>1, StartedKeeps
  <2> QED
    BY <2>8, <2>9 DEF Keeps
<1> QED
  BY <1>5, <1>6

\* The machine hears of a child when it takes its report.
LEMMA Hearing ==
    ASSUME NEW K
    PROVE  [Popped EXCEPT !.heard = @ \cup K] = Taken(Shell, K)
<1>1. Shell.heard = heard /\ Shell.mailbox = mailbox
  BY ShellIsShell
<1>2. PICK q : q = Tail(Shell.mailbox)
  OBVIOUS
<1>3. PICK no : no = TRUE
  OBVIOUS
<1>4. Shell = [timers |-> timers, children |-> children, object |-> object,
               mailbox |-> mailbox, heard |-> heard, room |-> no]
  BY <1>3 DEF Shell
<1>5. PICK h : h = Shell.heard \cup K
  OBVIOUS
<1>6. Popped = [Shell EXCEPT !.mailbox = q]
  BY <1>2 DEF Popped
<1>7. Taken(Shell, K) = [Shell EXCEPT !.mailbox = q, !.heard = h]
  BY <1>2, <1>5, Zenon DEF Taken
<1>8. Popped = [timers |-> timers, children |-> children, object |-> object,
                mailbox |-> q, heard |-> heard, room |-> no]
  BY <1>4, <1>6
<1>9. Taken(Shell, K) = [timers |-> timers, children |-> children, object |-> object,
                         mailbox |-> q, heard |-> h, room |-> no]
  BY <1>4, <1>7
<1>10. [Popped EXCEPT !.heard = @ \cup K] = [Popped EXCEPT !.heard = h]
  <2>1. Popped.heard \cup K = h
    BY <1>1, <1>5, <1>8
  <2> QED
    BY <2>1
<1> QED
  BY <1>8, <1>9, <1>10

\* A machine is told an event: those it has no transition for change nothing.
LEMMA ReceiveKeeps ==
    ASSUME ActorInv, Receive
    PROVE  Keeps
<1> DEFINE t == Head(mailbox)
           K == {c \in ChildIds : t.event = DoneActor(c)}
           told == Taken(Shell, K)
           R == Registered(Shell)
           ways == Candidates(leaf, t.event)
           here == [leaf |-> leaf, raised |-> <<>>, effects |-> <<>>]
           i == Min(ways)
           micro == Microstep(here, m.trans[i])
           step == Macrostep(micro)
<1>1. /\ m \in Machines /\ m' = m /\ saved' = saved /\ restoring' = restoring
      /\ status = "active" /\ leaf \in States /\ leaf \in DOMAIN m.after
      /\ mailbox # <<>> /\ t.to = Self
      /\ IsShell(Shell) /\ Sound(Shell)
  BY DEF Receive, ActorInv, States
<1>2. [Popped EXCEPT !.heard = @ \cup K] = told
  BY Hearing
<1>3. IF ways = {} THEN Become(told) /\ leaf' = leaf /\ status' = status
                   ELSE Enter(step, told)
  BY <1>2 DEF Receive
<1>4. /\ IsShell(told) /\ Sound(told) /\ Registered(told) = R
      /\ (Told(Shell) => Told(told)) /\ (Owned(Shell) => Owned(told))
  <2>1. \A c \in ChildIds : t = Task(Self, DoneActor(c)) => c \in K
    BY DEF Task
  <2>2. Shell.mailbox = mailbox /\ K \in SUBSET ChildIds
    BY ShellIsShell
  <2> HIDE DEF K, told
  <2>3. /\ IsShell(told) /\ Sound(told) /\ Registered(told) = R
        /\ Told(Shell) /\ (\A c \in ChildIds :
              Head(Shell.mailbox) = Task(Self, DoneActor(c)) => c \in K) => Told(told)
        /\ Owned(Shell) /\ Head(Shell.mailbox).to = Self => Owned(told)
    BY <1>1, <2>2, TakingKeeps DEF told
  <2> QED
    BY <1>1, <2>1, <2>2, <2>3
<1> HIDE DEF told, K, ways, step, R
<1>5. CASE ways = {}
  <2>1. Become(told) /\ leaf' = leaf /\ status' = "active" /\ leaf' \in DOMAIN m.after
    BY <1>1, <1>3, <1>5
  <2>2. ActorInv' /\ (Told(told) => ToldInv')
    BY <1>1, <1>4, <2>1, StartedKeeps
  <2>3. ASSUME OwnedInv PROVE OwnedInv'
    <3>1. Owned(told) /\ Manned(m, leaf', Registered(told))
      BY <1>1, <1>4, <2>1, <2>3 DEF OwnedInv, R
    <3> QED
      BY <1>1, <1>4, <2>1, <2>3, <3>1, StartedKeeps
  <2> QED
    BY <1>1, <1>4, <2>2, <2>3 DEF Keeps, ToldInv
<1>6. CASE ways # {}
  <2>1. Enter(step, told)
    BY <1>3, <1>6
  <2>2. i \in DOMAIN m.trans /\ m.trans[i].from \in {leaf, Top}
    BY <1>1, <1>6, OneOfTheCandidates DEF ways
  <2> HIDE DEF i
  <2>3. IsStep(here)
    BY <1>1 DEF IsStep
  <2>4. ASSUME Manned(m, leaf, R) PROVE OnPlan(here, R)
    <3>1. here.leaf = leaf /\ here.effects = <<>>
      OBVIOUS
    <3>2. R \in SUBSET ChildIds
      BY DEF R, Registered
    <3>3. Len(<<>>) \in Nat /\ \A j \in 1 .. Len(<<>>) : FALSE
      OBVIOUS
    <3>4. After(<<>>, R) = R /\ Clean(<<>>, R)
      BY <3>2, <3>3, NoChildren
    <3> QED
      BY <2>4, <3>1, <3>4 DEF OnPlan
  <2>5. here.leaf = leaf
    OBVIOUS
  <2> HIDE DEF here
  <2>6. IsStep(micro)
    BY <1>1, <2>2, <2>3, MicrostepIsStep
  <2>7. ASSUME Tidy(m), Manned(m, leaf, R) PROVE OnPlan(micro, R)
    BY <1>1, <2>2, <2>3, <2>4, <2>5, <2>7, MicrostepOnPlan
  <2> HIDE DEF micro
  <2>8. IsStep(step) /\ (Tidy(m) /\ Manned(m, leaf, R) =>
           Clean(step.effects, R) /\ (step.leaf \notin m.final => OnPlan(step, R)))
    BY <1>1, <2>6, <2>7, MacrostepKeeps DEF step
  <2>9. /\ ActorInv' /\ (Told(told) => ToldInv')
        /\ /\ OwnedInv /\ Owned(told) /\ Clean(step.effects, Registered(told))
           /\ step.leaf \notin m.final => OnPlan(step, Registered(told))
           => OwnedInv'
    BY <1>1, <1>4, <2>1, <2>8, EnteringKeeps
  <2>10. ASSUME Tidy(m), OwnedInv PROVE OwnedInv'
    <3>1. Owned(Shell) /\ Manned(m, leaf, R)
      BY <1>1, <2>10 DEF OwnedInv, R
    <3> QED
      BY <1>4, <2>8, <2>9, <2>10, <3>1
  <2> QED
    BY <1>1, <1>4, <2>9, <2>10 DEF Keeps, ToldInv
<1> QED
  BY <1>5, <1>6

\* A machine that waits to be started is told nothing else first.
LEMMA StartComesFirst ==
    ASSUME ActorInv, mailbox # <<>>, Head(mailbox) # Task(Self, Start)
    PROVE  /\ status # "none" /\ leaf \in DOMAIN m.after
           /\ IsShell(Shell) /\ Sound(Shell)
<1>1. status # "none"
  BY BeginningIsSound
<1> QED
  BY <1>1 DEF ActorInv

\* What a machine that is done or stopped is told is dropped.
LEMMA DeadLetterKeeps ==
    ASSUME ActorInv, DeadLetter
    PROVE  Keeps
<1>1. /\ m' = m /\ saved' = saved /\ restoring' = restoring /\ leaf' = leaf /\ status' = status
      /\ mailbox # <<>> /\ Head(mailbox).to = Self /\ Head(mailbox).event # Start
      /\ status \notin {"none", "active"} /\ Become(Popped)
  BY DEF DeadLetter
<1>2. Head(mailbox) # Task(Self, Start)
  BY <1>1 DEF Task
<1>3. leaf \in DOMAIN m.after /\ IsShell(Shell) /\ Sound(Shell)
  BY <1>1, <1>2, StartComesFirst
<1>4. Popped = Taken(Shell, {}) /\ Shell.mailbox = mailbox /\ {} \in SUBSET ChildIds
  BY ShellIsShell
<1>5. IsShell(Popped) /\ Sound(Popped) /\ (Owned(Shell) => Owned(Popped))
  BY <1>1, <1>3, <1>4, TakingKeeps
<1>6. status' \in {"active", "done", "stopped"} /\ status' # "active"
  BY <1>1 DEF ActorInv, Statuses
<1>7. /\ ActorInv'
      /\ OwnedInv /\ Owned(Popped) /\ (status' = "active" => Manned(m, leaf', Registered(Popped)))
             => OwnedInv'
  BY <1>1, <1>3, <1>5, <1>6, StartedKeeps
<1>8. ToldInv'
  BY <1>6 DEF ToldInv
<1>9. OwnedInv => OwnedInv'
  BY <1>1, <1>5, <1>6, <1>7 DEF OwnedInv
<1> QED
  BY <1>7, <1>8, <1>9 DEF Keeps

\* A machine that stops forgets its children and timers; its children are stopped.
LEMMA StopMachineKeeps ==
    ASSUME ActorInv, StopMachine
    PROVE  Keeps
<1> DEFINE stopped == [o \in Objects |->
               IF \E c \in ChildIds : children[c] = o
               THEN [object[o] EXCEPT !.status = "stopped"] ELSE object[o]]
           nobody == [c \in ChildIds |-> NoObject]
           cleared == [Popped EXCEPT !.object = stopped, !.timers = <<>>, !.children = nobody]
           list == ExitActions(leaf)
           new == ExecuteEffects(cleared, list)
<1>1. /\ m' = m /\ saved' = saved /\ restoring' = restoring /\ leaf' = leaf
      /\ status' = "stopped"
      /\ mailbox # <<>> /\ Head(mailbox) = Task(Self, Stop)
      /\ Become(IF status = "active" THEN new ELSE cleared)
  BY DEF StopMachine, IsNext
<1>2. Head(mailbox) # Task(Self, Start) /\ Head(mailbox).to = Self
  BY <1>1 DEF Task, Start, Stop, Control
<1>3. m \in Machines /\ leaf \in DOMAIN m.after /\ IsShell(Shell) /\ Sound(Shell) /\ status # "none"
  BY <1>1, <1>2, StartComesFirst DEF ActorInv
<1>4. /\ Popped = Taken(Shell, {}) /\ {} \in SUBSET ChildIds
      /\ Shell.mailbox = mailbox /\ Shell.children = children /\ Shell.object = object
  BY ShellIsShell
<1>5. /\ IsShell(Popped) /\ Sound(Popped) /\ (Owned(Shell) => Owned(Popped))
      /\ Popped.children = children /\ Popped.object = object
      /\ Alive(Popped) \subseteq Alive(Shell)
  BY <1>1, <1>2, <1>3, <1>4, TakingKeeps
<1>6. /\ stopped \in [Objects -> Kids] /\ nobody \in [ChildIds -> Objects \cup {NoObject}]
      /\ \A o \in Objects : stopped[o].id = object[o].id
      /\ \A o \in Objects : stopped[o].status # "stopped" =>
            stopped[o] = object[o] /\ \A c \in ChildIds : children[c] # o
  <2>1. object \in [Objects -> Kids]
    BY <1>3, <1>4 DEF IsShell
  <2>2. ASSUME NEW o \in Objects
        PROVE  /\ stopped[o] \in Kids /\ stopped[o].id = object[o].id
               /\ stopped[o].status # "stopped" =>
                     stopped[o] = object[o] /\ \A c \in ChildIds : children[c] # o
    <3>1. object[o] \in Kids
      BY <2>1
    <3>2. CASE \E c \in ChildIds : children[c] = o
      <4>1. stopped[o] = [object[o] EXCEPT !.status = "stopped"]
        BY <3>2
      <4> HIDE DEF stopped
      <4> QED
        BY <3>1, <4>1 DEF Kids, Statuses
    <3>3. CASE ~\E c \in ChildIds : children[c] = o
      <4>1. stopped[o] = object[o]
        BY <3>3
      <4> HIDE DEF stopped
      <4> QED
        BY <3>1, <3>3, <4>1
    <3> QED
      BY <3>2, <3>3
  <2>3. stopped \in [Objects -> Kids]
    BY <2>2
  <2> QED
    BY <2>2, <2>3
<1>7. \A c \in ChildIds : nobody[c] = NoObject
  OBVIOUS
<1> HIDE DEF stopped, nobody
<1>8. cleared = [timers |-> <<>>, children |-> nobody, object |-> stopped,
                 mailbox |-> Popped.mailbox, heard |-> Popped.heard, room |-> Popped.room]
  <2>1. Popped = [timers |-> Popped.timers, children |-> Popped.children,
                  object |-> Popped.object, mailbox |-> Popped.mailbox,
                  heard |-> Popped.heard, room |-> Popped.room]
    BY <1>5 DEF IsShell
  <2>2. PICK sh : sh = Popped
    OBVIOUS
  <2>3. PICK none : none = <<>>
    OBVIOUS
  <2>4. sh = [timers |-> sh.timers, children |-> sh.children, object |-> sh.object,
              mailbox |-> sh.mailbox, heard |-> sh.heard, room |-> sh.room]
    BY <2>1, <2>2, Zenon
  <2>5. cleared = [sh EXCEPT !.object = stopped, !.timers = none, !.children = nobody]
    BY <2>2, <2>3
  <2> HIDE DEF cleared
  <2>6. cleared = [timers |-> none, children |-> nobody, object |-> stopped,
                   mailbox |-> sh.mailbox, heard |-> sh.heard, room |-> sh.room]
    BY <2>4, <2>5
  <2> QED
    BY <2>2, <2>3, <2>6
<1> HIDE DEF cleared
<1>9. IsShell(cleared) /\ Registered(cleared) = {} /\ Alive(cleared) \subseteq Alive(Popped)
  <2>1. IsShell(cleared)
    BY <1>5, <1>6, <1>8 DEF IsShell
  <2>2. Registered(cleared) = {}
    BY <1>7, <1>8 DEF Registered
  <2>3. Alive(cleared) \subseteq Alive(Popped)
    <3>1. Referred(cleared) \subseteq Referred(Popped) \cup {NoObject}
      BY <1>7, <1>8 DEF Referred
    <3> QED
      BY <3>1, NamesApart DEF Alive
  <2> QED
    BY <2>1, <2>2, <2>3
<1>10. Sound(cleared) /\ Told(cleared)
  <2>1. \A o \in Alive(cleared) : o \in Objects /\ object[o].id \in ChildIds
    BY <1>5, <1>9 DEF Sound, Alive
  <2>2. \A o \in Alive(cleared) : cleared.object[o].id \in ChildIds
    BY <1>6, <1>8, <2>1
  <2> QED
    BY <1>9, <2>2 DEF Sound, Told
<1>11. ASSUME Owned(Shell) PROVE Owned(cleared)
  <2>1. ASSUME NEW o \in Alive(cleared), stopped[o].status \in {"none", "active"}
        PROVE  Task(o, Stop) \in ToSet(Popped.mailbox)
    <3>1. o \in Objects /\ o \in Alive(Popped) /\ object[o].id \in ChildIds
      BY <1>5, <1>9 DEF Alive, Sound
    <3>2. stopped[o] = object[o] /\ children[object[o].id] # o
      BY <1>6, <2>1, <3>1
    <3> QED
      BY <1>5, <1>11, <2>1, <3>1, <3>2 DEF Owned
  <2> QED
    BY <1>8, <2>1 DEF Owned
<1>12. leaf' \in DOMAIN m.after /\ status' \in {"active", "done", "stopped"} /\ status' # "active"
  BY <1>1, <1>3
<1>13. ToldInv'
  BY <1>12 DEF ToldInv
<1>14. ASSUME status = "active" PROVE Keeps
  <2>1. list \in Seq(Effects) /\ (Tidy(m) => Clean(list, {}))
    BY <1>3, ExitingKeeps DEF States
  <2> HIDE DEF list
  <2>2. /\ IsShell(new) /\ Sound(new)
        /\ new.room /\ Clean(list, Registered(cleared)) /\ Owned(cleared) => Owned(new)
    BY <1>9, <1>10, <2>1, ListKeeps
  <2> HIDE DEF new
  <2>3. Become(new) /\ new.room
    BY <1>1, <1>14, Becoming
  <2>4. /\ ActorInv'
        /\ OwnedInv /\ Owned(new) /\ (status' = "active" => Manned(m, leaf', Registered(new)))
               => OwnedInv'
    BY <1>1, <1>12, <2>2, <2>3, StartedKeeps
  <2>5. ASSUME Tidy(m), OwnedInv PROVE OwnedInv'
    BY <1>3, <1>9, <1>11, <1>12, <2>1, <2>2, <2>3, <2>4, <2>5 DEF OwnedInv
  <2> QED
    BY <1>13, <2>4, <2>5 DEF Keeps
<1>15. ASSUME status # "active" PROVE Keeps
  <2> HIDE DEF new
  <2>1. Become(cleared)
    BY <1>1, <1>15
  <2>2. /\ ActorInv'
        /\ OwnedInv /\ Owned(cleared)
              /\ (status' = "active" => Manned(m, leaf', Registered(cleared))) => OwnedInv'
    BY <1>1, <1>9, <1>10, <1>12, <2>1, StartedKeeps
  <2>3. OwnedInv => OwnedInv'
    BY <1>3, <1>11, <1>12, <2>2 DEF OwnedInv
  <2> QED
    BY <1>13, <2>2, <2>3 DEF Keeps
<1> QED
  BY <1>14, <1>15

\* A child that runs is still referred to and has told the machine when it is done.
LEMMA ChildEntersKeeps ==
    ASSUME NEW sh, IsShell(sh), Sound(sh), NEW o \in Objects, NEW new \in Statuses,
           object[o].id \in ChildIds, sh.object[o].id = object[o].id
    PROVE  LET next == ChildEnters(sh, o, new)
           IN /\ IsShell(next) /\ Sound(next) /\ Registered(next) = Registered(sh)
              /\ Alive(next) = Alive(sh) /\ next.children = sh.children
              /\ next.heard = sh.heard /\ ToSet(sh.mailbox) \subseteq ToSet(next.mailbox)
              /\ new = "done" => Task(Self, DoneActor(object[o].id)) \in ToSet(next.mailbox)
              /\ next.object[o].status = new
              /\ \A x \in Objects : next.object[x].id = sh.object[x].id
              /\ \A x \in Objects \ {o} : next.object[x] = sh.object[x]
<1> DEFINE objs == [sh.object EXCEPT ![o].status = new]
           there == [sh EXCEPT !.object[o].status = new]
           event == DoneActor(object[o].id)
           next == ChildEnters(sh, o, new)
<1>1. /\ objs \in [Objects -> Kids] /\ objs[o].status = new
      /\ \A x \in Objects : objs[x].id = sh.object[x].id
      /\ \A x \in Objects \ {o} : objs[x] = sh.object[x]
  <2>1. sh.object \in [Objects -> Kids]
    BY DEF IsShell
  <2> HIDE DEF objs
  <2>2. PICK k : k = [sh.object[o] EXCEPT !.status = new]
    OBVIOUS
  <2>3. k \in Kids /\ k.status = new /\ k.id = sh.object[o].id
    BY <2>1, <2>2 DEF Kids
  <2>4. objs = [sh.object EXCEPT ![o] = k]
    BY <2>2 DEF objs
  <2> QED
    BY <2>1, <2>3, <2>4
<1>2. there = [sh EXCEPT !.object = objs]
  OBVIOUS
<1>3. next = IF new = "done" THEN Post(there, Self, event) ELSE there
  BY DEF ChildEnters
<1> HIDE DEF objs, there, next
<1>4. there = [timers |-> sh.timers, children |-> sh.children, object |-> objs,
               mailbox |-> sh.mailbox, heard |-> sh.heard, room |-> sh.room]
  <2>1. sh = [timers |-> sh.timers, children |-> sh.children, object |-> sh.object,
              mailbox |-> sh.mailbox, heard |-> sh.heard, room |-> sh.room]
    BY DEF IsShell
  <2> QED
    BY <1>2, <2>1
<1>5. IsShell(there) /\ Registered(there) = Registered(sh) /\ Alive(there) = Alive(sh)
  <2>1. IsShell(there)
    BY <1>1, <1>4 DEF IsShell
  <2> QED
    BY <1>4, <2>1 DEF Registered, Alive, Referred
<1>6. Sound(there)
  <2>1. \A c \in Registered(sh) : sh.children[c] \in Objects
    BY RegisteredAreAlive DEF Alive
  <2>2. \A x \in Alive(sh) : x \in Objects
    BY DEF Alive
  <2> QED
    BY <1>1, <1>4, <1>5, <2>1, <2>2 DEF Sound
<1>7. CASE new # "done"
  <2>1. next = there
    BY <1>3, <1>7
  <2> QED
    BY <1>1, <1>4, <1>5, <1>6, <1>7, <2>1 DEF next
<1>8. CASE new = "done"
  <2>1. next = Post(there, Self, event)
    BY <1>3, <1>8
  <2>2. event \in Messages /\ event # Start
    <3>1. object[o].id \in STRING /\ 0 \in Nat
      BY NamesAssumption
    <3> QED
      BY <3>1, EventsByKind DEF Messages
  <2> HIDE DEF event
  <2>3. Self \in {Self, NoObject} \cup Alive(there) /\ Self # NoObject
    BY NamesApart
  <2>4. /\ IsShell(next) /\ next.children = there.children /\ next.object = there.object
        /\ next.heard = there.heard /\ Alive(next) = Alive(there)
        /\ ToSet(there.mailbox) \subseteq ToSet(next.mailbox)
        /\ Task(Self, event) \in ToSet(next.mailbox)
    BY <1>5, <2>1, <2>2, <2>3, Posting
  <2>5. Sound(next) /\ Registered(next) = Registered(there)
    BY <1>5, <1>6, <2>1, <2>2, <2>3, PostingKeeps
  <2>6. ToSet(sh.mailbox) \subseteq ToSet(next.mailbox)
    BY <1>4, <2>4
  <2> QED
    BY <1>1, <1>4, <1>5, <2>4, <2>5, <2>6 DEF next, event
<1> QED
  BY <1>7, <1>8

\* A child takes a task.
LEMMA ChildTaskKeeps ==
    ASSUME ActorInv, ChildTask
    PROVE  Keeps
<1> DEFINE t == Head(mailbox)
           o == t.to
           e == t.event
           was == object[o].status
           new == CASE e = Start /\ was = "none" ->
                          IF object[o].from = "none" THEN "active" ELSE object[o].from
                    [] e = Finish /\ was = "active" -> "done"
                    [] e = Stop -> "stopped"
                    [] OTHER -> was
           next == IF new = was THEN Popped ELSE ChildEnters(Popped, o, new)
<1>1. /\ m' = m /\ saved' = saved /\ restoring' = restoring /\ leaf' = leaf /\ status' = status
      /\ mailbox # <<>> /\ o # Self /\ Become(next)
  BY DEF ChildTask
<1>2. t # Task(Self, Start)
  BY <1>1 DEF Task
<1>3. /\ m \in Machines /\ leaf \in DOMAIN m.after /\ IsShell(Shell) /\ Sound(Shell)
      /\ status # "none" /\ status \in Statuses
  BY <1>1, <1>2, StartComesFirst DEF ActorInv
<1>4. /\ Popped = Taken(Shell, {}) /\ {} \in SUBSET ChildIds
      /\ Shell.mailbox = mailbox /\ Shell.children = children /\ Shell.object = object
      /\ Shell.heard = heard
  BY ShellIsShell
<1>5. /\ IsShell(Popped) /\ Sound(Popped) /\ t \in Tasks
      /\ ToSet(mailbox) = {t} \cup ToSet(Popped.mailbox)
      /\ Popped.children = children /\ Popped.object = object
      /\ Registered(Popped) = Registered(Shell) /\ Alive(Popped) \subseteq Alive(Shell)
      /\ Told(Shell) /\ (\A c \in ChildIds : t = Task(Self, DoneActor(c)) => c \in {}) => Told(Popped)
  BY <1>1, <1>3, <1>4, TakingKeeps
<1>6. /\ o \in Objects /\ o \in Alive(Shell)
      /\ object[o] \in Kids /\ object[o].id \in ChildIds
  <2>1. o \in Objects
    BY <1>1, <1>5 DEF Tasks
  <2>2. t \in ToSet(mailbox)
    BY <1>5
  <2>3. o \in Alive(Shell)
    BY <1>4, <2>1, <2>2 DEF Alive, Referred
  <2>4. object \in [Objects -> Kids]
    BY <1>3, <1>4 DEF IsShell
  <2> QED
    BY <1>3, <1>4, <2>1, <2>3, <2>4 DEF Sound
<1>7. Told(Shell) => Told(Popped)
  <2>1. \A c \in ChildIds : t # Task(Self, DoneActor(c))
    BY <1>1 DEF Task
  <2> QED
    BY <1>5, <2>1
\* What it becomes, and that it does not go on after it is stopped.
<1>8. /\ new \in Statuses /\ was \in Statuses
      /\ e = Stop => new \notin {"none", "active"}
      /\ new # was /\ new \in {"none", "active"} => was \in {"none", "active"}
  <2> HIDE DEF e, was, o, new, next
  <2>1. Start # Stop /\ Finish # Stop /\ Start # Finish
    <3>1. Start[1] = "start" /\ Stop[1] = "stop" /\ Finish[1] = "external"
      BY DEF Start, Stop, Finish, Control, External
    <3> QED
      BY <3>1
  <2>2. was \in Statuses /\ object[o].from \in Statuses
    BY <1>6 DEF Kids, was
  <2>3. PICK from : from = object[o].from /\ from \in Statuses
    BY <2>2
  <2>4. new = CASE e = Start /\ was = "none" -> IF from = "none" THEN "active" ELSE from
                [] e = Finish /\ was = "active" -> "done"
                [] e = Stop -> "stopped"
                [] OTHER -> was
    BY <2>3 DEF new
  <2>5. CASE e = Start /\ was = "none"
    <3>1. new = IF from = "none" THEN "active" ELSE from
      BY <2>1, <2>4, <2>5
    <3> QED
      BY <2>1, <2>2, <2>3, <2>5, <3>1 DEF Statuses
  <2>6. CASE e = Finish /\ was = "active"
    <3>1. new = "done"
      BY <2>1, <2>4, <2>6
    <3> QED
      BY <2>1, <2>2, <2>6, <3>1 DEF Statuses
  <2>7. CASE e = Stop
    <3>1. new = "stopped"
      BY <2>1, <2>4, <2>7
    <3> QED
      BY <2>2, <3>1 DEF Statuses
  <2>8. CASE ~(e = Start /\ was = "none") /\ ~(e = Finish /\ was = "active") /\ e # Stop
    <3>1. new = was
      BY <2>4, <2>8
    <3> QED
      BY <2>2, <2>8, <3>1
  <2> QED
    BY <2>5, <2>6, <2>7, <2>8
<1>9. Task(o, Stop) = t => e = Stop
  BY DEF Task
<1>10. \A x : x # o => Task(x, Stop) # t
  BY DEF Task
<1> HIDE DEF new, was, next, e, o, t
<1>11. /\ IsShell(next) /\ Sound(next) /\ Registered(next) = Registered(Shell)
       /\ Told(Shell) => Told(next)
       /\ Owned(Shell) => Owned(next)
  <2>1. CASE new = was
    <3>1. next = Popped
      BY <2>1 DEF next
    <3>2. ASSUME Owned(Shell) PROVE Owned(Popped)
      <4> SUFFICES ASSUME NEW x \in Alive(Popped), object[x].status \in {"none", "active"}
                   PROVE  \/ children[object[x].id] = x
                          \/ Task(x, Stop) \in ToSet(Popped.mailbox)
        BY <1>5 DEF Owned
      <4>1. x = o => e # Stop
        BY <1>8, <2>1 DEF was
      <4>2. Task(x, Stop) # t
        BY <1>9, <1>10, <4>1
      <4>3. children[object[x].id] = x \/ Task(x, Stop) \in ToSet(mailbox)
        BY <1>4, <1>5, <3>2 DEF Owned
      <4> QED
        BY <1>5, <4>2, <4>3
    <3> QED
      BY <1>5, <1>7, <3>1, <3>2
  <2>2. CASE new # was
    <3>1. next = ChildEnters(Popped, o, new)
      BY <2>2 DEF next
    <3>2. /\ IsShell(next) /\ Sound(next) /\ Registered(next) = Registered(Popped)
          /\ Alive(next) = Alive(Popped) /\ next.children = Popped.children
          /\ next.heard = Popped.heard /\ ToSet(Popped.mailbox) \subseteq ToSet(next.mailbox)
          /\ new = "done" => Task(Self, DoneActor(object[o].id)) \in ToSet(next.mailbox)
          /\ next.object[o].status = new
          /\ \A x \in Objects : next.object[x].id = Popped.object[x].id
          /\ \A x \in Objects \ {o} : next.object[x] = Popped.object[x]
      <4>1. Popped.object[o].id = object[o].id
        BY <1>5
      <4>2. /\ IsShell(Popped) /\ Sound(Popped) /\ o \in Objects /\ new \in Statuses
            /\ object[o].id \in ChildIds
        BY <1>5, <1>6, <1>8
      <4> DEFINE n == ChildEnters(Popped, o, new)
      <4>3. /\ IsShell(n) /\ Sound(n) /\ Registered(n) = Registered(Popped)
            /\ Alive(n) = Alive(Popped) /\ n.children = Popped.children
            /\ n.heard = Popped.heard /\ ToSet(Popped.mailbox) \subseteq ToSet(n.mailbox)
            /\ new = "done" => Task(Self, DoneActor(object[o].id)) \in ToSet(n.mailbox)
            /\ n.object[o].status = new
            /\ \A x \in Objects : n.object[x].id = Popped.object[x].id
            /\ \A x \in Objects \ {o} : n.object[x] = Popped.object[x]
        BY <4>1, <4>2, ChildEntersKeeps
      <4> HIDE DEF n
      <4>4. next = n
        BY <3>1 DEF n
      <4> QED
        BY <4>3, <4>4
    <3>3. ASSUME Told(Popped) PROVE Told(next)
      <4> SUFFICES ASSUME NEW c \in Registered(Popped), next.object[children[c]].status = "done"
                   PROVE  c \in Popped.heard \/ Task(Self, DoneActor(c)) \in ToSet(next.mailbox)
        BY <1>5, <3>2 DEF Told
      <4>1. children[c] \in Objects /\ object[children[c]].id = c
        BY <1>5, RegisteredAreAlive DEF Alive, Sound
      <4>2. CASE children[c] = o
        BY <3>2, <4>1, <4>2
      <4>3. CASE children[c] # o
        BY <1>5, <3>2, <3>3, <4>1, <4>3 DEF Told
      <4> QED
        BY <4>2, <4>3
    <3>4. ASSUME Owned(Shell) PROVE Owned(next)
      <4> SUFFICES ASSUME NEW x \in Alive(Popped), next.object[x].status \in {"none", "active"}
                   PROVE  \/ children[object[x].id] = x
                          \/ Task(x, Stop) \in ToSet(next.mailbox)
        <5>1. \A x \in Alive(next) : x \in Objects
          BY DEF Alive
        <5> QED
          BY <1>5, <3>2, <5>1 DEF Owned
      <4>1. x \in Objects /\ x \in Alive(Shell)
        BY <1>5 DEF Alive
      <4>2. object[x].status \in {"none", "active"} /\ (x = o => e # Stop)
        <5>1. CASE x = o
          BY <1>8, <2>2, <3>2, <5>1 DEF was
        <5>2. CASE x # o
          BY <1>5, <3>2, <4>1, <5>2
        <5> QED
          BY <5>1, <5>2
      <4>3. Task(x, Stop) # t
        BY <1>9, <1>10, <4>2
      <4>4. children[object[x].id] = x \/ Task(x, Stop) \in ToSet(mailbox)
        BY <1>4, <3>4, <4>1, <4>2 DEF Owned
      <4> QED
        BY <1>5, <3>2, <4>3, <4>4
    <3> QED
      BY <1>5, <1>7, <3>2, <3>3, <3>4
  <2> QED
    BY <2>1, <2>2
<1>12. status' \in {"active", "done", "stopped"} /\ leaf' \in DOMAIN m.after
  BY <1>1, <1>3 DEF Statuses
<1>13. /\ ActorInv' /\ (Told(next) => ToldInv')
       /\ OwnedInv /\ Owned(next) /\ (status' = "active" => Manned(m, leaf', Registered(next)))
              => OwnedInv'
  BY <1>1, <1>11, <1>12, StartedKeeps
<1>14. ToldInv => ToldInv'
  BY <1>1, <1>11, <1>13 DEF ToldInv
<1>15. OwnedInv => OwnedInv'
  BY <1>1, <1>3, <1>11, <1>13 DEF OwnedInv
<1> QED
  BY <1>13, <1>14, <1>15 DEF Keeps

\* Time passes.
LEMMA TickKeeps ==
    ASSUME ActorInv, Tick
    PROVE  Keeps
<1> DEFINE later == [i \in DOMAIN timers |->
                        [timers[i] EXCEPT !.left = IF @ > 0 THEN @ - 1 ELSE 0]]
<1>1. /\ m' = m /\ status' = status /\ leaf' = leaf /\ children' = children /\ object' = object
      /\ mailbox' = mailbox /\ heard' = heard /\ saved' = saved /\ restoring' = restoring
      /\ timers' = later /\ timers # <<>>
  BY DEF Tick
<1>2. /\ status # "none" /\ leaf \in DOMAIN m.after /\ IsShell(Shell) /\ Sound(Shell)
      /\ timers \in Seq(Timers)
  BY <1>1, ShellIsShell DEF ActorInv, IsShell
<1>3. later \in Seq(Timers)
  <2>1. ASSUME NEW i \in DOMAIN timers
        PROVE  [timers[i] EXCEPT !.left = IF @ > 0 THEN @ - 1 ELSE 0] \in Timers
    <3>1. PICK t : t = timers[i]
      OBVIOUS
    <3>2. t \in Timers
      BY <1>2, <2>1, <3>1
    <3>3. [t EXCEPT !.left = IF @ > 0 THEN @ - 1 ELSE 0] \in Timers
      BY <3>2 DEF Timers
    <3> QED
      BY <3>1, <3>3
  <2>2. DOMAIN timers = 1 .. Len(timers) /\ Len(timers) \in Nat
    BY <1>2
  <2> QED
    BY <2>1, <2>2
<1> HIDE DEF later
<1>4. /\ Shell'.timers = later /\ Shell'.children = children /\ Shell'.object = object
      /\ Shell'.mailbox = mailbox /\ Shell'.heard = heard /\ Shell'.room = TRUE
      /\ Shell' = [timers |-> Shell'.timers, children |-> Shell'.children,
                   object |-> Shell'.object, mailbox |-> Shell'.mailbox,
                   heard |-> Shell'.heard, room |-> Shell'.room]
  BY <1>1 DEF Shell
<1>5. PICK sh : sh = Shell'
  OBVIOUS
<1>6. /\ sh.children = Shell.children /\ sh.object = Shell.object
      /\ sh.mailbox = Shell.mailbox /\ sh.heard = Shell.heard
  BY <1>4, <1>5, ShellIsShell
<1>7. IsShell(sh)
  BY <1>2, <1>3, <1>4, <1>5, <1>6 DEF IsShell
<1>8. Registered(sh) = Registered(Shell) /\ Alive(sh) = Alive(Shell)
  BY <1>6 DEF Registered, Alive, Referred
<1>9. Sound(sh) /\ (Told(Shell) => Told(sh)) /\ (Owned(Shell) => Owned(sh))
  BY <1>2, <1>6, <1>8 DEF Sound, Told, Owned
<1>10. ActorInv'
  <2>1. IsShell(Shell') /\ Sound(Shell') /\ Alive(Shell') = Alive(Shell)
    BY <1>5, <1>7, <1>8, <1>9
  <2>2. /\ m' \in Machines /\ status' \in Statuses /\ status' # "none"
        /\ leaf' \in DOMAIN m'.after /\ IsSave(m', saved') /\ IsSave(m', restoring')
    BY <1>1, <1>2 DEF ActorInv
  <2>3. \A o \in Objects : o \notin Alive(Shell') => object'[o] = Gone
    BY <1>1, <2>1 DEF ActorInv
  <2> QED
    BY <2>1, <2>2, <2>3 DEF ActorInv
<1>11. ToldInv => ToldInv'
  BY <1>1, <1>5, <1>9 DEF ToldInv
<1>12. ASSUME OwnedInv PROVE OwnedInv'
  <2>1. Owned(Shell') /\ Registered(Shell') = Registered(Shell)
    BY <1>2, <1>5, <1>8, <1>9, <1>12 DEF OwnedInv
  <2> QED
    BY <1>1, <1>2, <1>12, <2>1 DEF OwnedInv
<1> QED
  BY <1>10, <1>11, <1>12 DEF Keeps

\* What is posted to an actor that started, whoever posts it.
LEMMA ToldInTime ==
    ASSUME ActorInv, status # "none", m' = m, status' = status, leaf' = leaf,
           saved' = saved, restoring' = restoring,
           NEW sh, IsShell(sh), Sound(sh), Told(Shell) => Told(sh), Owned(Shell) => Owned(sh),
           Registered(sh) = Registered(Shell),
           NEW to \in {Self, NoObject} \cup Alive(sh), NEW event \in Messages, event # Start,
           Become(Post(sh, to, event))
    PROVE  Keeps
<1> DEFINE new == Post(sh, to, event)
<1>1. IsShell(new)
  BY Posting
<1>2. /\ Sound(new) /\ (Told(sh) => Told(new)) /\ (Owned(sh) => Owned(new))
      /\ Registered(new) = Registered(sh)
  BY PostingKeeps
<1> HIDE DEF new
<1>3. leaf' \in DOMAIN m.after /\ status' \in {"active", "done", "stopped"}
  BY DEF ActorInv, Statuses
<1>4. Become(new)
  BY DEF new
<1>5. /\ ActorInv' /\ (Told(new) => ToldInv')
      /\ OwnedInv /\ Owned(new) /\ (status' = "active" => Manned(m, leaf', Registered(new)))
             => OwnedInv'
  BY <1>1, <1>2, <1>3, <1>4, StartedKeeps
<1>6. ToldInv => ToldInv'
  <2>1. CASE status = "active"
    BY <1>2, <1>5, <2>1 DEF ToldInv
  <2>2. CASE status # "active"
    BY <2>2 DEF ToldInv
  <2> QED
    BY <2>1, <2>2
<1>7. OwnedInv => OwnedInv'
  BY <1>2, <1>5 DEF OwnedInv
<1> QED
  BY <1>5, <1>6, <1>7 DEF Keeps

\* A timer fires: whoever it is for is registered, or nobody is told.
LEMMA FireKeeps ==
    ASSUME ActorInv, Fire
    PROVE  Keeps
<1> DEFINE t == Head(timers)
           q == Tail(timers)
           left == [Shell EXCEPT !.timers = Tail(@)]
           to == ResolveTarget(Shell, t.to)
<1>1. /\ timers # <<>> /\ Become(Post(left, to, t.event))
      /\ m' = m /\ status' = status /\ leaf' = leaf /\ saved' = saved /\ restoring' = restoring
  BY DEF Fire
<1>2. /\ status # "none" /\ IsShell(Shell) /\ Sound(Shell) /\ timers \in Seq(Timers)
  BY <1>1, ShellIsShell DEF ActorInv, IsShell
<1>3. t \in Timers /\ q \in Seq(Timers)
  BY <1>1, <1>2
<1>4. left = [Shell EXCEPT !.timers = q]
  BY ShellIsShell
<1> HIDE DEF left, t, q
<1>5. PICK sh : sh = Shell
  OBVIOUS
<1>6. sh = [timers |-> sh.timers, children |-> sh.children, object |-> sh.object,
            mailbox |-> sh.mailbox, heard |-> sh.heard, room |-> sh.room]
  BY <1>2, <1>5 DEF IsShell
<1>7. left = [timers |-> q, children |-> sh.children, object |-> sh.object,
              mailbox |-> sh.mailbox, heard |-> sh.heard, room |-> sh.room]
  BY <1>4, <1>5, <1>6
<1>8. IsShell(sh) /\ Sound(sh)
  BY <1>2, <1>5
<1>9. IsShell(left)
  BY <1>3, <1>7, <1>8 DEF IsShell
<1>10. Registered(left) = Registered(sh) /\ Alive(left) = Alive(sh)
  BY <1>7 DEF Registered, Alive, Referred
<1>11. Sound(left) /\ (Told(sh) => Told(left)) /\ (Owned(sh) => Owned(left))
  BY <1>7, <1>8, <1>10 DEF Sound, Told, Owned
<1>12. t.event \in Messages /\ t.event # Start
  BY <1>3 DEF Timers
<1>13. to \in {Self, NoObject} \cup Alive(left)
  <2>1. t.to \in ChildIds \cup {NoName}
    BY <1>3 DEF Timers
  <2>2. ASSUME t.to \in ChildIds, sh.children[t.to] # NoObject
        PROVE  sh.children[t.to] \in Alive(sh)
    BY <1>8, <2>2, RegisteredAreAlive DEF Registered
  <2> QED
    BY <1>5, <1>10, <2>1, <2>2 DEF ResolveTarget
<1> HIDE DEF to
<1> QED
  BY <1>1, <1>2, <1>5, <1>9, <1>10, <1>11, <1>12, <1>13, ToldInTime

\* What others post to a machine that waits to be started comes behind its start.
LEMMA PostedBeforeStart ==
    ASSUME ActorInv, status = "none", m' = m, status' = status, leaf' = leaf,
           saved' = saved, restoring' = restoring,
           NEW event \in Messages, event # Start, Become(Post(Shell, Self, event))
    PROVE  Keeps
<1> DEFINE S == {t \in Tasks : t.to = Self}
           t == Task(Self, event)
           q == Append(mailbox, t)
           new == [Shell EXCEPT !.mailbox = q]
<1>1. Post(Shell, Self, event) = new
  BY NamesApart, ShellIsShell DEF Post
<1>2. /\ children = [c \in ChildIds |-> NoObject] /\ object = [o \in Objects |-> Gone]
      /\ timers = <<>> /\ heard = {} /\ Waits(mailbox)
  BY DEF ActorInv
<1>3. PICK r \in Seq(S) : mailbox = <<Task(Self, Start)>> \o r
  BY <1>2 DEF Waits
<1>4. t \in S
  BY DEF Tasks, Task
<1> HIDE DEF S, t
<1>5. q = <<Task(Self, Start)>> \o Append(r, t) /\ Append(r, t) \in Seq(S)
  BY <1>3, <1>4
<1>6. Waits(q)
  BY <1>5 DEF Waits, S
<1>7. Become(new)
  BY <1>1
<1> HIDE DEF q, new
<1>8. /\ new.timers = timers /\ new.children = children /\ new.object = object
      /\ new.mailbox = q /\ new.heard = heard
  BY DEF new, Shell
<1>9. /\ timers' = timers /\ children' = children /\ heard' = heard /\ mailbox' = q
      /\ object' = [o \in Objects |-> IF o \in Referred(new) THEN object[o] ELSE Gone]
  BY <1>7, <1>8 DEF Become
<1>10. object' = [o \in Objects |-> Gone]
  BY <1>2, <1>9
<1>11. /\ m' \in Machines /\ status' \in Statuses /\ status' = "none"
       /\ IsSave(m', saved') /\ IsSave(m', restoring')
  BY DEF ActorInv
<1>12. ActorInv'
  BY <1>2, <1>6, <1>9, <1>10, <1>11 DEF ActorInv
<1>13. ToldInv'
  BY <1>11 DEF ToldInv
<1>14. OwnedInv => OwnedInv'
  BY <1>11 DEF OwnedInv
<1> QED
  BY <1>12, <1>13, <1>14 DEF Keeps

\* Other threads post events and stops to the machine and tell its children to finish.
LEMMA PostFromOutsideKeeps ==
    ASSUME ActorInv, PostFromOutside
    PROVE  Keeps
<1>1. /\ m' = m /\ status' = status /\ leaf' = leaf /\ saved' = saved /\ restoring' = restoring
  BY DEF PostFromOutside
<1>2. \/ \E event \in Messages \ {Start} : Become(Post(Shell, Self, event))
      \/ \E c \in Registered(Shell) : Become(Post(Shell, children[c], Finish))
  <2>1. ASSUME NEW e \in ExternalEvents, Become(Post(Shell, Self, External(e)))
        PROVE  \E event \in Messages \ {Start} : Become(Post(Shell, Self, event))
    <3>1. e \in STRING
      BY NamesAssumption
    <3>2. 0 \in Nat
      OBVIOUS
    <3>3. External(e) \in Messages \ {Start}
      BY <3>1, <3>2, EventsByKind DEF Messages
    <3> QED
      BY <2>1, <3>3
  <2>2. Stop \in Messages \ {Start}
    <3>1. Start[1] = "start" /\ Stop[1] = "stop"
      BY DEF Start, Stop, Control
    <3> QED
      BY <3>1 DEF Messages
  <2>3. ASSUME NEW c \in ChildIds, children[c] # NoObject PROVE c \in Registered(Shell)
    BY <2>3, ShellIsShell DEF Registered
  <2> QED
    BY <2>1, <2>2, <2>3 DEF PostFromOutside
<1>3. CASE status = "none"
  <2>1. Registered(Shell) = {}
    <3>1. \A c \in ChildIds : children[c] = NoObject
      BY <1>3 DEF ActorInv
    <3> QED
      BY <3>1, ShellIsShell DEF Registered
  <2>2. PICK event \in Messages \ {Start} : Become(Post(Shell, Self, event))
    BY <1>2, <2>1
  <2> QED
    BY <1>1, <1>3, <2>2, PostedBeforeStart
<1>4. CASE status # "none"
  <2>1. IsShell(Shell) /\ Sound(Shell)
    BY <1>4 DEF ActorInv
  <2>2. CASE \E event \in Messages \ {Start} : Become(Post(Shell, Self, event))
    <3>1. PICK event \in Messages \ {Start} : Become(Post(Shell, Self, event))
      BY <2>2
    <3>2. Self \in {Self, NoObject} \cup Alive(Shell) /\ event \in Messages /\ event # Start
      OBVIOUS
    <3> QED
      BY <1>1, <1>4, <2>1, <3>1, <3>2, ToldInTime
  <2>3. CASE \E c \in Registered(Shell) : Become(Post(Shell, children[c], Finish))
    <3>1. PICK c \in Registered(Shell) : Become(Post(Shell, children[c], Finish))
      BY <2>3
    <3>2. children[c] \in {Self, NoObject} \cup Alive(Shell)
      BY <2>1, ShellIsShell, RegisteredAreAlive
    <3>3. Finish \in Messages /\ Finish # Start
      <4>1. Start[1] = "start" /\ Finish[1] = "external"
        BY DEF Start, Finish, Control, External
      <4> QED
        BY <4>1 DEF Messages
    <3> QED
      BY <1>1, <1>4, <2>1, <3>1, <3>2, <3>3, ToldInTime
  <2> QED
    BY <1>2, <2>2, <2>3
<1> QED
  BY <1>3, <1>4

\* What is persisted of a machine: of an active tidy one, the children of its state.
LEMMA PersistKeeps ==
    ASSUME ActorInv, Persist
    PROVE  Keeps
<1>1. /\ m' = m /\ status' = status /\ leaf' = leaf /\ restoring' = restoring
      /\ timers' = timers /\ children' = children /\ object' = object
      /\ mailbox' = mailbox /\ heard' = heard /\ status # "none"
      /\ saved' = [leaf |-> leaf, status |-> status, children |-> [c \in ChildIds |->
                      IF children[c] = NoObject THEN "absent" ELSE object[children[c]].status]]
  BY DEF Persist, shell
<1>2. Shell' = Shell
  BY <1>1 DEF Shell
<1>3. /\ children \in [ChildIds -> Objects \cup {NoObject}] /\ object \in [Objects -> Kids]
      /\ leaf \in DOMAIN m.after /\ status \in {"active", "done", "stopped"}
  BY <1>1, ShellIsShell DEF ActorInv, IsShell, Statuses
<1> DEFINE kept == [c \in ChildIds |->
                      IF children[c] = NoObject THEN "absent" ELSE object[children[c]].status]
<1>4. /\ kept \in [ChildIds -> Statuses \cup {"absent"}]
      /\ \A c \in ChildIds : kept[c] = "absent" <=> children[c] = NoObject
  <2>1. \A c \in ChildIds : children[c] # NoObject => object[children[c]].status \in Statuses
    BY <1>3 DEF Kids
  <2>2. "absent" \notin Statuses
    BY DEF Statuses
  <2> QED
    BY <2>1, <2>2
<1> HIDE DEF kept
<1>5. saved'.leaf = leaf /\ saved'.status = status /\ saved'.children = kept
  BY <1>1 DEF kept
<1>6. IsSave(m', saved')
  BY <1>1, <1>3, <1>4, <1>5 DEF IsSave
<1>7. ActorInv'
  <2>1. m' \in Machines /\ status' \in Statuses /\ status' # "none" /\ IsSave(m', restoring')
    BY <1>1 DEF ActorInv
  <2>2. leaf' \in DOMAIN m'.after /\ IsShell(Shell') /\ Sound(Shell')
    BY <1>1, <1>2 DEF ActorInv
  <2>3. \A o \in Objects : o \notin Alive(Shell') => object'[o] = Gone
    BY <1>1, <1>2 DEF ActorInv
  <2> QED
    BY <1>6, <2>1, <2>2, <2>3 DEF ActorInv
<1>8. ToldInv => ToldInv'
  BY <1>1, <1>2 DEF ToldInv
<1>9. ASSUME OwnedInv PROVE OwnedInv'
  <2>1. KeptIn(saved') = Registered(Shell)
    BY <1>4, <1>5, ShellIsShell DEF KeptIn, Registered
  <2>2. MannedSave(m', saved')
    BY <1>1, <1>5, <1>9, <2>1 DEF MannedSave, OwnedInv
  <2> QED
    BY <1>1, <1>2, <1>9, <2>2 DEF OwnedInv
<1> QED
  BY <1>7, <1>8, <1>9 DEF Keeps

\* The program ends, and a new one starts from what was saved.
LEMMA CrashKeeps ==
    ASSUME ActorInv, Crash
    PROVE  Keeps
<1>1. /\ m' = m /\ saved' = saved /\ restoring' = saved /\ status' = "none" /\ Become(Fresh)
  BY DEF Crash
<1>2. /\ timers' = <<>> /\ children' = [c \in ChildIds |-> NoObject] /\ heard' = {}
      /\ mailbox' = <<Task(Self, Start)>> /\ object' = [o \in Objects |-> Gone]
  <2>1. /\ timers' = Fresh.timers /\ children' = Fresh.children /\ heard' = Fresh.heard
        /\ mailbox' = Fresh.mailbox
        /\ object' = [o \in Objects |-> IF o \in Referred(Fresh) THEN Fresh.object[o] ELSE Gone]
    BY <1>1 DEF Become
  <2>2. /\ Fresh.timers = <<>> /\ Fresh.children = [c \in ChildIds |-> NoObject]
        /\ Fresh.heard = {} /\ Fresh.mailbox = <<Task(Self, Start)>>
        /\ Fresh.object = [o \in Objects |-> Gone]
    BY DEF Fresh
  <2> QED
    BY <2>1, <2>2
<1>3. Waits(mailbox')
  <2>1. \A S : <<>> \in Seq(S) /\ <<Task(Self, Start)>> = <<Task(Self, Start)>> \o <<>>
    OBVIOUS
  <2> QED
    BY <1>2, <2>1 DEF Waits
<1>4. m' \in Machines /\ status' \in Statuses /\ IsSave(m', saved') /\ IsSave(m', restoring')
  BY <1>1 DEF ActorInv, Statuses
<1>5. ActorInv'
  BY <1>1, <1>2, <1>3, <1>4 DEF ActorInv
<1>6. ToldInv'
  BY <1>1 DEF ToldInv
<1>7. OwnedInv => OwnedInv'
  BY <1>1 DEF OwnedInv
<1> QED
  BY <1>5, <1>6, <1>7 DEF Keeps

-----------------------------------------------------------------------------
(* The theorems *)

\* The invariants hold in the beginning.
LEMMA BeginningKeeps ==
    ASSUME Init
    PROVE  ActorInv /\ ToldInv /\ OwnedInv
<1>1. /\ m \in Machines /\ status = "none" /\ saved = NoSave /\ restoring = NoSave
      /\ timers = <<>> /\ children = [c \in ChildIds |-> NoObject] /\ heard = {}
      /\ mailbox = <<Task(Self, Start)>> /\ object = [o \in Objects |-> Gone]
  BY DEF Init, Fresh
<1>2. Waits(mailbox)
  <2>1. \A S : <<>> \in Seq(S) /\ <<Task(Self, Start)>> = <<Task(Self, Start)>> \o <<>>
    OBVIOUS
  <2> QED
    BY <1>1, <2>1 DEF Waits
<1>3. ActorInv
  BY <1>1, <1>2 DEF ActorInv, Statuses, IsSave
<1> QED
  BY <1>1, <1>3 DEF ToldInv, OwnedInv, MannedSave

\* Every step keeps them, and the machine; OwnedInv, that of a tidy one.
LEMMA StepKeeps ==
    ASSUME ActorInv, [Next]_vars
    PROVE  Keeps /\ m' = m
<1>1. CASE RunTask
  <2>1. CASE StartMachine
    BY <2>1, StartMachineKeeps DEF StartMachine
  <2>2. CASE RestoreMachine
    BY <2>2, RestoreMachineKeeps DEF RestoreMachine
  <2>3. CASE Receive
    BY <2>3, ReceiveKeeps DEF Receive
  <2>4. CASE DeadLetter
    BY <2>4, DeadLetterKeeps DEF DeadLetter
  <2>5. CASE StopMachine
    BY <2>5, StopMachineKeeps DEF StopMachine
  <2>6. CASE ChildTask
    BY <2>6, ChildTaskKeeps DEF ChildTask
  <2> QED
    BY <1>1, <2>1, <2>2, <2>3, <2>4, <2>5, <2>6 DEF RunTask
<1>2. CASE Tick
  BY <1>2, TickKeeps DEF Tick
<1>3. CASE Fire
  BY <1>3, FireKeeps DEF Fire
<1>4. CASE PostFromOutside
  BY <1>4, PostFromOutsideKeeps DEF PostFromOutside
<1>5. CASE Persist
  BY <1>5, PersistKeeps DEF Persist
<1>6. CASE Crash
  BY <1>6, CrashKeeps DEF Crash
<1>7. CASE UNCHANGED vars
  <2>1. /\ m' = m /\ status' = status /\ leaf' = leaf /\ saved' = saved
        /\ restoring' = restoring /\ timers' = timers /\ children' = children
        /\ object' = object /\ mailbox' = mailbox /\ heard' = heard
    BY <1>7 DEF vars, shell
  <2>2. Shell' = Shell
    BY <2>1 DEF Shell
  <2>3. ActorInv' /\ (ToldInv => ToldInv') /\ (OwnedInv => OwnedInv')
    BY <2>1, <2>2 DEF ActorInv, ToldInv, OwnedInv
  <2> QED
    BY <2>1, <2>3 DEF Keeps
<1> QED
  BY <1>1, <1>2, <1>3, <1>4, <1>5, <1>6, <1>7 DEF Next

\* Whatever the machine lists, the actor's timers, children and tasks are what
\* the code declares them to be; every child is registered under its own id, and
\* what nobody refers to is gone.
THEOREM ActorIsSound == Spec => []ActorInv
<1>1. Init => ActorInv
  BY BeginningKeeps
<1>2. ActorInv /\ [Next]_vars => ActorInv'
  BY StepKeeps DEF Keeps
<1> QED
  BY <1>1, <1>2, PTL DEF Spec

\* A registered child that is done was heard of, or its report waits, also after
\* the program ended and the machine was restored (reportCompletionToParent,
\* system.hpp:406-419): of any machine.
THEOREM ReportsArrive == Spec => []CompletionArrives
<1>1. Init => ActorInv /\ ToldInv
  BY BeginningKeeps
<1>2. ActorInv /\ ToldInv /\ [Next]_vars => ActorInv' /\ ToldInv'
  BY StepKeeps DEF Keeps
<1>3. ActorInv /\ ToldInv => CompletionArrives
  <2> SUFFICES ASSUME ActorInv, ToldInv, status = "active", NEW c \in ChildIds,
                      children[c] # NoObject, object[children[c]].status = "done"
               PROVE  c \in heard \/ Task(Self, DoneActor(c)) \in ToSet(mailbox)
    BY DEF CompletionArrives
  <2>1. Told(Shell) /\ c \in Registered(Shell)
    BY ShellIsShell DEF ToldInv, Registered
  <2> QED
    BY <2>1, ShellIsShell DEF Told
<1> QED
  BY <1>1, <1>2, <1>3, PTL DEF Spec

\* The children the active state invokes are registered, and a child that runs is
\* registered or about to be stopped (machine.hpp:648-672, system.hpp:334-360):
\* of machines whose actions spawn no child that may still be registered.
THEOREM NoneIsLeftBehind ==
    ASSUME \A x \in Machines : Tidy(x)
    PROVE  Spec => []ChildrenAreOwned
<1>1. Init => ActorInv /\ OwnedInv
  BY BeginningKeeps
<1>2. ActorInv /\ OwnedInv /\ [Next]_vars => ActorInv' /\ OwnedInv'
  <2> SUFFICES ASSUME ActorInv, OwnedInv, [Next]_vars PROVE ActorInv' /\ OwnedInv'
    OBVIOUS
  <2>1. Tidy(m)
    BY DEF ActorInv
  <2> QED
    BY <2>1, StepKeeps DEF Keeps
<1>3. ActorInv /\ OwnedInv => ChildrenAreOwned
  <2> SUFFICES ASSUME ActorInv, OwnedInv PROVE ChildrenAreOwned
    OBVIOUS
  <2>1. ASSUME status = "active", NEW c \in ToSet(m.invokes[leaf]) PROVE children[c] # NoObject
    <3>1. Registered(Shell) \cap Invoked(m) = ToSet(m.invokes[leaf])
      BY <2>1 DEF OwnedInv, Manned
    <3> QED
      BY <2>1, <3>1, ShellIsShell DEF Registered
  <2>2. ASSUME NEW o \in Objects, object[o].status = "active", children[object[o].id] # o
        PROVE  Task(o, Stop) \in ToSet(mailbox)
    <3>1. object[o] # Gone
      BY <2>2 DEF Gone
    <3>2. status # "none" /\ o \in Alive(Shell)
      BY <3>1 DEF ActorInv
    <3>3. Owned(Shell)
      BY <3>2 DEF OwnedInv
    <3> QED
      BY <2>2, <3>2, <3>3, ShellIsShell DEF Owned
  <2> QED
    BY <2>1, <2>2 DEF ChildrenAreOwned
<1> QED
  BY <1>1, <1>2, <1>3, PTL DEF Spec
=============================================================================
