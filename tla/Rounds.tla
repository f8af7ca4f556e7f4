------------------------------- MODULE Rounds -------------------------------
(***************************************************************************)
(* Loops.  A loop of the code that builds a value round by round is a      *)
(* function from the number of rounds done to the value; this module has   *)
(* what the proofs about such loops rest on: induction over the rounds,    *)
(* and that the function exists.                                           *)
(***************************************************************************)
EXTENDS Integers, WellFoundedInduction, TLAPS

(* A set of natural numbers has a least element. *)
LEMMA LeastNatural ==
  ASSUME NEW T, T \subseteq Nat, T # {}
  PROVE  \E n \in T : \A m \in T : n <= m
<1> DEFINE less == OpToRel(<, Nat)
<1>1. IsWellFoundedOn(less, Nat)
  BY NatLessThanWellFounded
<1>2. \A m, n \in Nat : <<m, n>> \in less <=> m < n
  BY SMT DEF OpToRel
<1> HIDE DEF less
<1>3. PICK n \in T : \A m \in T : <<m, n>> \notin less
  BY <1>1, WFMin
<1>4. ASSUME NEW m \in T PROVE n <= m
  <2>1. m \in Nat /\ n \in Nat
    OBVIOUS
  <2>2. ~ (m < n)
    BY <1>2, <1>3, <2>1
  <2> QED
    BY <2>1, <2>2
<1> QED
  BY <1>4

(* What holds before the first round and is kept by every round holds after *)
(* each.                                                                    *)
LEMMA RoundsInduction ==
  ASSUME NEW n \in Nat, NEW Good, 0 \in Good,
         \A i \in 1 .. n : i - 1 \in Good => i \in Good
  PROVE  \A i \in 0 .. n : i \in Good
<1> DEFINE Bad == {i \in 0 .. n : i \notin Good}
<1> SUFFICES ASSUME Bad # {} PROVE FALSE
  OBVIOUS
<1>a. Bad \in SUBSET Nat
  OBVIOUS
<1>1. PICK m \in Bad : \A k \in Bad : m <= k
  <2> HIDE DEF Bad
  <2> QED
    BY <1>a, LeastNatural
<1>2. m \in 1 .. n /\ m - 1 \in 0 .. n /\ m - 1 \notin Bad
  BY <1>1
<1> QED
  BY <1>1, <1>2

(* f tells what each of n rounds leaves, from first by step. *)
AreRounds(f, n, A, first, step) ==
    /\ f \in [0 .. n -> A]
    /\ \A i \in 0 .. n : f[i] = IF i = 0 THEN first ELSE step[<<i, f[i - 1]>>]

(* A function may be defined by what it is before the first round and what  *)
(* a round makes of it.                                                     *)
LEMMA RoundsExist ==
  ASSUME NEW n \in Nat, NEW A, NEW first \in A, NEW step,
         \A i \in 1 .. n, before \in A : step[<<i, before>>] \in A
  PROVE  \E f : AreRounds(f, n, A, first, step)
<1> DEFINE Good == {m \in 0 .. n : \E f : AreRounds(f, m, A, first, step)}
<1>1. 0 \in Good
  <2>1. AreRounds([i \in 0 .. 0 |-> first], 0, A, first, step)
    BY DEF AreRounds
  <2> QED
    BY <2>1
<1>2. ASSUME NEW m \in 1 .. n, m - 1 \in Good PROVE m \in Good
  <2>1. PICK f : AreRounds(f, m - 1, A, first, step)
    BY <1>2
  <2> DEFINE g == [i \in 0 .. m |-> IF i = m THEN step[<<m, f[m - 1]>>] ELSE f[i]]
  <2>2. f[m - 1] \in A /\ step[<<m, f[m - 1]>>] \in A
    BY <2>1 DEF AreRounds
  <2>3. g \in [0 .. m -> A]
    BY <2>1, <2>2 DEF AreRounds
  <2>4. ASSUME NEW i \in 0 .. m
        PROVE  g[i] = IF i = 0 THEN first ELSE step[<<i, g[i - 1]>>]
    <3>1. CASE i = m
      BY <3>1
    <3>2. CASE i # m
      <4>1. i \in 0 .. (m - 1) /\ g[i] = f[i] /\ (i # 0 => g[i - 1] = f[i - 1])
        BY <3>2
      <4> QED
        BY <2>1, <4>1 DEF AreRounds
    <3> QED
      BY <3>1, <3>2
  <2>5. AreRounds(g, m, A, first, step)
    BY <2>3, <2>4 DEF AreRounds
  <2> HIDE DEF g
  <2> QED
    BY <2>5
<1> HIDE DEF Good
<1>3. \A i \in 0 .. n : i \in Good
  BY <1>1, <1>2, RoundsInduction
<1>4. n \in Good
  BY <1>3
<1> QED
  BY <1>4 DEF Good

(* What holds of each of n things if it holds of all later ones. *)
LEMMA LaterFirst ==
  ASSUME NEW n \in Nat, NEW Good,
         \A i \in 1 .. n : (\A j \in (i + 1) .. n : j \in Good) => i \in Good
  PROVE  \A i \in 1 .. n : i \in Good
<1> DEFINE Done == {m \in 0 .. n : \A j \in (n + 1 - m) .. n : j \in Good}
<1>1. 0 \in Done
  OBVIOUS
<1>2. ASSUME NEW m \in 1 .. n, m - 1 \in Done PROVE m \in Done
  <2> DEFINE i == n + 1 - m
  <2>1. i \in 1 .. n /\ n + 1 - (m - 1) = i + 1 /\ m \in 0 .. n
    OBVIOUS
  <2>2. \A j \in (i + 1) .. n : j \in Good
    BY <1>2, <2>1
  <2>3. i \in Good
    BY <2>1, <2>2
  <2>4. \A j \in i .. n : j = i \/ j \in (i + 1) .. n
    BY <2>1
  <2>5. \A j \in i .. n : j \in Good
    BY <2>2, <2>3, <2>4
  <2> QED
    BY <2>1, <2>5
<1>3. \A m \in 0 .. n : m \in Done
  <2> HIDE DEF Done
  <2> QED
    BY <1>1, <1>2, RoundsInduction
<1>4. n \in Done
  BY <1>3
<1> QED
  BY <1>4

(* What step makes of i and of a function depends on the values for greater  *)
(* arguments alone.                                                          *)
LooksLater(step, n, A) ==
    /\ \A i \in 1 .. n, g \in [1 .. n -> A] : step[<<i, g>>] \in A
    /\ \A i \in 1 .. n, g, h \in [1 .. n -> A] :
         (\A j \in (i + 1) .. n : g[j] = h[j]) => step[<<i, g>>] = step[<<i, h>>]

(* A function may be defined by what its value for i makes of those for      *)
(* greater arguments.                                                        *)
LEMMA DescentExists ==
  ASSUME NEW n \in Nat, NEW A, NEW any \in A, NEW step, LooksLater(step, n, A)
  PROVE  \E f \in [1 .. n -> A] : \A i \in 1 .. n : f[i] = step[<<i, f>>]
<1> DEFINE G == [1 .. n -> A]
           none == [i \in 1 .. n |-> any]
           Put(m, g) == [g EXCEPT ![n + 1 - m] = step[<<n + 1 - m, g>>]]
           put == [q \in (1 .. n) \X G |-> Put(q[1], q[2])]
<1>a. /\ \A i \in 1 .. n, g \in [1 .. n -> A] : step[<<i, g>>] \in A
      /\ \A i \in 1 .. n, g, h \in [1 .. n -> A] :
           (\A j \in (i + 1) .. n : g[j] = h[j]) => step[<<i, g>>] = step[<<i, h>>]
  BY DEF LooksLater
<1>1. none \in G
  OBVIOUS
<1>2. ASSUME NEW m \in 1 .. n, NEW g \in G
      PROVE  /\ put[<<m, g>>] = Put(m, g) /\ Put(m, g) \in G
             /\ \A i \in 1 .. n : Put(m, g)[i] = IF i = n + 1 - m THEN step[<<i, g>>] ELSE g[i]
  <2>1. n + 1 - m \in 1 .. n
    OBVIOUS
  <2>2. step[<<n + 1 - m, g>>] \in A
    BY <1>a, <2>1
  <2>3. put[<<m, g>>] = Put(m, g)
    <3> HIDE DEF G, Put
    <3> QED
      OBVIOUS
  <2> QED
    BY <2>1, <2>2, <2>3
<1> HIDE DEF G, none, Put, put
<1>3. PICK F : AreRounds(F, n, G, none, put)
  BY <1>1, <1>2, RoundsExist
<1>4. /\ \A m \in 0 .. n : F[m] \in G
      /\ \A m \in 1 .. n, i \in 1 .. n :
            F[m][i] = IF i = n + 1 - m THEN step[<<i, F[m - 1]>>] ELSE F[m - 1][i]
  <2>1. \A m \in 0 .. n : F[m] \in G
    BY <1>3 DEF AreRounds
  <2>2. ASSUME NEW m \in 1 .. n, NEW i \in 1 .. n
        PROVE  F[m][i] = IF i = n + 1 - m THEN step[<<i, F[m - 1]>>] ELSE F[m - 1][i]
    <3>1. m \in 0 .. n /\ m # 0 /\ m - 1 \in 0 .. n
      OBVIOUS
    <3>2. F[m] = put[<<m, F[m - 1]>>] /\ F[m - 1] \in G
      BY <1>3, <2>1, <3>1 DEF AreRounds
    <3> QED
      BY <1>2, <3>2
  <2> QED
    BY <2>1, <2>2
<1> DEFINE Good == {m \in 0 .. n : \A i \in (n + 1 - m) .. n : F[m][i] = step[<<i, F[m]>>]}
<1>5. 0 \in Good
  OBVIOUS
<1>6. ASSUME NEW m \in 1 .. n, m - 1 \in Good PROVE m \in Good
  <2> DEFINE c == n + 1 - m
             g == F[m - 1]
             h == F[m]
  <2>1. c \in 1 .. n /\ n + 1 - (m - 1) = c + 1 /\ m \in 0 .. n /\ m - 1 \in 0 .. n
    OBVIOUS
  <2>2. g \in G /\ h \in G
    BY <1>4, <2>1
  <2>3. \A i \in 1 .. n : h[i] = IF i = c THEN step[<<i, g>>] ELSE g[i]
    BY <1>4
  <2>4. \A i \in (c + 1) .. n : g[i] = step[<<i, g>>]
    BY <1>6, <2>1
  <2> HIDE DEF c, g, h
  <2>5. ASSUME NEW i \in c .. n PROVE h[i] = step[<<i, h>>]
    <3>1. i \in 1 .. n /\ \A j \in (i + 1) .. n : j \in 1 .. n /\ j # c
      BY <2>1
    <3>2. \A j \in (i + 1) .. n : g[j] = h[j]
      BY <2>3, <3>1
    <3>3. step[<<i, g>>] = step[<<i, h>>]
      BY <1>a, <2>2, <3>1, <3>2 DEF G
    <3>4. i = c \/ i \in (c + 1) .. n
      BY <2>1
    <3>5. h[i] = step[<<i, g>>]
      BY <2>1, <2>3, <2>4, <3>1, <3>4
    <3> QED
      BY <3>3, <3>5
  <2> QED
    BY <2>1, <2>5 DEF c, h
<1>7. \A m \in 0 .. n : m \in Good
  <2> HIDE DEF Good
  <2> QED
    BY <1>5, <1>6, RoundsInduction
<1>8. n \in Good /\ F[n] \in G
  <2>1. n \in 0 .. n
    OBVIOUS
  <2> HIDE DEF Good
  <2> QED
    BY <1>4, <1>7, <2>1
<1>9. \A i \in 1 .. n : i \in (n + 1 - n) .. n
  OBVIOUS
<1> QED
  BY <1>8, <1>9 DEF G
=============================================================================
