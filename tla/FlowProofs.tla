----------------------------- MODULE FlowProofs -----------------------------
(***************************************************************************)
(* Proofs about FundFlow, for every list of transfers and every answer of  *)
(* the providers: the balance changes are the net effect of the            *)
(* transaction, their totals cancel out, the Flow tab adds up to them, and *)
(* the prices are the first known.  They rest on what TransactionProofs    *)
(* proves of the transfers; the loops over these are reasoned about by     *)
(* induction (Rounds).                                                     *)
(***************************************************************************)
EXTENDS TransactionProofs

-----------------------------------------------------------------------------
(* What is moved to a user is a weight of the transfers, so that lists with  *)
(* the same transfers have the same net.                                     *)
MovedBy(u, k) == [y \in Moves |-> Moved(y, u, k)]

(* What a transfer moves is a number.                                        *)
LEMMA MovedTypes ==
  ASSUME NEW u, NEW k
  PROVE  /\ MovedBy(u, k) \in Weights
         /\ \A y \in Moves : Moved(y, u, k) \in Int /\ MovedBy(u, k)[y] = Moved(y, u, k)
<1>1. \A y \in Moves : y.amount \in Int /\ - y.amount \in Int
  <2>1. \A y \in Moves : y.amount \in Nat
    BY TraceAssumption DEF Moves
  <2>2. \A x \in Nat : x \in Int /\ - x \in Int
    OBVIOUS
  <2> QED
    BY <2>1, <2>2
<1>2. \A y \in Moves : Moved(y, u, k) \in Int
  BY <1>1 DEF Moved
<1> QED
  BY <1>2 DEF MovedBy, Weights

(* The net of a list of transfers is its weight, a number. *)
LEMMA NetIsWeight ==
  ASSUME NEW s \in Seq(Moves), NEW u, NEW k
  PROVE  Net(s, u, k) = Weight(MovedBy(u, k), s) /\ Net(s, u, k) \in Int
<1>1. MovedBy(u, k) \in Weights /\ \A y \in Moves : MovedBy(u, k)[y] = Moved(y, u, k)
  BY MovedTypes
<1>2. \A i \in DOMAIN s : MovedBy(u, k)[s[i]] = Moved(s[i], u, k)
  <2>1. \A i \in DOMAIN s : s[i] \in Moves
    OBVIOUS
  <2> QED
    BY <1>1, <2>1
<1>3. [i \in DOMAIN s |-> MovedBy(u, k)[s[i]]] = [i \in DOMAIN s |-> Moved(s[i], u, k)]
  BY <1>2
<1>4. Net(s, u, k) = Weight(MovedBy(u, k), s)
  BY <1>3 DEF Net, Weight
<1> QED
  BY <1>1, <1>4, WeightNumbers

(* The numbers it is the sum of. *)
MovedNumbers(s, u, k) == [i \in DOMAIN s |-> Moved(s[i], u, k)]

(* The numbers that add up to a net.                                         *)
LEMMA MovedNumbersTypes ==
  ASSUME NEW s \in Seq(Moves), NEW u, NEW k
  PROVE  /\ MovedNumbers(s, u, k) \in Seq(Int) /\ Len(MovedNumbers(s, u, k)) = Len(s)
         /\ \A i \in 1 .. Len(s) : MovedNumbers(s, u, k)[i] = Moved(s[i], u, k)
         /\ Net(s, u, k) = Total(MovedNumbers(s, u, k))
<1> DEFINE n == Len(s)
           f == [i \in 1 .. n |-> Moved(s[i], u, k)]
           A == Int
<1>1. n \in Nat /\ DOMAIN s = 1 .. n /\ \A i \in 1 .. n : s[i] \in Moves
  OBVIOUS
<1>2. \A i \in 1 .. n : Moved(s[i], u, k) \in A
  BY <1>1, MovedTypes
<1>3. MovedNumbers(s, u, k) = f
  BY <1>1 DEF MovedNumbers
<1>4. f \in [1 .. n -> A] /\ \A i \in 1 .. n : f[i] = Moved(s[i], u, k)
  <2> HIDE DEF n, A
  <2> QED
    BY <1>2
<1>5. Net(s, u, k) = Total(MovedNumbers(s, u, k))
  BY DEF Net, MovedNumbers
<1> HIDE DEF f, A
<1>6. f \in Seq(A) /\ Len(f) = n
  BY <1>1, <1>4, ListOf
<1> QED
  BY <1>3, <1>4, <1>5, <1>6 DEF A, n

(* f adds up to the net of a list if it starts at nothing and every transfer *)
(* changes it by what it moves.                                              *)
LEMMA NetAdds ==
  ASSUME NEW s \in Seq(Moves), NEW u, NEW k, NEW f \in [0 .. Len(s) -> Int], f[0] = 0,
         \A i \in 1 .. Len(s) : f[i] = f[i - 1] + Moved(s[i], u, k)
  PROVE  Net(s, u, k) = f[Len(s)]
<1> DEFINE m == MovedNumbers(s, u, k)
<1>1. /\ m \in Seq(Int) /\ Len(m) = Len(s) /\ Net(s, u, k) = Total(m)
      /\ \A i \in 1 .. Len(s) : m[i] = Moved(s[i], u, k)
  BY MovedNumbersTypes
<1> HIDE DEF m
<1>2. Adds(f, m)
  BY <1>1 DEF Adds
<1> QED
  BY <1>1, <1>2, TotalAdds

(* What is not moved has no net. *)
LEMMA NetElsewhere ==
  ASSUME NEW s \in Seq(Moves), NEW u, NEW k, \A i \in 1 .. Len(s) : s[i].token # k
  PROVE  Net(s, u, k) = 0
<1> DEFINE f == [i \in 0 .. Len(s) |-> 0]
<1>1. Len(s) \in Nat
  OBVIOUS
<1>2. f \in [0 .. Len(s) -> Int] /\ f[0] = 0 /\ f[Len(s)] = 0
  BY <1>1
<1>3. ASSUME NEW i \in 1 .. Len(s) PROVE f[i] = f[i - 1] + Moved(s[i], u, k)
  <2>1. Moved(s[i], u, k) = 0
    BY DEF Moved
  <2>2. i \in 0 .. Len(s) /\ i - 1 \in 0 .. Len(s)
    BY <1>1
  <2> QED
    BY <2>1, <2>2
<1> HIDE DEF f
<1> QED
  BY <1>2, <1>3, NetAdds

-----------------------------------------------------------------------------
(* addRawChange adds to each balance what a transfer moves to it. *)
Balances(T) == [Accounts \X T -> Int]

(* The sender loses what the receiver gains, and nobody does if they are one.*)
LEMMA AddRawAt ==
  ASSUME NEW T, NEW raw \in Balances(T), NEW t \in Moves, t.token \in T
  PROVE  /\ AddRawChange(raw, t) \in Balances(T)
         /\ \A u \in Accounts, k \in T :
              AddRawChange(raw, t)[<<u, k>>] = raw[<<u, k>>] + Moved(t, u, k)
<1> DEFINE D == Accounts \X T
           p == <<t.from, t.token>>
           q == <<t.to, t.token>>
           a == t.amount
           debited == [raw EXCEPT ![p] = @ - a]
           both == [debited EXCEPT ![q] = @ + a]
<1>1. /\ p \in D /\ q \in D /\ t.from \in Accounts /\ t.to \in Accounts
      /\ a \in Int /\ AddRawChange(raw, t) = both
  <2>1. a \in Nat
    BY TraceAssumption DEF Moves
  <2>2. t.from \in Accounts /\ t.to \in Accounts
    BY DEF Moves
  <2> QED
    BY <2>1, <2>2 DEF AddRawChange
<1>2. \A d \in D : raw[d] \in Int /\ raw[d] - a \in Int /\ raw[d] + a \in Int
  BY <1>1 DEF Balances
<1>3. /\ debited \in [D -> Int]
      /\ \A d \in D : debited[d] = IF d = p THEN raw[d] - a ELSE raw[d]
  BY <1>1, <1>2 DEF Balances
<1>4. \A d \in D : debited[d] \in Int /\ debited[d] + a \in Int
  BY <1>1, <1>3
<1> HIDE DEF debited
<1>5. /\ both \in [D -> Int]
      /\ \A d \in D : both[d] = IF d = q THEN debited[d] + a ELSE debited[d]
  BY <1>1, <1>3, <1>4
<1> HIDE DEF both
<1>6. ASSUME NEW u \in Accounts, NEW k \in T
      PROVE  both[<<u, k>>] = raw[<<u, k>>] + Moved(t, u, k)
  <2> DEFINE d == <<u, k>>
  <2>1. d \in D /\ (d = p <=> u = t.from /\ k = t.token) /\ (d = q <=> u = t.to /\ k = t.token)
    OBVIOUS
  <2> HIDE DEF d, D, p, q
  <2>2. /\ debited[d] = IF d = p THEN raw[d] - a ELSE raw[d]
        /\ both[d] = IF d = q THEN debited[d] + a ELSE debited[d]
        /\ raw[d] \in Int /\ a \in Int
    BY <1>1, <1>2, <1>3, <1>5, <2>1
  <2>3. Moved(t, u, k) = IF k # t.token \/ t.from = t.to THEN 0
                         ELSE IF u = t.to THEN a ELSE IF u = t.from THEN - a ELSE 0
    BY DEF Moved
  <2> HIDE DEF a
  <2>4. both[d] = raw[d] + Moved(t, u, k)
    BY <2>1, <2>2, <2>3
  <2> QED
    BY <2>4 DEF d
<1> QED
  BY <1>1, <1>5, <1>6 DEF Balances

(* The loop of AnalyzeBalanceChanges over the transfers. *)
LEMMA RawRounds ==
  ASSUME transfers \in Seq(Moves)
  PROVE  /\ RawAfter \in [0 .. Len(transfers) -> Balances(Tokens)]
         /\ RawAfter[0] = [key \in Accounts \X Tokens |-> 0]
         /\ \A i \in 1 .. Len(transfers) :
              RawAfter[i] = AddRawChange(RawAfter[i - 1], transfers[i])
<1> DEFINE n == Len(transfers)
           B == Balances(Tokens)
           zero == [key \in Accounts \X Tokens |-> 0]
           step == [q \in (1 .. n) \X B |-> AddRawChange(q[2], transfers[q[1]])]
           Fits(h) == h = [i \in 0 .. n |-> IF i = 0 THEN zero
                                            ELSE AddRawChange(h[i - 1], transfers[i])]
           g == CHOOSE h : Fits(h)
<1>1. n \in Nat /\ zero \in B
  BY DEF Balances
<1>2. \A i \in 1 .. n : transfers[i] \in Moves /\ transfers[i].token \in Tokens
  BY DEF Tokens
<1>3. \A i \in 1 .. n, before \in B : AddRawChange(before, transfers[i]) \in B
  <2> HIDE DEF n
  <2> QED
    BY <1>2, AddRawAt
<1>4. RawAfter = g
  BY DEF RawAfter
<1>a. n = Len(transfers)
  OBVIOUS
<1> HIDE DEF n, B, zero
<1>5. \A i \in 1 .. n, before \in B : step[<<i, before>>] = AddRawChange(before, transfers[i])
  OBVIOUS
<1>6. \A i \in 1 .. n, before \in B : step[<<i, before>>] \in B
  BY <1>3, <1>5
<1> HIDE DEF step
<1>7. PICK f : AreRounds(f, n, B, zero, step)
  BY <1>1, <1>6, RoundsExist
<1>8. Fits(f)
  <2>1. f \in [0 .. n -> B]
    BY <1>7 DEF AreRounds
  <2>2. ASSUME NEW i \in 0 .. n
        PROVE  f[i] = IF i = 0 THEN zero ELSE AddRawChange(f[i - 1], transfers[i])
    <3>1. i # 0 => i \in 1 .. n /\ i - 1 \in 0 .. n
      BY <1>1
    <3>2. i # 0 => f[i - 1] \in B
      BY <2>1, <3>1
    <3>3. f[i] = IF i = 0 THEN zero ELSE step[<<i, f[i - 1]>>]
      BY <1>7 DEF AreRounds
    <3> QED
      BY <1>5, <3>1, <3>2, <3>3
  <2> QED
    BY <2>1, <2>2
<1>9. Fits(g)
  <2> HIDE DEF Fits
  <2> QED
    BY <1>8
<1> HIDE DEF g
<1>10. /\ g \in [0 .. n -> B] /\ g[0] = zero
       /\ \A i \in 1 .. n : g[i] = AddRawChange(g[i - 1], transfers[i])
  <2>1. DOMAIN g = 0 .. n /\ g[0] = zero /\ 0 \in 0 .. n
    BY <1>1, <1>9
  <2>2. ASSUME NEW i \in 1 .. n PROVE g[i] = AddRawChange(g[i - 1], transfers[i])
    <3>1. i \in 0 .. n /\ i # 0
      BY <1>1
    <3> QED
      BY <1>9, <3>1
  <2> DEFINE Good == {i \in 0 .. n : g[i] \in B}
  <2>3. 0 \in Good
    BY <1>1, <2>1
  <2>4. ASSUME NEW i \in 1 .. n, i - 1 \in Good PROVE i \in Good
    <3>1. i \in 0 .. n
      BY <1>1
    <3> QED
      BY <1>3, <2>2, <2>4, <3>1
  <2>5. \A i \in 0 .. n : i \in Good
    <3> HIDE DEF Good
    <3> QED
      BY <1>1, <2>3, <2>4, RoundsInduction
  <2>6. g = [i \in 0 .. n |-> g[i]]
    BY <1>9
  <2> QED
    BY <2>1, <2>2, <2>5, <2>6
<1> QED
  BY <1>4, <1>10, <1>a DEF B, zero

(* What it is at the end is the net of each user and token. *)
LEMMA RawIsNet ==
  ASSUME transfers \in Seq(Moves), NEW u \in Accounts, NEW k \in Tokens
  PROVE  RawChanges[<<u, k>>] = Net(transfers, u, k)
<1> DEFINE n == Len(transfers)
           d == <<u, k>>
           f == [i \in 0 .. n |-> RawAfter[i][d]]
<1>1. /\ n \in Nat /\ d \in Accounts \X Tokens
      /\ \A i \in 1 .. n : transfers[i] \in Moves /\ transfers[i].token \in Tokens
  BY DEF Tokens
<1>2. /\ RawAfter \in [0 .. n -> Balances(Tokens)]
      /\ RawAfter[0] = [key \in Accounts \X Tokens |-> 0]
      /\ \A i \in 1 .. n : RawAfter[i] = AddRawChange(RawAfter[i - 1], transfers[i])
  BY RawRounds
<1>a. n = Len(transfers) /\ RawChanges = RawAfter[n]
  BY DEF RawChanges
<1> HIDE DEF n
<1>3. \A i \in 0 .. n : RawAfter[i][d] \in Int
  BY <1>1, <1>2 DEF Balances
<1>4. f \in [0 .. n -> Int] /\ f[0] = 0 /\ f[n] = RawChanges[d]
  <2>1. 0 \in 0 .. n /\ n \in 0 .. n
    BY <1>1
  <2> HIDE DEF d
  <2>2. RawAfter[0][d] = 0
    BY <1>1, <1>2
  <2>3. f \in [0 .. n -> Int]
    BY <1>3
  <2>4. f[0] = RawAfter[0][d] /\ f[n] = RawAfter[n][d]
    BY <2>1
  <2> QED
    BY <1>a, <2>2, <2>3, <2>4
<1>5. ASSUME NEW i \in 1 .. n PROVE f[i] = f[i - 1] + Moved(transfers[i], u, k)
  <2>1. i \in 0 .. n /\ i - 1 \in 0 .. n
    BY <1>1
  <2> DEFINE raw == RawAfter[i - 1]
             t == transfers[i]
  <2>2. raw \in Balances(Tokens) /\ t \in Moves /\ t.token \in Tokens
    BY <1>1, <1>2, <2>1
  <2>3. RawAfter[i] = AddRawChange(raw, t)
    BY <1>2
  <2>4. f[i - 1] = raw[d] /\ f[i] = RawAfter[i][d]
    BY <2>1
  <2> HIDE DEF raw, t, f
  <2>5. AddRawChange(raw, t)[<<u, k>>] = raw[<<u, k>>] + Moved(t, u, k)
    BY <2>2, AddRawAt
  <2> QED
    BY <2>3, <2>4, <2>5 DEF t
<1> HIDE DEF f, d
<1>6. Net(transfers, u, k) = f[n]
  BY <1>1, <1>4, <1>5, <1>a, NetAdds
<1> QED
  BY <1>4, <1>6 DEF d

-----------------------------------------------------------------------------
(* The edges of the Flow tab. *)
Edges == [from : Accounts, to : Accounts, token : Contexts, amount : Nat, indices : Seq(Nat)]

(* One number more adds to the sum, *)
LEMMA TotalAppend ==
  ASSUME NEW numbers \in Seq(Int), NEW x \in Int
  PROVE  Total(Append(numbers, x)) = Total(numbers) + x
<1>1. <<x>> \in Seq(Int) /\ Append(numbers, x) = numbers \o <<x>>
  OBVIOUS
<1> QED
  BY <1>1, TotalConcat, TotalOne

(* and one that grows by d makes the sum grow by d. *)
LEMMA TotalChange ==
  ASSUME NEW s \in Seq(Int), NEW t \in Seq(Int), NEW j \in 1 .. Len(s), NEW d \in Int,
         Len(t) = Len(s), \A i \in 1 .. Len(s) : t[i] = IF i = j THEN s[i] + d ELSE s[i]
  PROVE  Total(t) = Total(s) + d
<1> DEFINE n == Len(s)
<1>1. PICK f : Adds(f, s)
  BY AddingExists
<1> DEFINE g == [i \in 0 .. n |-> IF i < j THEN f[i] ELSE f[i] + d]
<1>2. /\ n \in Nat /\ j \in 1 .. n /\ f \in [0 .. n -> Int] /\ f[0] = 0
      /\ \A i \in 1 .. n : f[i] = f[i - 1] + s[i] /\ s[i] \in Int
      /\ \A i \in 1 .. n : t[i] = IF i = j THEN s[i] + d ELSE s[i]
  BY <1>1 DEF Adds
<1>a. n = Len(s)
  OBVIOUS
<1> HIDE DEF n
<1>3. g \in [0 .. n -> Int] /\ g[0] = 0 /\ g[n] = f[n] + d
  <2>1. \A i \in 0 .. n : f[i] \in Int /\ f[i] + d \in Int
    BY <1>2, SMTT(30)
  <2>2. 0 \in 0 .. n /\ n \in 0 .. n /\ 0 < j /\ ~ (n < j)
    BY <1>2
  <2> QED
    BY <1>2, <2>1, <2>2
<1>4. ASSUME NEW i \in 1 .. n PROVE g[i] = g[i - 1] + t[i]
  <2>1. i \in 0 .. n /\ i - 1 \in 0 .. n /\ f[i] = f[i - 1] + s[i]
    BY <1>2
  <2>2. /\ f[i - 1] \in Int /\ s[i] \in Int
        /\ g[i] = IF i < j THEN f[i] ELSE f[i] + d
        /\ g[i - 1] = IF i - 1 < j THEN f[i - 1] ELSE f[i - 1] + d
        /\ t[i] = IF i = j THEN s[i] + d ELSE s[i]
    BY <1>2, <2>1
  <2> HIDE DEF g
  <2>3. /\ i < j => i - 1 < j /\ i # j
        /\ i = j => i - 1 < j /\ ~ (i < j)
        /\ ~ (i < j) /\ i # j => ~ (i - 1 < j)
    BY <1>2
  <2> QED
    BY <2>1, <2>2, <2>3
<1> HIDE DEF g
<1>5. Adds(g, t)
  BY <1>3, <1>4, <1>a DEF Adds
<1>6. Total(s) = f[n] /\ Total(t) = g[n]
  BY <1>1, <1>5, <1>a, TotalAdds
<1> QED
  BY <1>3, <1>6

(* What an edge moves is a number. *)
LEMMA EdgeNumbers ==
  ASSUME NEW s \in Seq(Edges), NEW u, NEW k
  PROVE  /\ MovedNumbers(s, u, k) \in Seq(Int) /\ Len(MovedNumbers(s, u, k)) = Len(s)
         /\ \A i \in 1 .. Len(s) : /\ MovedNumbers(s, u, k)[i] = Moved(s[i], u, k)
                                   /\ Moved(s[i], u, k) \in Int
         /\ Net(s, u, k) = Total(MovedNumbers(s, u, k))
<1> DEFINE n == Len(s)
           f == [i \in 1 .. n |-> Moved(s[i], u, k)]
           A == Int
<1>1. n \in Nat /\ DOMAIN s = 1 .. n /\ \A i \in 1 .. n : s[i] \in Edges
  OBVIOUS
<1>2. \A i \in 1 .. n : Moved(s[i], u, k) \in A
  <2>1. \A e \in Edges : e.amount \in Nat
    BY DEF Edges
  <2>2. \A x \in Nat : x \in Int /\ - x \in Int
    OBVIOUS
  <2> QED
    BY <1>1, <2>1, <2>2 DEF Moved
<1>3. MovedNumbers(s, u, k) = f
  BY <1>1 DEF MovedNumbers
<1>4. f \in [1 .. n -> A] /\ \A i \in 1 .. n : f[i] = Moved(s[i], u, k)
  <2> HIDE DEF n, A
  <2> QED
    BY <1>2
<1>5. Net(s, u, k) = Total(MovedNumbers(s, u, k))
  BY DEF Net, MovedNumbers
<1> HIDE DEF f, A
<1>6. f \in Seq(A) /\ Len(f) = n
  BY <1>1, <1>4, ListOf
<1> QED
  BY <1>2, <1>3, <1>4, <1>5, <1>6 DEF A, n

(* The edges a transfer may join, and the one it makes. *)
EdgesOf(groups, t) == {k \in DOMAIN groups : SameEdge(groups[k], t)}
NewEdge(t, n) ==
    [from |-> t.from, to |-> t.to, token |-> t.token, amount |-> t.amount, indices |-> <<n>>]

(* A new edge moves what its transfer does, *)
LEMMA NewEdgeMoves ==
  ASSUME NEW t \in Moves, NEW n \in Nat
  PROVE  NewEdge(t, n) \in Edges /\ \A u, k : Moved(NewEdge(t, n), u, k) = Moved(t, u, k)
<1>1. t.amount \in Nat /\ <<n>> \in Seq(Nat)
  <2>1. t.amount \in Nat
    BY TraceAssumption DEF Moves
  <2>2. <<n>> \in Seq(Nat)
    OBVIOUS
  <2> QED
    BY <2>1, <2>2
<1>2. NewEdge(t, n) \in Edges
  BY <1>1 DEF NewEdge, Edges, Moves
<1>3. \A u, k : Moved(NewEdge(t, n), u, k) = Moved(t, u, k)
  BY DEF NewEdge, Moved
<1> QED
  BY <1>2, <1>3

(* and one that is there moves that much more. *)
LEMMA AddToEdgeMoves ==
  ASSUME NEW edge \in Edges, NEW t \in Moves, SameEdge(edge, t), NEW n \in Nat
  PROVE  /\ AddToEdge(edge, t, n) \in Edges
         /\ \A u, k : Moved(AddToEdge(edge, t, n), u, k) = Moved(edge, u, k) + Moved(t, u, k)
<1> DEFINE g == AddToEdge(edge, t, n)
<1>1. /\ t.amount \in Nat /\ edge.amount \in Nat /\ edge.indices \in Seq(Nat)
      /\ edge = [from |-> edge.from, to |-> edge.to, token |-> edge.token,
                 amount |-> edge.amount, indices |-> edge.indices]
      /\ edge.from \in Accounts /\ edge.to \in Accounts /\ edge.token \in Contexts
  <2>1. t.amount \in Nat
    BY TraceAssumption DEF Moves
  <2>2. /\ edge.amount \in Nat /\ edge.indices \in Seq(Nat)
        /\ edge.from \in Accounts /\ edge.to \in Accounts /\ edge.token \in Contexts
    BY DEF Edges
  <2>3. edge = [from |-> edge.from, to |-> edge.to, token |-> edge.token,
                amount |-> edge.amount, indices |-> edge.indices]
    BY DEF Edges
  <2> QED
    BY <2>1, <2>2, <2>3
<1>2. Append(edge.indices, n) \in Seq(Nat) /\ edge.amount + t.amount \in Nat
  BY <1>1
<1>3. g = [from |-> edge.from, to |-> edge.to, token |-> edge.token,
           amount |-> edge.amount + t.amount, indices |-> Append(edge.indices, n)]
  <2> DEFINE a == edge.amount + t.amount
             is == Append(edge.indices, n)
  <2>1. g = [edge EXCEPT !.amount = a, !.indices = is]
    BY DEF AddToEdge
  <2> HIDE DEF g, a, is
  <2>2. g = [from |-> edge.from, to |-> edge.to, token |-> edge.token,
             amount |-> a, indices |-> is]
    BY <1>1, <2>1
  <2> QED
    BY <2>2 DEF a, is
<1>4. g \in Edges
  BY <1>1, <1>2, <1>3 DEF Edges
<1>5. edge.from = t.from /\ edge.to = t.to /\ edge.token = t.token
  BY DEF SameEdge
<1>6. /\ g.from = edge.from /\ g.to = edge.to /\ g.token = edge.token
      /\ g.amount = edge.amount + t.amount
  BY <1>3
<1> HIDE DEF g
<1>7. ASSUME NEW u, NEW k PROVE Moved(g, u, k) = Moved(edge, u, k) + Moved(t, u, k)
  BY <1>1, <1>5, <1>6 DEF Moved
<1> QED
  BY <1>4, <1>7 DEF g

(* So a round adds to the net of the edges what its transfer moves. *)
LEMMA GroupTransferMoves ==
  ASSUME NEW groups \in Seq(Edges), NEW t \in Moves, NEW n \in Nat
  PROVE  /\ GroupTransfer(groups, t, n) \in Seq(Edges)
         /\ \A u, k : /\ Net(groups, u, k) \in Int
                      /\ Net(GroupTransfer(groups, t, n), u, k) = Net(groups, u, k) + Moved(t, u, k)
<1> DEFINE at == EdgesOf(groups, t)
           c == CHOOSE k \in at : TRUE
           g == GroupTransfer(groups, t, n)
           m == Len(groups)
<1>a. /\ m \in Nat /\ DOMAIN groups = 1 .. m /\ groups \in [1 .. m -> Edges]
      /\ \A j \in 1 .. m : groups[j] \in Edges
      /\ \A j \in at : j \in 1 .. m /\ SameEdge(groups[j], t)
  BY DEF EdgesOf
<1>b. \A u, k : Moved(t, u, k) \in Int
  BY MovedTypes
<1>c. \A u, k : Net(groups, u, k) \in Int
  BY EdgeNumbers, TotalTypes
<1>1. CASE at = {}
  <2> DEFINE e == NewEdge(t, n)
  <2>1. e \in Edges /\ g = Append(groups, e) /\ \A u, k : Moved(e, u, k) = Moved(t, u, k)
    <3>1. g = Append(groups, e)
      BY <1>1 DEF GroupTransfer, EdgesOf, NewEdge
    <3> QED
      BY <3>1, NewEdgeMoves
  <2> HIDE DEF e, g
  <2>2. /\ g \in Seq(Edges) /\ Len(g) = m + 1 /\ g[m + 1] = e
        /\ \A i \in 1 .. m : g[i] = groups[i]
    BY <2>1
  <2>3. ASSUME NEW u, NEW k PROVE Net(g, u, k) = Net(groups, u, k) + Moved(t, u, k)
    <3> DEFINE before == MovedNumbers(groups, u, k)
               after == MovedNumbers(g, u, k)
               x == Moved(t, u, k)
    <3>1. /\ before \in Seq(Int) /\ Len(before) = m /\ Net(groups, u, k) = Total(before)
          /\ \A i \in 1 .. m : before[i] = Moved(groups[i], u, k)
      BY EdgeNumbers
    <3>2. /\ after \in Seq(Int) /\ Len(after) = m + 1 /\ Net(g, u, k) = Total(after)
          /\ \A i \in 1 .. (m + 1) : after[i] = Moved(g[i], u, k)
      <4>1. /\ after \in Seq(Int) /\ Len(after) = Len(g) /\ Net(g, u, k) = Total(after)
            /\ \A i \in 1 .. Len(g) : after[i] = Moved(g[i], u, k)
        BY <2>2, EdgeNumbers
      <4> QED
        BY <2>2, <4>1
    <3>3. x \in Int /\ after[m + 1] = x
      <4>1. m + 1 \in 1 .. (m + 1)
        BY <1>a
      <4> QED
        BY <1>b, <2>1, <2>2, <3>2, <4>1
    <3>4. \A i \in 1 .. m : after[i] = before[i]
      <4>1. \A i \in 1 .. m : i \in 1 .. (m + 1)
        BY <1>a
      <4> QED
        BY <2>2, <3>1, <3>2, <4>1
    <3>5. after = Append(before, x)
      <4> HIDE DEF before, after, x, m
      <4> DEFINE A == Int
      <4>1. before \in Seq(A) /\ after \in Seq(A) /\ x \in A
        BY <3>1, <3>2, <3>3
      <4> HIDE DEF A
      <4>2. /\ Append(before, x) \in Seq(A) /\ Len(Append(before, x)) = m + 1
            /\ \A i \in 1 .. m : Append(before, x)[i] = before[i]
            /\ Append(before, x)[m + 1] = x
        BY <3>1, <4>1
      <4>3. \A i \in 1 .. (m + 1) : i \in 1 .. m \/ i = m + 1
        BY <1>a DEF m
      <4>4. \A i \in 1 .. (m + 1) : after[i] = Append(before, x)[i]
        BY <3>3, <3>4, <4>2, <4>3
      <4> QED
        BY <3>2, <4>1, <4>2, <4>4, SeqEqual
    <3> HIDE DEF before, after, x
    <3>6. Total(after) = Total(before) + x
      BY <3>1, <3>3, <3>5, TotalAppend
    <3> QED
      BY <3>1, <3>2, <3>6 DEF x
  <2> QED
    BY <1>c, <2>2, <2>3 DEF g
<1>2. CASE at # {}
  <2> DEFINE e == AddToEdge(groups[c], t, n)
  <2>1. c \in 1 .. m /\ SameEdge(groups[c], t) /\ groups[c] \in Edges
    <3>1. c \in at
      <4> HIDE DEF at
      <4> QED
        BY <1>2
    <3> HIDE DEF c
    <3> QED
      BY <1>a, <3>1
  <2>2. g = [groups EXCEPT ![c] = e]
    BY <1>2 DEF GroupTransfer, EdgesOf
  <2> HIDE DEF c, g
  <2>3. e \in Edges /\ \A u, k : Moved(e, u, k) = Moved(groups[c], u, k) + Moved(t, u, k)
    BY <2>1, AddToEdgeMoves
  <2> HIDE DEF e
  <2>4. /\ g \in Seq(Edges) /\ Len(g) = m /\ g[c] = e
        /\ \A i \in 1 .. m : g[i] = IF i = c THEN e ELSE groups[i]
    BY <2>1, <2>2, <2>3
  <2>5. ASSUME NEW u, NEW k PROVE Net(g, u, k) = Net(groups, u, k) + Moved(t, u, k)
    <3> DEFINE before == MovedNumbers(groups, u, k)
               after == MovedNumbers(g, u, k)
               x == Moved(t, u, k)
    <3>1. /\ before \in Seq(Int) /\ Len(before) = m /\ Net(groups, u, k) = Total(before)
          /\ \A i \in 1 .. m : before[i] = Moved(groups[i], u, k)
      BY EdgeNumbers
    <3>2. /\ after \in Seq(Int) /\ Len(after) = m /\ Net(g, u, k) = Total(after)
          /\ \A i \in 1 .. m : after[i] = Moved(g[i], u, k)
      <4>1. /\ after \in Seq(Int) /\ Len(after) = Len(g) /\ Net(g, u, k) = Total(after)
            /\ \A i \in 1 .. Len(g) : after[i] = Moved(g[i], u, k)
        BY <2>4, EdgeNumbers
      <4> QED
        BY <2>4, <4>1
    <3>3. \A i \in 1 .. m : after[i] = IF i = c THEN before[i] + x ELSE before[i]
      BY <2>3, <2>4, <3>1, <3>2
    <3> HIDE DEF before, after, m
    <3>4. Total(after) = Total(before) + x
      <4>1. x \in Int
        BY <1>b
      <4> HIDE DEF x
      <4> QED
        BY <2>1, <3>1, <3>2, <3>3, <4>1, TotalChange
    <3> QED
      BY <3>1, <3>2, <3>4
  <2> QED
    BY <1>c, <2>4, <2>5 DEF g
<1> QED
  BY <1>1, <1>2

(* The loop of groupGraphTransfers. *)
LEMMA GroupRounds ==
  ASSUME transfers \in Seq(Moves)
  PROVE  /\ GroupedAfter \in [0 .. Len(transfers) -> Seq(Edges)]
         /\ GroupedAfter[0] = <<>>
         /\ \A i \in 1 .. Len(transfers) :
              GroupedAfter[i] = GroupTransfer(GroupedAfter[i - 1], transfers[i], i)
<1> DEFINE n == Len(transfers)
           B == Seq(Edges)
           step == [q \in (1 .. n) \X B |-> GroupTransfer(q[2], transfers[q[1]], q[1])]
           Fits(h) == h = [i \in 0 .. n |-> IF i = 0 THEN <<>>
                                            ELSE GroupTransfer(h[i - 1], transfers[i], i)]
           g == CHOOSE h : Fits(h)
<1>1. n \in Nat /\ <<>> \in B
  OBVIOUS
<1>2. \A i \in 1 .. n : transfers[i] \in Moves /\ i \in Nat
  OBVIOUS
<1>3. \A i \in 1 .. n, before \in B :
         GroupTransfer(before, transfers[i], i) \in B
  <2> HIDE DEF n
  <2> QED
    BY <1>2, GroupTransferMoves
<1>4. GroupedAfter = g
  BY DEF GroupedAfter
<1>a. n = Len(transfers)
  OBVIOUS
<1> HIDE DEF n, B
<1>5. \A i \in 1 .. n, before \in B : step[<<i, before>>] = GroupTransfer(before, transfers[i], i)
  OBVIOUS
<1>6. \A i \in 1 .. n, before \in B : step[<<i, before>>] \in B
  BY <1>3, <1>5
<1> HIDE DEF step
<1>7. PICK f : AreRounds(f, n, B, <<>>, step)
  BY <1>1, <1>6, RoundsExist
<1>8. Fits(f)
  <2>1. f \in [0 .. n -> B]
    BY <1>7 DEF AreRounds
  <2>2. ASSUME NEW i \in 0 .. n
        PROVE  f[i] = IF i = 0 THEN <<>> ELSE GroupTransfer(f[i - 1], transfers[i], i)
    <3>1. i # 0 => i \in 1 .. n /\ i - 1 \in 0 .. n
      BY <1>1
    <3>2. i # 0 => f[i - 1] \in B
      BY <2>1, <3>1
    <3>3. f[i] = IF i = 0 THEN <<>> ELSE step[<<i, f[i - 1]>>]
      BY <1>7 DEF AreRounds
    <3> QED
      BY <1>3, <1>5, <3>1, <3>2, <3>3
  <2> QED
    BY <2>1, <2>2
<1>9. Fits(g)
  <2> HIDE DEF Fits
  <2> QED
    BY <1>8
<1> HIDE DEF g
<1>10. /\ g \in [0 .. n -> B] /\ g[0] = <<>>
       /\ \A i \in 1 .. n : g[i] = GroupTransfer(g[i - 1], transfers[i], i)
  <2>1. DOMAIN g = 0 .. n /\ g[0] = <<>> /\ 0 \in 0 .. n
    BY <1>1, <1>9
  <2>2. ASSUME NEW i \in 1 .. n PROVE g[i] = GroupTransfer(g[i - 1], transfers[i], i)
    <3>1. i \in 0 .. n /\ i # 0
      BY <1>1
    <3> QED
      BY <1>9, <3>1
  <2> DEFINE Good == {i \in 0 .. n : g[i] \in B}
  <2>3. 0 \in Good
    BY <1>1, <2>1
  <2>4. ASSUME NEW i \in 1 .. n, i - 1 \in Good PROVE i \in Good
    <3>1. i \in 0 .. n
      BY <1>1
    <3> QED
      BY <1>3, <2>2, <2>4, <3>1
  <2>5. \A i \in 0 .. n : i \in Good
    <3> HIDE DEF Good
    <3> QED
      BY <1>1, <2>3, <2>4, RoundsInduction
  <2>6. g = [i \in 0 .. n |-> g[i]]
    BY <1>9
  <2>7. \A i \in 1 .. n : g[i - 1] \in B
    <3>1. \A i \in 1 .. n : i - 1 \in 0 .. n
      BY <1>1
    <3> QED
      BY <2>5, <3>1
  <2> QED
    BY <1>3, <2>1, <2>2, <2>5, <2>6, <2>7
<1> QED
  BY <1>4, <1>10, <1>a DEF B

(* The edges move what the transfers do. *)
LEMMA GroupedNet ==
  ASSUME transfers \in Seq(Moves), NEW u, NEW k
  PROVE  Net(Grouped, u, k) = Net(transfers, u, k)
<1> DEFINE n == Len(transfers)
           f == [i \in 0 .. n |-> Net(GroupedAfter[i], u, k)]
<1>1. n \in Nat /\ \A i \in 1 .. n : transfers[i] \in Moves /\ i \in Nat
  OBVIOUS
<1>2. /\ GroupedAfter \in [0 .. n -> Seq(Edges)]
      /\ GroupedAfter[0] = <<>>
      /\ \A i \in 1 .. n : GroupedAfter[i] = GroupTransfer(GroupedAfter[i - 1], transfers[i], i)
  BY GroupRounds
<1>a. n = Len(transfers) /\ Grouped = GroupedAfter[n]
  BY DEF Grouped
<1> HIDE DEF n
<1>b. 0 \in 0 .. n /\ n \in 0 .. n
  BY <1>1
<1>3. \A i \in 0 .. n : GroupedAfter[i] \in Seq(Edges)
  BY <1>2
<1>4. \A s \in Seq(Edges) : Net(s, u, k) \in Int
  BY EdgeNumbers, TotalTypes
<1>5. f \in [0 .. n -> Int] /\ f[0] = Net(GroupedAfter[0], u, k) /\ f[n] = Net(Grouped, u, k)
  BY <1>3, <1>4, <1>a, <1>b
<1>6. f[0] = 0
  <2>1. [i \in DOMAIN <<>> |-> Moved(<<>>[i], u, k)] = <<>>
    OBVIOUS
  <2> QED
    BY <1>2, <1>5, <2>1, TotalNothing DEF Net
<1>7. ASSUME NEW i \in 1 .. n PROVE f[i] = f[i - 1] + Moved(transfers[i], u, k)
  <2>1. i \in 0 .. n /\ i - 1 \in 0 .. n
    BY <1>1
  <2>2. f[i] = Net(GroupedAfter[i], u, k) /\ f[i - 1] = Net(GroupedAfter[i - 1], u, k)
    BY <2>1
  <2> HIDE DEF f
  <2> DEFINE groups == GroupedAfter[i - 1]
  <2>3. groups \in Seq(Edges) /\ transfers[i] \in Moves /\ i \in Nat
    BY <1>1, <1>3, <2>1
  <2>4. GroupedAfter[i] = GroupTransfer(groups, transfers[i], i)
    BY <1>2
  <2> HIDE DEF groups
  <2>5. Net(GroupTransfer(groups, transfers[i], i), u, k) = Net(groups, u, k) + Moved(transfers[i], u, k)
    BY <2>3, GroupTransferMoves
  <2> QED
    BY <2>2, <2>4, <2>5 DEF groups
<1> HIDE DEF f
<1> QED
  BY <1>5, <1>6, <1>7, <1>a, NetAdds

-----------------------------------------------------------------------------
(* The changes of the analysis are the users and tokens with a net that is   *)
(* not zero, each once.                                                      *)
ListsMoves(cs, moves) ==
    /\ \A c \in cs : /\ c.user \in Accounts /\ c.token \in Contexts
                     /\ c.rawAmount = Net(moves, c.user, c.token) /\ c.rawAmount # 0
    /\ \A u \in Accounts, k \in Contexts :
         Net(moves, u, k) # 0 => \E c \in cs : c.user = u /\ c.token = k

(* The edges of the Flow tab move what the transfers do. *)
MovesAlike(list, moves) == \A u, k : Net(list, u, k) = Net(moves, u, k)

FlowInv ==
    /\ Analyzed => ListsMoves(changes, transfers)
    /\ stage = "drawn" => MovesAlike(edges, transfers)

(* The tokens are those of the transfers. *)
LEMMA TokenTypes ==
  ASSUME transfers \in Seq(Moves)
  PROVE  /\ DOMAIN transfers = 1 .. Len(transfers)
         /\ \A k \in Tokens : k \in Contexts /\ \E i \in 1 .. Len(transfers) : transfers[i].token = k
<1>1. DOMAIN transfers = 1 .. Len(transfers) /\ \A i \in 1 .. Len(transfers) : transfers[i] \in Moves
  OBVIOUS
<1>2. ASSUME NEW k \in Tokens
      PROVE  k \in Contexts /\ \E i \in 1 .. Len(transfers) : transfers[i].token = k
  <2>1. PICK i \in 1 .. Len(transfers) : transfers[i].token = k
    BY <1>1 DEF Tokens
  <2>2. \A y \in Moves : y.token \in Contexts
    BY DEF Moves
  <2> QED
    BY <1>1, <2>1, <2>2
<1> QED
  BY <1>1, <1>2

(* AnalyzeBalanceChanges lists what the transfers moved.                     *)
LEMMA AnalysisLists ==
  ASSUME transfers \in Seq(Moves)
  PROVE  ListsMoves({Change(key[1], key[2], RawChanges[key]) : key \in ChangedKeys}, transfers)
<1> DEFINE cs == {Change(key[1], key[2], RawChanges[key]) : key \in ChangedKeys}
<1>1. \A k \in Tokens : k \in Contexts
  BY TokenTypes
<1>2. ASSUME NEW c \in cs
      PROVE  /\ c.user \in Accounts /\ c.token \in Contexts
             /\ c.rawAmount = Net(transfers, c.user, c.token) /\ c.rawAmount # 0
  <2>1. PICK key \in ChangedKeys : c = Change(key[1], key[2], RawChanges[key])
    OBVIOUS
  <2>2. PICK u \in Accounts, k \in Tokens : key = <<u, k>>
    BY DEF ChangedKeys
  <2>3. RawChanges[key] # 0 /\ RawChanges[key] = Net(transfers, u, k)
    BY <2>2, RawIsNet DEF ChangedKeys
  <2>4. c = Change(u, k, RawChanges[key])
    BY <2>1, <2>2
  <2>5. c.user = u /\ c.token = k /\ c.rawAmount = RawChanges[key]
    BY <2>4 DEF Change
  <2> QED
    BY <1>1, <2>2, <2>3, <2>5
<1>3. ASSUME NEW u \in Accounts, NEW k \in Contexts, Net(transfers, u, k) # 0
      PROVE  \E c \in cs : c.user = u /\ c.token = k
  <2>1. k \in Tokens
    <3>1. \E i \in 1 .. Len(transfers) : transfers[i].token = k
      BY <1>3, NetElsewhere
    <3> QED
      BY <3>1 DEF Tokens
  <2> DEFINE key == <<u, k>>
             c == Change(key[1], key[2], RawChanges[key])
  <2>2. key \in ChangedKeys /\ key[1] = u /\ key[2] = k
    <3>1. RawChanges[<<u, k>>] # 0
      BY <1>3, <2>1, RawIsNet
    <3> QED
      BY <2>1, <3>1 DEF ChangedKeys
  <2> HIDE DEF key
  <2>3. c \in cs
    BY <2>2
  <2>4. c.user = u /\ c.token = k
    BY <2>2 DEF Change
  <2> HIDE DEF c, cs
  <2> QED
    BY <2>3, <2>4
<1> HIDE DEF cs
<1>4. ListsMoves(cs, transfers)
  BY <1>2, <1>3 DEF ListsMoves
<1> QED
  BY <1>4 DEF cs

(* Whatever the other steps do, they do it before the analysis. *)
LEMMA BeforeAnalysis ==
  ASSUME TraceInv, NextTrace \/ FetchTokenPrices \/ AskProvider
  PROVE  stage' \notin {"analyzed", "drawn"}
<1>1. CASE \E c \in Contracts : Override(c) \/ CallTarget(c)
  BY <1>1 DEF Override, CallTarget, Enter
<1>2. CASE \E kind \in {"CALL", "DELEGATECALL"}, c \in Contracts : CallInside(kind, c)
  BY <1>2 DEF CallInside, Enter
<1>3. CASE \E from, to \in Accounts, amount \in Amounts : EmitTransfer(from, to, amount)
  BY <1>3 DEF EmitTransfer
<1>4. CASE \E success \in BOOLEAN : Leave(success)
  BY <1>4 DEF Leave
<1>5. CASE ParseOutput \/ ShowTrace
  BY <1>5 DEF ParseOutput, ShowTrace
<1>6. CASE FetchTokenPrices
  BY <1>6 DEF FetchTokenPrices
<1>7. CASE AskProvider
  BY <1>7 DEF AskProvider
<1> QED
  BY <1>1, <1>2, <1>3, <1>4, <1>5, <1>6, <1>7 DEF NextTrace, Execute

(* Every step keeps that,                                                    *)
LEMMA FlowInvNext ==
  ASSUME TraceInv, FlowInv, [Next]_vars
  PROVE  FlowInv'
<1>1. transfers \in Seq(Moves)
  BY DEF TraceInv
<1>2. CASE NextTrace \/ FetchTokenPrices \/ AskProvider
  BY <1>2, BeforeAnalysis DEF FlowInv, Analyzed
<1>3. CASE AnalyzeBalanceChanges
  <2>1. /\ transfers' = transfers /\ stage' = "analyzed"
        /\ changes' = {Change(key[1], key[2], RawChanges[key]) : key \in ChangedKeys}
    BY <1>3 DEF AnalyzeBalanceChanges
  <2>2. ListsMoves(changes', transfers')
    BY <1>1, <2>1, AnalysisLists
  <2> QED
    BY <2>1, <2>2 DEF FlowInv
<1>4. CASE ShowFlow
  <2>1. /\ transfers' = transfers /\ stage = "analyzed" /\ changes' = changes
        /\ edges' = Grouped
    BY <1>4 DEF ShowFlow
  <2>2. ListsMoves(changes', transfers')
    BY <2>1 DEF FlowInv, Analyzed
  <2>3. MovesAlike(edges', transfers')
    BY <1>1, <2>1, GroupedNet DEF MovesAlike
  <2> QED
    BY <2>2, <2>3 DEF FlowInv
<1>5. CASE UNCHANGED vars
  BY <1>5 DEF vars, flowVars, FlowInv, Analyzed
<1> QED
  BY <1>2, <1>3, <1>4, <1>5 DEF Next

(* and it always holds.                                                      *)
LEMMA FlowInvAlways == Spec => [](TraceInv /\ FlowInv)
<1>1. Init => TraceInv /\ FlowInv
  <2>1. Init => TraceInv
    BY TraceInvInit DEF Init
  <2>2. Init => FlowInv
    BY DEF Init, InitTrace, FlowInv, Analyzed
  <2> QED
    BY <2>1, <2>2
<1>2. TraceInv /\ FlowInv /\ [Next]_vars => (TraceInv /\ FlowInv)'
  BY TraceInvNext, FlowInvNext
<1> QED
  BY <1>1, <1>2, PTL DEF Spec

(* The lines of a list of changes for a user and a token. *)
LEMMA LinesShowNet ==
  ASSUME NEW cs, NEW moves, ListsMoves(cs, moves), NEW u \in Accounts, NEW k \in Contexts, NEW net,
         net = Net(moves, u, k)
  PROVE  LET lines == {c \in cs : c.user = u /\ c.token = k}
         IN  IF net = 0 THEN lines = {} ELSE {c.rawAmount : c \in lines} = {net}
<1> DEFINE lines == {c \in cs : c.user = u /\ c.token = k}
<1>1. \A c \in lines : c.rawAmount = net /\ net # 0
  BY DEF ListsMoves
<1>2. net # 0 => \E c \in cs : c.user = u /\ c.token = k
  BY DEF ListsMoves
<1>3. CASE net = 0
  BY <1>1, <1>3
<1>4. CASE net # 0
  <2>1. PICK c \in lines : TRUE
    BY <1>2, <1>4
  <2> HIDE DEF lines
  <2>2. {x.rawAmount : x \in lines} = {net}
    BY <1>1, <2>1
  <2> QED
    BY <1>4, <2>2 DEF lines
<1> QED
  BY <1>3, <1>4

(* What the Flow tab draws always adds up to what the Balances tab lists.    *)
THEOREM FlowAlwaysAgrees == Spec => []FlowAgreesWithBalances
<1>1. TraceInv /\ FlowInv => FlowAgreesWithBalances
  <2> SUFFICES ASSUME TraceInv, FlowInv, stage = "drawn", NEW u \in Accounts, NEW k \in Tokens
               PROVE  LET lines == {c \in changes : c.user = u /\ c.token = k}
                      IN  IF Net(edges, u, k) = 0
                          THEN lines = {}
                          ELSE {c.rawAmount : c \in lines} = {Net(edges, u, k)}
    BY DEF FlowAgreesWithBalances
  <2>1. ListsMoves(changes, transfers) /\ Net(edges, u, k) = Net(transfers, u, k)
    BY DEF FlowInv, Analyzed, MovesAlike
  <2>2. k \in Contexts
    BY TokenTypes DEF TraceInv
  <2> QED
    BY <2>1, <2>2, LinesShowNet
<1> QED
  BY <1>1, FlowInvAlways, PTL

-----------------------------------------------------------------------------
(* Sums over finite sets.  What holds of the empty set and of a set with one *)
(* element more holds of every finite set.                                   *)
LEMMA FamilyInduction ==
  ASSUME NEW D, IsFiniteSet(D), NEW Family, {} \in Family,
         \A s \in SUBSET D, x \in D : x \notin s /\ s \in Family => s \cup {x} \in Family
  PROVE  D \in Family
<1> DEFINE n == Cardinality(D)
           Good == {m \in 0 .. n : \A s \in SUBSET D : Cardinality(s) = m => s \in Family}
<1>1. n \in Nat /\ \A s \in SUBSET D : IsFiniteSet(s) /\ Cardinality(s) \in Nat
  BY FS_CardinalityType, FS_Subset
<1>a. n = Cardinality(D)
  OBVIOUS
<1> HIDE DEF n
<1>2. 0 \in Good
  BY <1>1, FS_EmptySet
<1>3. ASSUME NEW m \in 1 .. n, m - 1 \in Good PROVE m \in Good
  <2>1. ASSUME NEW s \in SUBSET D, Cardinality(s) = m PROVE s \in Family
    <3>1. s # {}
      BY <1>1, <2>1, FS_EmptySet
    <3>2. PICK x \in s : TRUE
      BY <3>1
    <3> DEFINE r == s \ {x}
    <3>3. r \in SUBSET D /\ x \in D /\ x \notin r /\ s = r \cup {x}
      BY <3>2
    <3>4. Cardinality(r) = m - 1
      BY <1>1, <2>1, <3>2, FS_RemoveElement
    <3> HIDE DEF r
    <3>5. r \in Family
      BY <1>3, <3>3, <3>4
    <3> QED
      BY <3>3, <3>5
  <2> QED
    BY <1>1, <2>1
<1>4. \A m \in 0 .. n : m \in Good
  <2> HIDE DEF Good
  <2> QED
    BY <1>1, <1>2, <1>3, RoundsInduction
<1>5. n \in Good
  BY <1>1, <1>4
<1> QED
  BY <1>5, <1>a

(* g tells the sum of f over each set of elements of D. *)
Chosen(s) == CHOOSE x \in s : TRUE
Sums(g, f, D) ==
    /\ g \in [SUBSET D -> Int]
    /\ \A s \in SUBSET D : g[s] = IF s = {} THEN 0 ELSE f[Chosen(s)] + g[s \ {Chosen(s)}]

(* What is taken from a set is in it.                                        *)
LEMMA ChosenIsIn == \A s : s # {} => Chosen(s) \in s
  BY DEF Chosen

(* There is such a function for every finite set.                            *)
LEMMA SumsExist ==
  ASSUME NEW D, IsFiniteSet(D), NEW f, \A x \in D : f[x] \in Int
  PROVE  \E g : Sums(g, f, D)
<1> DEFINE n == Cardinality(D)
           A == [SUBSET D -> Int]
           zero == [s \in SUBSET D |-> 0]
           Next1(h) == [s \in SUBSET D |->
                          IF s = {} THEN 0 ELSE f[Chosen(s)] + h[s \ {Chosen(s)}]]
           step == [q \in (1 .. n) \X A |-> Next1(q[2])]
<1>1. n \in Nat /\ \A s \in SUBSET D : IsFiniteSet(s) /\ Cardinality(s) \in Nat /\ Cardinality(s) <= n
  BY FS_CardinalityType, FS_Subset
<1>2. \A s \in SUBSET D : s # {} =>
         /\ Chosen(s) \in D /\ s \ {Chosen(s)} \in SUBSET D
         /\ Cardinality(s \ {Chosen(s)}) = Cardinality(s) - 1
         /\ f[Chosen(s)] \in Int
  BY <1>1, ChosenIsIn, FS_RemoveElement
<1>3. \A h \in A : Next1(h) \in A
  <2>1. ASSUME NEW h \in A, NEW s \in SUBSET D
        PROVE  (IF s = {} THEN 0 ELSE f[Chosen(s)] + h[s \ {Chosen(s)}]) \in Int
    <3>1. s # {} => f[Chosen(s)] \in Int /\ h[s \ {Chosen(s)}] \in Int
      BY <1>2
    <3> QED
      BY <3>1
  <2> QED
    BY <2>1
<1> HIDE DEF n
<1>4. zero \in A /\ \A i \in 1 .. n, h \in A : step[<<i, h>>] = Next1(h)
  <2>1. zero \in A
    OBVIOUS
  <2> HIDE DEF A, Next1
  <2> QED
    BY <2>1
<1>5. PICK F : AreRounds(F, n, A, zero, step)
  <2> HIDE DEF A, zero, Next1, step
  <2>1. \A i \in 1 .. n, h \in A : step[<<i, h>>] \in A
    BY <1>3, <1>4
  <2> QED
    BY <1>1, <1>4, <2>1, RoundsExist
<1>6. \A i \in 0 .. n : F[i] \in A
  BY <1>5 DEF AreRounds
<1>7. \A i \in 1 .. n : F[i] = Next1(F[i - 1])
  <2>1. ASSUME NEW i \in 1 .. n PROVE F[i] = Next1(F[i - 1])
    <3>1. i \in 0 .. n /\ i # 0 /\ i - 1 \in 0 .. n
      BY <1>1
    <3>2. F[i] = step[<<i, F[i - 1]>>] /\ F[i - 1] \in A
      BY <1>5, <1>6, <3>1 DEF AreRounds
    <3> HIDE DEF A, zero, Next1, step
    <3> QED
      BY <1>4, <3>2
  <2> QED
    BY <2>1
<1>8. /\ \A i \in 1 .. n : /\ F[i][{}] = 0
                           /\ \A s \in SUBSET D : s # {} =>
                                F[i][s] = f[Chosen(s)] + F[i - 1][s \ {Chosen(s)}]
      /\ F[0][{}] = 0
  <2>1. ASSUME NEW i \in 1 .. n
        PROVE  /\ F[i][{}] = 0
               /\ \A s \in SUBSET D : s # {} =>
                    F[i][s] = f[Chosen(s)] + F[i - 1][s \ {Chosen(s)}]
    BY <1>7
  <2>2. F[0] = zero
    <3>1. 0 \in 0 .. n
      BY <1>1
    <3> HIDE DEF A, zero, step
    <3> QED
      BY <1>5, <3>1 DEF AreRounds
  <2>3. F[0][{}] = 0
    BY <2>2
  <2> QED
    BY <2>1, <2>3
<1> HIDE DEF zero, Next1, step
<1> DEFINE Steady(i) == \A s \in SUBSET D : Cardinality(s) < i => F[i][s] = F[i - 1][s]
           Good == {i \in 0 .. n : i # 0 => Steady(i)}
<1>9. ASSUME NEW i \in 1 .. n, i - 1 \in Good PROVE i \in Good
  <2>1. ASSUME NEW s \in SUBSET D, Cardinality(s) < i PROVE F[i][s] = F[i - 1][s]
    <3>1. CASE s = {}
      <4>1. i - 1 = 0 \/ i - 1 \in 1 .. n
        BY <1>1
      <4> QED
        BY <1>8, <3>1, <4>1
    <3>2. CASE s # {}
      <4> DEFINE r == s \ {Chosen(s)}
      <4>1. r \in SUBSET D /\ Cardinality(r) = Cardinality(s) - 1 /\ Cardinality(r) \in Nat
        BY <1>1, <1>2, <3>2
      <4>2. i - 1 \in 1 .. n /\ i - 1 # 0 /\ Cardinality(r) < i - 1
        BY <1>1, <2>1, <4>1
      <4>3. F[i - 1][r] = F[(i - 1) - 1][r]
        BY <1>9, <4>1, <4>2
      <4>4. F[i][s] = f[Chosen(s)] + F[i - 1][r] /\ F[i - 1][s] = f[Chosen(s)] + F[(i - 1) - 1][r]
        BY <1>8, <3>2, <4>2
      <4> QED
        BY <4>3, <4>4
    <3> QED
      BY <3>1, <3>2
  <2> QED
    BY <1>1, <2>1
<1>10. \A i \in 0 .. n : i \in Good
  <2>1. 0 \in Good
    BY <1>1
  <2> HIDE DEF Good
  <2> QED
    BY <1>1, <1>9, <2>1, RoundsInduction
<1> DEFINE g == F[n]
<1>11. g \in A
  <2>1. n \in 0 .. n
    BY <1>1
  <2> HIDE DEF A
  <2> QED
    BY <1>6, <2>1
<1>12. ASSUME NEW s \in SUBSET D
       PROVE  g[s] = IF s = {} THEN 0 ELSE f[Chosen(s)] + g[s \ {Chosen(s)}]
  <2>1. CASE n = 0
    <3>1. s = {}
      <4>1. Cardinality(s) = 0
        BY <1>1, <2>1
      <4> QED
        BY <1>1, <4>1, FS_EmptySet
    <3> QED
      BY <1>8, <2>1, <3>1
  <2>2. CASE n # 0
    <3>1. n \in 1 .. n /\ Steady(n)
      BY <1>1, <1>10, <2>2
    <3>2. CASE s = {}
      BY <1>8, <3>1, <3>2
    <3>3. CASE s # {}
      <4> DEFINE r == s \ {Chosen(s)}
      <4>1. r \in SUBSET D /\ Cardinality(r) < n
        BY <1>1, <1>2, <3>3
      <4>2. F[n][r] = F[n - 1][r]
        BY <3>1, <4>1
      <4>3. F[n][s] = f[Chosen(s)] + F[n - 1][r]
        BY <1>8, <3>1, <3>3
      <4> QED
        BY <3>3, <4>2, <4>3
    <3> QED
      BY <3>2, <3>3
  <2> QED
    BY <2>1, <2>2
<1> HIDE DEF g
<1>13. Sums(g, f, D)
  BY <1>11, <1>12 DEF Sums, A
<1> QED
  BY <1>13

(* Any element may be taken first. *)
LEMMA SumsTakeAny ==
  ASSUME NEW D, IsFiniteSet(D), NEW f, \A x \in D : f[x] \in Int, NEW g, Sums(g, f, D)
  PROVE  \A s \in SUBSET D, x \in D : x \in s => g[s] = f[x] + g[s \ {x}]
<1> DEFINE n == Cardinality(D)
           Free(s) == \A x \in D : x \in s => g[s] = f[x] + g[s \ {x}]
           Good == {m \in 0 .. n : \A s \in SUBSET D : Cardinality(s) = m => Free(s)}
<1>1. n \in Nat /\ \A s \in SUBSET D : IsFiniteSet(s) /\ Cardinality(s) \in Nat /\ Cardinality(s) <= n
  BY FS_CardinalityType, FS_Subset
<1>2. /\ \A s \in SUBSET D : g[s] \in Int
      /\ \A s \in SUBSET D : s # {} => g[s] = f[Chosen(s)] + g[s \ {Chosen(s)}]
  BY DEF Sums
<1>3. \A s \in SUBSET D, x \in D : x \in s => s \ {x} \in SUBSET D /\ Cardinality(s \ {x}) = Cardinality(s) - 1
  BY <1>1, FS_RemoveElement
<1> HIDE DEF n
<1>4. 0 \in Good
  <2>1. \A s \in SUBSET D : Cardinality(s) = 0 => s = {}
    BY <1>1, FS_EmptySet
  <2> QED
    BY <1>1, <2>1
<1>5. ASSUME NEW m \in 1 .. n, m - 1 \in Good PROVE m \in Good
  <2>1. ASSUME NEW s \in SUBSET D, Cardinality(s) = m, NEW x \in D, x \in s
        PROVE  g[s] = f[x] + g[s \ {x}]
    <3> DEFINE p == Chosen(s)
               r == s \ {p}
               q == s \ {x}
               rest == s \ {p, x}
    <3>1. p \in s /\ p \in D /\ g[s] = f[p] + g[r]
      BY <1>2, <2>1, ChosenIsIn
    <3>2. CASE x = p
      BY <3>1, <3>2
    <3>3. CASE x # p
      <4>1. /\ r \in SUBSET D /\ Cardinality(r) = m - 1 /\ q \in SUBSET D /\ Cardinality(q) = m - 1
        BY <1>3, <2>1, <3>1
      <4>2. Free(r) /\ Free(q)
        <5> HIDE DEF r, q
        <5> QED
          BY <1>5, <4>1
      <4>3. x \in r /\ p \in q /\ r \ {x} = rest /\ q \ {p} = rest /\ rest \in SUBSET D
        BY <2>1, <3>1, <3>3
      <4>4. g[r] = f[x] + g[rest] /\ g[q] = f[p] + g[rest]
        BY <3>1, <4>2, <4>3
      <4>5. f[x] \in Int /\ f[p] \in Int /\ g[rest] \in Int
        BY <1>2, <3>1, <4>3
      <4> HIDE DEF p, r, q, rest
      <4>6. g[s] = f[x] + g[q]
        BY <3>1, <4>4, <4>5
      <4> QED
        BY <4>6 DEF q
    <3> QED
      BY <3>2, <3>3
  <2> QED
    BY <1>1, <2>1
<1>6. \A m \in 0 .. n : m \in Good
  <2> HIDE DEF Good
  <2> QED
    BY <1>1, <1>4, <1>5, RoundsInduction
<1>7. \A s \in SUBSET D : Cardinality(s) \in 0 .. n
  BY <1>1
<1> QED
  BY <1>6, <1>7

(* SumOver is the sum over all of the set. *)
LEMMA SumOverSums ==
  ASSUME NEW D, IsFiniteSet(D), NEW f, NEW g, Sums(g, f, D)
  PROVE  SumOver(f, D) = g[D]
<1> DEFINE Fits(h) == h = [s \in SUBSET D |-> IF s = {} THEN 0 ELSE f[Chosen(s)] + h[s \ {Chosen(s)}]]
           iter == CHOOSE h : Fits(h)
<1>1. SumOver(f, D) = iter[D]
  BY DEF SumOver, MapThenSumSet, MapThenFoldSet, Chosen
<1>2. Fits(g)
  BY DEF Sums
<1>3. Fits(iter)
  <2> HIDE DEF Fits
  <2> QED
    BY <1>2
<1> HIDE DEF iter
<1> DEFINE n == Cardinality(D)
           Good == {m \in 0 .. n : \A s \in SUBSET D : Cardinality(s) = m => iter[s] = g[s]}
<1>4. n \in Nat /\ \A s \in SUBSET D : IsFiniteSet(s) /\ Cardinality(s) \in Nat
  BY FS_CardinalityType, FS_Subset
<1>5. /\ \A s \in SUBSET D : s = {} => iter[s] = 0 /\ g[s] = 0
      /\ \A s \in SUBSET D : s # {} => /\ iter[s] = f[Chosen(s)] + iter[s \ {Chosen(s)}]
                                       /\ g[s] = f[Chosen(s)] + g[s \ {Chosen(s)}]
  BY <1>2, <1>3
<1>6. \A s \in SUBSET D : s # {} =>
         s \ {Chosen(s)} \in SUBSET D /\ Cardinality(s \ {Chosen(s)}) = Cardinality(s) - 1
  BY <1>4, ChosenIsIn, FS_RemoveElement
<1>n. n = Cardinality(D)
  OBVIOUS
<1> HIDE DEF n, Fits
<1>7. 0 \in Good
  <2>1. \A s \in SUBSET D : Cardinality(s) = 0 => s = {}
    BY <1>4, FS_EmptySet
  <2> QED
    BY <1>4, <1>5, <2>1
<1>8. ASSUME NEW m \in 1 .. n, m - 1 \in Good PROVE m \in Good
  <2>1. ASSUME NEW s \in SUBSET D, Cardinality(s) = m PROVE iter[s] = g[s]
    <3> DEFINE r == s \ {Chosen(s)}
    <3>1. s # {}
      BY <1>4, <2>1, FS_EmptySet
    <3>2. r \in SUBSET D /\ Cardinality(r) = m - 1
      BY <1>6, <2>1, <3>1
    <3>3. iter[r] = g[r]
      <4> HIDE DEF r
      <4> QED
        BY <1>8, <3>2
    <3> QED
      BY <1>5, <3>1, <3>3
  <2> QED
    BY <1>4, <2>1
<1>9. \A m \in 0 .. n : m \in Good
  <2> HIDE DEF Good
  <2> QED
    BY <1>4, <1>7, <1>8, RoundsInduction
<1>10. n \in 0 .. n /\ D \in SUBSET D
  BY <1>4
<1> QED
  BY <1>1, <1>9, <1>10, <1>n

(* So the sum over nothing is nothing, and an element more adds to it. *)
LEMMA SumOfNone == \A f : SumOver(f, {}) = 0
<1> TAKE f
<1>1. IsFiniteSet({}) /\ \A x \in {} : f[x] \in Int
  BY FS_EmptySet
<1>2. PICK g : Sums(g, f, {})
  BY <1>1, SumsExist
<1>3. g[{}] = 0
  BY <1>2 DEF Sums
<1> QED
  BY <1>1, <1>2, <1>3, SumOverSums

(* A sum of numbers is a number,                                             *)
LEMMA SumTypes ==
  ASSUME NEW D, IsFiniteSet(D), NEW f, \A x \in D : f[x] \in Int
  PROVE  SumOver(f, D) \in Int
<1>1. PICK g : Sums(g, f, D)
  BY SumsExist
<1>2. D \in SUBSET D
  OBVIOUS
<1>3. g[D] \in Int
  BY <1>1, <1>2 DEF Sums
<1> QED
  BY <1>1, <1>3, SumOverSums

(* A function that sums over D does over every part of it. *)
LEMMA SumsOfPart ==
  ASSUME NEW D, IsFiniteSet(D), NEW f, NEW g, Sums(g, f, D), NEW s \in SUBSET D
  PROVE  SumOver(f, s) = g[s]
<1> DEFINE h == [r \in SUBSET s |-> g[r]]
<1>1. \A r \in SUBSET s : r \in SUBSET D /\ g[r] \in Int
  BY DEF Sums
<1>2. h \in [SUBSET s -> Int]
  BY <1>1
<1>3. ASSUME NEW r \in SUBSET s
      PROVE  h[r] = IF r = {} THEN 0 ELSE f[Chosen(r)] + h[r \ {Chosen(r)}]
  <2>1. r \ {Chosen(r)} \in SUBSET s
    OBVIOUS
  <2>2. g[r] = IF r = {} THEN 0 ELSE f[Chosen(r)] + g[r \ {Chosen(r)}]
    BY <1>1 DEF Sums
  <2> QED
    BY <2>1, <2>2
<1>4. h[s] = g[s]
  OBVIOUS
<1> HIDE DEF h
<1>5. Sums(h, f, s)
  BY <1>2, <1>3 DEF Sums
<1>6. IsFiniteSet(s)
  BY FS_Subset
<1> QED
  BY <1>4, <1>5, <1>6, SumOverSums

(* An element more adds its value.                                           *)
LEMMA SumOfOneMore ==
  ASSUME NEW D, IsFiniteSet(D), NEW f, \A x \in D : f[x] \in Int,
         NEW s \in SUBSET D, NEW x \in D, x \notin s
  PROVE  SumOver(f, s \cup {x}) = SumOver(f, s) + f[x]
<1>1. PICK g : Sums(g, f, D)
  BY SumsExist
<1> DEFINE t == s \cup {x}
<1>2. t \in SUBSET D /\ x \in t /\ t \ {x} = s
  OBVIOUS
<1> HIDE DEF t
<1>3. g[t] = f[x] + g[s]
  BY <1>1, <1>2, SumsTakeAny
<1>4. SumOver(f, t) = g[t] /\ SumOver(f, s) = g[s]
  BY <1>1, <1>2, SumsOfPart
<1>5. g[s] \in Int /\ f[x] \in Int
  BY <1>1 DEF Sums
<1>6. SumOver(f, t) = SumOver(f, s) + f[x]
  BY <1>3, <1>4, <1>5
<1> QED
  BY <1>6 DEF t

(* Functions that agree on a set have the same sum, *)
LEMMA SumOfSame ==
  ASSUME NEW D, IsFiniteSet(D), NEW f, \A x \in D : f[x] \in Int,
         NEW g, \A x \in D : g[x] = f[x]
  PROVE  SumOver(g, D) = SumOver(f, D)
<1> DEFINE Family == {s \in SUBSET D : SumOver(g, s) = SumOver(f, s)}
<1>1. {} \in Family
  BY SumOfNone
<1>2. ASSUME NEW s \in SUBSET D, NEW x \in D, x \notin s, s \in Family
      PROVE  s \cup {x} \in Family
  <2>1. \A y \in D : g[y] \in Int
    OBVIOUS
  <2>2. SumOver(f, s \cup {x}) = SumOver(f, s) + f[x] /\ SumOver(g, s \cup {x}) = SumOver(g, s) + g[x]
    BY <1>2, <2>1, SumOfOneMore
  <2>3. SumOver(g, s) = SumOver(f, s) /\ g[x] = f[x]
    BY <1>2
  <2>4. SumOver(g, s \cup {x}) = SumOver(f, s \cup {x})
    BY <2>2, <2>3
  <2> QED
    BY <1>2, <2>4
<1>3. D \in Family
  <2> HIDE DEF Family
  <2> QED
    BY <1>1, <1>2, FamilyInduction
<1> QED
  BY <1>3

(* that of zeros is zero, *)
LEMMA SumOfZeros ==
  ASSUME NEW D, IsFiniteSet(D), NEW f, \A x \in D : f[x] = 0
  PROVE  SumOver(f, D) = 0
<1> DEFINE Family == {s \in SUBSET D : SumOver(f, s) = 0}
<1>1. {} \in Family
  BY SumOfNone
<1>2. ASSUME NEW s \in SUBSET D, NEW x \in D, x \notin s, s \in Family
      PROVE  s \cup {x} \in Family
  <2>1. \A y \in D : f[y] \in Int
    OBVIOUS
  <2>2. SumOver(f, s \cup {x}) = SumOver(f, s) + f[x]
    BY <1>2, <2>1, SumOfOneMore
  <2>3. SumOver(f, s) = 0 /\ f[x] = 0
    BY <1>2
  <2>4. SumOver(f, s \cup {x}) = 0
    BY <2>2, <2>3
  <2> QED
    BY <1>2, <2>4
<1>3. D \in Family
  <2> HIDE DEF Family
  <2> QED
    BY <1>1, <1>2, FamilyInduction
<1> QED
  BY <1>3

(* and a value that grows by d makes the sum grow by d. *)
LEMMA SumChange ==
  ASSUME NEW D, IsFiniteSet(D), NEW f, \A x \in D : f[x] \in Int, NEW p \in D, NEW d \in Int,
         NEW g, \A x \in D : g[x] = IF x = p THEN f[x] + d ELSE f[x]
  PROVE  SumOver(g, D) = SumOver(f, D) + d
<1> DEFINE Family == {s \in SUBSET D :
                        SumOver(g, s) = IF p \in s THEN SumOver(f, s) + d ELSE SumOver(f, s)}
<1>1. {} \in Family
  BY SumOfNone
<1>2. ASSUME NEW s \in SUBSET D, NEW x \in D, x \notin s, s \in Family
      PROVE  s \cup {x} \in Family
  <2>1. \A y \in D : g[y] \in Int
    OBVIOUS
  <2>2. SumOver(f, s \cup {x}) = SumOver(f, s) + f[x] /\ SumOver(g, s \cup {x}) = SumOver(g, s) + g[x]
    BY <1>2, <2>1, SumOfOneMore
  <2>3. /\ SumOver(g, s) = IF p \in s THEN SumOver(f, s) + d ELSE SumOver(f, s)
        /\ g[x] = IF x = p THEN f[x] + d ELSE f[x]
    BY <1>2
  <2>4. SumOver(f, s) \in Int /\ f[x] \in Int
    <3>1. IsFiniteSet(s) /\ \A y \in s : f[y] \in Int
      BY FS_Subset
    <3> QED
      BY <3>1, SumTypes
  <2> DEFINE t == s \cup {x}
  <2>5. (p \in t <=> p \in s \/ p = x) /\ t \in SUBSET D
    OBVIOUS
  <2> HIDE DEF t
  <2>6. SumOver(g, t) = IF p \in t THEN SumOver(f, t) + d ELSE SumOver(f, t)
    <3>1. CASE p = x
      <4>1. p \notin s /\ p \in t
        BY <1>2, <2>5, <3>1
      <4> QED
        BY <2>2, <2>3, <2>4, <3>1, <4>1 DEF t
    <3>2. CASE p # x
      BY <2>2, <2>3, <2>4, <2>5, <3>2 DEF t
    <3> QED
      BY <3>1, <3>2
  <2>7. t \in Family
    BY <2>5, <2>6
  <2> QED
    BY <2>7 DEF t
<1>3. D \in Family
  <2> HIDE DEF Family
  <2> QED
    BY <1>1, <1>2, FamilyInduction
<1> QED
  BY <1>3

(* Those of D whose group is e. *)
GroupOf(e, h, D) == {x \in D : h[x] = e}

(* A sum may be taken in groups: F[e] is the sum over those whose group is e. *)
LEMMA SumOfGroups ==
  ASSUME NEW D, IsFiniteSet(D), NEW f, \A x \in D : f[x] \in Int,
         NEW E, IsFiniteSet(E), NEW h, \A x \in D : h[x] \in E,
         NEW F, \A e \in E : F[e] = SumOver(f, GroupOf(e, h, D))
  PROVE  SumOver(F, E) = SumOver(f, D)
<1> DEFINE In(s, e) == GroupOf(e, h, s)
           Of(s) == [e \in E |-> SumOver(f, In(s, e))]
           Family == {s \in SUBSET D : SumOver(Of(s), E) = SumOver(f, s)}
<1>1. {} \in Family
  <2>1. \A e \in E : In({}, e) = {}
    BY DEF GroupOf
  <2> HIDE DEF In
  <2>2. \A e \in E : Of({})[e] = 0
    BY <2>1, SumOfNone
  <2> HIDE DEF Of
  <2>3. SumOver(Of({}), E) = 0
    BY <2>2, SumOfZeros
  <2>4. SumOver(f, {}) = 0
    BY SumOfNone
  <2> QED
    BY <2>3, <2>4
<1>a. ASSUME NEW s \in SUBSET D PROVE \A e \in E : SumOver(f, In(s, e)) \in Int
  <2>1. \A e \in E : In(s, e) \in SUBSET D
    BY DEF GroupOf
  <2> HIDE DEF In
  <2>2. \A e \in E : IsFiniteSet(In(s, e)) /\ \A x \in In(s, e) : f[x] \in Int
    BY <2>1, FS_Subset
  <2> QED
    BY <2>2, SumTypes
<1>2. ASSUME NEW s \in SUBSET D, NEW x \in D, x \notin s, s \in Family
      PROVE  s \cup {x} \in Family
  <2> DEFINE t == s \cup {x}
             p == h[x]
  <2>1. t \in SUBSET D /\ p \in E
    OBVIOUS
  <2>2. SumOver(f, t) = SumOver(f, s) + f[x]
    BY <1>2, SumOfOneMore
  <2>3. /\ In(t, p) = In(s, p) \cup {x} /\ In(s, p) \in SUBSET D /\ x \notin In(s, p)
        /\ \A e \in E : e # p => In(t, e) = In(s, e)
    BY <1>2 DEF GroupOf
  <2> HIDE DEF In, t, p
  <2>4. SumOver(f, In(t, p)) = SumOver(f, In(s, p)) + f[x]
    BY <2>3, SumOfOneMore
  <2>5. \A e \in E : Of(s)[e] = SumOver(f, In(s, e)) /\ Of(t)[e] = SumOver(f, In(t, e))
    OBVIOUS
  <2> HIDE DEF Of
  <2>6. \A e \in E : Of(t)[e] = IF e = p THEN Of(s)[e] + f[x] ELSE Of(s)[e]
    BY <2>3, <2>4, <2>5
  <2>7. \A e \in E : Of(s)[e] \in Int
    BY <1>a, <2>5
  <2>8. SumOver(Of(t), E) = SumOver(Of(s), E) + f[x]
    <3> DEFINE before == Of(s)
               after == Of(t)
               d == f[x]
    <3>1. d \in Int
      OBVIOUS
    <3>2. /\ \A e \in E : before[e] \in Int
          /\ \A e \in E : after[e] = IF e = p THEN before[e] + d ELSE before[e]
      BY <2>6, <2>7
    <3> HIDE DEF before, after, d
    <3>3. SumOver(after, E) = SumOver(before, E) + d
      BY <2>1, <3>1, <3>2, SumChange
    <3> QED
      BY <3>3 DEF before, after, d
  <2>9. SumOver(Of(t), E) = SumOver(f, t)
    BY <1>2, <2>2, <2>8
  <2>10. t \in Family
    BY <2>1, <2>9
  <2> QED
    BY <2>10 DEF t
<1>3. D \in Family
  <2> HIDE DEF Family
  <2> QED
    BY <1>1, <1>2, FamilyInduction
<1>4. SumOver(Of(D), E) = SumOver(f, D)
  BY <1>3
<1>5. SumOver(F, E) = SumOver(Of(D), E)
  <2>1. \A e \in E : Of(D)[e] \in Int /\ F[e] = Of(D)[e]
    BY <1>a
  <2> HIDE DEF Of
  <2> QED
    BY <2>1, SumOfSame
<1> QED
  BY <1>4, <1>5

-----------------------------------------------------------------------------
(* The harness logs nothing itself: a transfer is always of the token of a   *)
(* contract, which has its metadata.                                         *)
RunInContracts(fr) == \A k \in 2 .. Len(fr) : fr[k].context \in Contracts
OfContracts(moves) == \A i \in 1 .. Len(moves) : moves[i].token \in Contracts

TokenInv ==
    /\ stage = "executing" => RunInContracts(frames)
    /\ OfContracts(effects) /\ OfContracts(transfers)

(* A list that is weighed like one of contracts is one of contracts. *)
LEMMA NothingWeighed ==
  ASSUME NEW numbers \in Seq(Int), \A i \in 1 .. Len(numbers) : numbers[i] >= 0,
         Total(numbers) = 0
  PROVE  \A i \in 1 .. Len(numbers) : numbers[i] = 0
<1> DEFINE n == Len(numbers)
<1>1. PICK f : Adds(f, numbers)
  BY AddingExists
<1>2. /\ n \in Nat /\ f \in [0 .. n -> Int] /\ f[0] = 0 /\ f[n] = 0
      /\ \A i \in 1 .. n : f[i] = f[i - 1] + numbers[i] /\ numbers[i] \in Int /\ numbers[i] >= 0
  BY <1>1, TotalAdds DEF Adds
<1>n. n = Len(numbers)
  OBVIOUS
<1> HIDE DEF n
<1> DEFINE Good == {m \in 0 .. n : f[m] >= 0 /\ \A i \in 1 .. m : numbers[i] <= f[m]}
<1>3. 0 \in Good
  BY <1>2
<1>4. ASSUME NEW m \in 1 .. n, m - 1 \in Good PROVE m \in Good
  <2>1. m \in 0 .. n /\ f[m] = f[m - 1] + numbers[m] /\ f[m - 1] >= 0 /\ f[m - 1] \in Int
    BY <1>2, <1>4
  <2>2. numbers[m] \in Int /\ numbers[m] >= 0
    BY <1>2
  <2>3. f[m] >= 0 /\ numbers[m] <= f[m] /\ f[m - 1] <= f[m] /\ f[m] \in Int
    BY <2>1, <2>2
  <2>4. ASSUME NEW i \in 1 .. m PROVE numbers[i] <= f[m]
    <3>1. CASE i = m
      BY <2>3, <3>1
    <3>2. CASE i # m
      <4>1. i \in 1 .. (m - 1) /\ i \in 1 .. n
        BY <1>2, <3>2
      <4>2. numbers[i] <= f[m - 1] /\ numbers[i] \in Int
        BY <1>2, <1>4, <4>1
      <4> QED
        BY <2>1, <2>3, <4>2
    <3> QED
      BY <3>1, <3>2
  <2> QED
    BY <2>1, <2>3, <2>4
<1>5. \A m \in 0 .. n : m \in Good
  <2> HIDE DEF Good
  <2> QED
    BY <1>2, <1>3, <1>4, RoundsInduction
<1>6. n \in Good
  BY <1>2, <1>5
<1>7. \A i \in 1 .. n : numbers[i] <= 0
  BY <1>2, <1>6
<1>8. \A i \in 1 .. n : numbers[i] = 0
  BY <1>2, <1>7
<1> QED
  BY <1>8, <1>n

(* A list with the transfers of another has tokens of contracts if that has. *)
LEMMA WeighedContracts ==
  ASSUME NEW s \in Seq(Moves), OfContracts(s), NEW t \in Seq(Moves),
         \A mu \in Weights : Weight(mu, t) = Weight(mu, s)
  PROVE  OfContracts(t)
<1> DEFINE mu == [y \in Moves |-> IF y.token \in Contracts THEN 0 ELSE 1]
           ms == [i \in DOMAIN s |-> mu[s[i]]]
           mt == [i \in DOMAIN t |-> mu[t[i]]]
<1>1. mu \in Weights /\ \A y \in Moves : mu[y] = IF y.token \in Contracts THEN 0 ELSE 1
  BY DEF Weights
<1> HIDE DEF mu
<1>2. /\ ms \in Seq(Int) /\ Len(ms) = Len(s) /\ mt \in Seq(Int) /\ Len(mt) = Len(t)
      /\ Weight(mu, s) = Total(ms) /\ Weight(mu, t) = Total(mt)
  BY <1>1, WeightNumbers DEF Weight
<1>3. /\ \A i \in 1 .. Len(s) : s[i] \in Moves /\ ms[i] = mu[s[i]]
      /\ \A i \in 1 .. Len(t) : t[i] \in Moves /\ mt[i] = mu[t[i]]
      /\ Len(s) \in Nat
  OBVIOUS
<1> HIDE DEF ms, mt
<1>4. Total(ms) = 0
  <2> DEFINE f == [i \in 0 .. Len(s) |-> 0]
  <2>1. f \in [0 .. Len(s) -> Int] /\ f[0] = 0 /\ f[Len(s)] = 0
    BY <1>3
  <2>2. ASSUME NEW i \in 1 .. Len(s) PROVE f[i] = f[i - 1] + ms[i]
    <3>1. ms[i] = 0
      BY <1>1, <1>3 DEF OfContracts
    <3>2. i \in 0 .. Len(s) /\ i - 1 \in 0 .. Len(s)
      BY <1>3
    <3> QED
      BY <3>1, <3>2
  <2> HIDE DEF f
  <2>3. Adds(f, ms)
    BY <1>2, <2>1, <2>2 DEF Adds
  <2> QED
    BY <1>2, <2>1, <2>3, TotalAdds
<1>5. Total(mt) = 0
  BY <1>1, <1>2, <1>4
<1>6. \A i \in 1 .. Len(mt) : mt[i] >= 0
  <2>1. \A y \in Moves : mu[y] >= 0
    <3>1. 0 >= 0 /\ 1 >= 0
      OBVIOUS
    <3> QED
      BY <1>1, <3>1
  <2>2. \A i \in 1 .. Len(t) : mt[i] >= 0
    BY <1>3, <2>1
  <2> QED
    BY <1>2, <2>2
<1>7. \A i \in 1 .. Len(t) : mt[i] = 0
  BY <1>2, <1>5, <1>6, NothingWeighed
<1>8. \A i \in 1 .. Len(t) : t[i].token \in Contracts
  BY <1>1, <1>3, <1>7
<1> QED
  BY <1>8 DEF OfContracts

(* A call runs in a contract: its own, or that of the frame below it. *)
LEMMA EnterInContract ==
  ASSUME TraceInv, TokenInv, NEW kind \in {"CALL", "DELEGATECALL"}, NEW address \in Contracts,
         NEW transaction, Enter(kind, address, transaction), kind = "CALL" \/ Len(frames) > 1
  PROVE  stage = "executing" /\ RunInContracts(frames')
<1> DEFINE m == Len(frames)
           new == [node |-> Len(arena) + 1,
                   context |-> IF kind = "DELEGATECALL" THEN Top.context ELSE address,
                   mark |-> Len(effects)]
<1>1. stage = "executing" /\ frames' = Append(frames, new) /\ RunInContracts(frames)
  BY DEF Enter, TokenInv
<1>2. frames \in Seq(FrameRecords) /\ m \in Nat
  BY <1>1 DEF TraceInv, Runs, Path
<1>3. new.context \in Contracts
  <2>1. CASE kind = "CALL"
    BY <2>1
  <2>2. CASE m > 1
    <3>1. m \in 2 .. m /\ Top = frames[m]
      BY <1>2, <2>2 DEF Top, Last
    <3>2. Top.context \in Contracts
      BY <1>1, <3>1 DEF RunInContracts
    <3> QED
      BY <3>2
  <2> QED
    BY <2>1, <2>2
<1> HIDE DEF new
<1> DEFINE fs == Append(frames, new)
<1>4. Len(fs) = m + 1 /\ fs[m + 1] = new /\ \A k \in 1 .. m : fs[k] = frames[k]
  BY <1>2
<1> HIDE DEF fs, m
<1>5. \A k \in 2 .. (m + 1) : k = m + 1 \/ (k \in 2 .. m /\ k \in 1 .. m)
  BY <1>2
<1>6. \A k \in 2 .. (m + 1) : fs[k].context \in Contracts
  BY <1>1, <1>3, <1>4, <1>5 DEF RunInContracts, m
<1>7. RunInContracts(fs)
  BY <1>4, <1>6 DEF RunInContracts
<1> QED
  BY <1>1, <1>7 DEF fs

(* Every step keeps that.                                                    *)
LEMMA TokenInvNext ==
  ASSUME TraceInv, TraceInv', TokenInv, [Next]_vars
  PROVE  TokenInv'
<1>1. CASE \E kind \in {"CALL", "DELEGATECALL"}, address \in Contracts :
             /\ \E transaction : Enter(kind, address, transaction)
             /\ kind = "CALL" \/ Len(frames) > 1
             /\ stage' = stage /\ effects' = effects /\ transfers' = transfers
  <2>1. RunInContracts(frames')
    BY <1>1, EnterInContract
  <2> QED
    BY <1>1, <2>1 DEF TokenInv
<1>2. CASE \E from, to \in Accounts, amount \in Amounts : EmitTransfer(from, to, amount)
  <2> DEFINE m == Len(frames)
  <2>1. /\ stage = "executing" /\ m > 1 /\ frames' = frames /\ transfers' = transfers
        /\ stage' = stage
        /\ \/ effects' = effects
           \/ \E from, to \in Accounts, amount \in Amounts :
                effects' = Append(effects, [token |-> Top.context, from |-> from,
                                            to |-> to, amount |-> amount])
    BY <1>2 DEF EmitTransfer
  <2>2. frames \in Seq(FrameRecords) /\ m \in Nat /\ effects \in Seq(Moves)
    BY <2>1 DEF TraceInv, Runs, Path
  <2>3. Top.context \in Contracts
    <3>1. m \in 2 .. m /\ Top = frames[m]
      BY <2>1, <2>2 DEF Top, Last
    <3> QED
      BY <2>1, <3>1 DEF TokenInv, RunInContracts
  <2>4. CASE effects' = effects
    BY <2>1, <2>4 DEF TokenInv
  <2>5. CASE effects' # effects
    <3>0. PICK from \in Accounts, to \in Accounts, amount \in Amounts :
            effects' = Append(effects, [token |-> Top.context, from |-> from,
                                        to |-> to, amount |-> amount])
      BY <2>1, <2>5
    <3> DEFINE move == [token |-> Top.context, from |-> from, to |-> to, amount |-> amount]
    <3>1. effects' = Append(effects, move) /\ move.token = Top.context
      BY <3>0
    <3> HIDE DEF move
    <3> DEFINE n == Len(effects)
               es == Append(effects, move)
    <3>2. n \in Nat /\ Len(es) = n + 1 /\ es[n + 1] = move /\ \A k \in 1 .. n : es[k] = effects[k]
      BY <2>2
    <3> HIDE DEF es
    <3>3. \A k \in 1 .. Len(effects) : effects[k].token \in Contracts
      BY DEF TokenInv, OfContracts
    <3> HIDE DEF n
    <3>4. \A k \in 1 .. (n + 1) : k = n + 1 \/ k \in 1 .. n
      BY <3>2
    <3>5. OfContracts(es)
      BY <2>3, <3>1, <3>2, <3>3, <3>4 DEF OfContracts, n
    <3> QED
      BY <2>1, <3>1, <3>5 DEF TokenInv, es
  <2> QED
    BY <2>4, <2>5
<1>3. CASE \E success \in BOOLEAN : Leave(success)
  <2> DEFINE m == Len(frames)
             mark == frames[m].mark
             kept == SubSeq(effects, 1, mark)
  <2>1. /\ stage = "executing" /\ m > 1 /\ transfers' = transfers
        /\ effects' = effects \/ effects' = SubSeq(effects, 1, Top.mark)
        /\ stage' = "recorded" \/ (stage' = stage /\ frames' = Front(frames))
    BY <1>3 DEF Leave
  <2>2. /\ frames \in Seq(FrameRecords) /\ m \in Nat /\ effects \in Seq(Moves)
        /\ Marked(frames, Len(effects))
    BY <2>1 DEF TraceInv, Runs, Path
  <2>3. OfContracts(effects')
    <3>1. m \in 1 .. m /\ Top = frames[m] /\ frames[m] \in FrameRecords
      BY <2>1, <2>2 DEF Top, Last
    <3>2. mark \in Nat /\ mark <= Len(effects) /\ Len(effects) \in Nat
      BY <2>2, <3>1 DEF FrameRecords, Marked
    <3> HIDE DEF mark
    <3>3. mark \in 0 .. Len(effects) /\ \A k \in 1 .. mark : k \in 1 .. Len(effects)
      BY <3>2
    <3>4. kept = [k \in 1 .. mark |-> effects[k]]
      BY <2>2, <3>2
    <3>5. Len(kept) = mark
      BY <2>2, <3>2
    <3> HIDE DEF kept
    <3>6. OfContracts(effects)
      BY DEF TokenInv
    <3>7. OfContracts(kept)
      BY <3>3, <3>4, <3>5, <3>6 DEF OfContracts
    <3> QED
      BY <2>1, <3>1, <3>6, <3>7 DEF kept, mark
  <2>4. stage' = "executing" => RunInContracts(frames')
    <3> SUFFICES ASSUME stage' = "executing" PROVE RunInContracts(frames')
      OBVIOUS
    <3>1. frames' = Front(frames) /\ RunInContracts(frames)
      BY <2>1 DEF TokenInv
    <3>2. /\ Len(Front(frames)) = m - 1
          /\ \A k \in 1 .. (m - 1) : Front(frames)[k] = frames[k]
      BY <2>1, <2>2, FrontOf
    <3> HIDE DEF m
    <3>3. \A k \in 2 .. (m - 1) : k \in 1 .. (m - 1) /\ k \in 2 .. m
      BY <2>2
    <3>4. RunInContracts(Front(frames))
      BY <3>1, <3>2, <3>3 DEF RunInContracts, m
    <3> QED
      BY <3>1, <3>4
  <2> QED
    BY <2>1, <2>3, <2>4 DEF TokenInv
<1>4. CASE ParseOutput
  <2>1. stage' = "parsed" /\ effects' = effects
    BY <1>4 DEF ParseOutput, traceVars
  <2>2. /\ effects \in Seq(Moves) /\ transfers' \in Seq(Moves)
        /\ \A mu \in Weights : Weight(mu, transfers') = Weight(mu, effects')
    BY <2>1 DEF TraceInv
  <2>3. OfContracts(effects)
    BY DEF TokenInv
  <2> DEFINE ts == transfers'
  <2>4. /\ ts \in Seq(Moves) /\ \A mu \in Weights : Weight(mu, ts) = Weight(mu, effects)
    BY <2>1, <2>2
  <2> HIDE DEF ts
  <2>5. OfContracts(ts)
    BY <2>2, <2>3, <2>4, WeighedContracts
  <2> QED
    BY <2>1, <2>3, <2>5 DEF TokenInv, ts
<1>5. CASE ShowTrace \/ FetchTokenPrices \/ AskProvider \/ AnalyzeBalanceChanges \/ ShowFlow
  <2>1. stage' # "executing" /\ effects' = effects /\ transfers' = transfers
    <3>1. CASE ShowTrace
      BY <3>1 DEF ShowTrace, traceVars
    <3>2. CASE FetchTokenPrices
      BY <3>2 DEF FetchTokenPrices
    <3>3. CASE AskProvider
      BY <3>3 DEF AskProvider, traceVars
    <3>4. CASE AnalyzeBalanceChanges
      BY <3>4 DEF AnalyzeBalanceChanges, traceVars
    <3>5. CASE ShowFlow
      BY <3>5 DEF ShowFlow, traceVars
    <3> QED
      BY <1>5, <3>1, <3>2, <3>3, <3>4, <3>5
  <2> QED
    BY <2>1 DEF TokenInv
<1>6. CASE UNCHANGED vars
  BY <1>6 DEF vars, traceVars, TokenInv
<1>7. ASSUME Next PROVE TokenInv'
  <2>1. CASE \E c \in Contracts : Override(c)
    <3>1. PICK c \in Contracts : Override(c)
      BY <2>1
    <3>2. Enter("CALL", c, FALSE) /\ stage' = stage /\ effects' = effects /\ transfers' = transfers
      BY <3>1 DEF Override
    <3>3. \E transaction : Enter("CALL", c, transaction)
      BY <3>2
    <3> QED
      BY <1>1, <3>2, <3>3
  <2>2. CASE \E c \in Contracts : CallTarget(c)
    <3>1. PICK c \in Contracts : CallTarget(c)
      BY <2>2
    <3>2. Enter("CALL", c, TRUE) /\ stage' = stage /\ effects' = effects /\ transfers' = transfers
      BY <3>1 DEF CallTarget, Enter
    <3>3. \E transaction : Enter("CALL", c, transaction)
      BY <3>2
    <3> QED
      BY <1>1, <3>2, <3>3
  <2>3. CASE \E kind \in {"CALL", "DELEGATECALL"}, c \in Contracts : CallInside(kind, c)
    <3>1. PICK kind \in {"CALL", "DELEGATECALL"}, c \in Contracts : CallInside(kind, c)
      BY <2>3
    <3>2. /\ Enter(kind, c, started) /\ Len(frames) > 1
          /\ stage' = stage /\ effects' = effects /\ transfers' = transfers
      BY <3>1 DEF CallInside
    <3>3. \E transaction : Enter(kind, c, transaction)
      BY <3>2
    <3> QED
      BY <1>1, <3>2, <3>3
  <2> QED
    BY <1>2, <1>3, <1>4, <1>5, <1>7, <2>1, <2>2, <2>3 DEF Next, NextTrace, Execute
<1> QED
  BY <1>6, <1>7

-----------------------------------------------------------------------------
(* The prices. *)

(* There is one least element. *)
LEMMA LeastIsOne ==
  ASSUME NEW K, K \subseteq Nat, NEW m \in K, \A j \in K : m <= j
  PROVE  (CHOOSE k \in K : \A j \in K : k <= j) = m
<1> DEFINE c == CHOOSE k \in K : \A j \in K : k <= j
<1>1. c \in K /\ \A j \in K : c <= j
  OBVIOUS
<1>2. c <= m /\ m <= c /\ c \in Nat /\ m \in Nat
  BY <1>1
<1> HIDE DEF c
<1>3. c = m
  BY <1>2
<1> QED
  BY <1>3 DEF c

(* One more answer tells what is not known yet. *)
LEMMA FirstKnownOfMore ==
  ASSUME NEW S, NEW list \in Seq(S), NEW answer \in S, NEW token, NEW field, NEW unknown
  PROVE  FirstKnown(Append(list, answer), token, field, unknown) =
            IF FirstKnown(list, token, field, unknown) = unknown THEN answer[token][field]
            ELSE FirstKnown(list, token, field, unknown)
<1> DEFINE more == Append(list, answer)
           n == Len(list)
           known == {k \in DOMAIN list : list[k][token][field] # unknown}
           knownMore == {k \in DOMAIN more : more[k][token][field] # unknown}
           IsFirst(k, K) == k \in K /\ \A j \in K : k <= j
<1>1. /\ n \in Nat /\ DOMAIN list = 1 .. n /\ DOMAIN more = 1 .. (n + 1)
      /\ \A k \in 1 .. n : more[k] = list[k]
      /\ more[n + 1] = answer
  BY AppendProperties
<1>2. /\ FirstKnown(list, token, field, unknown) =
            IF known = {} THEN unknown ELSE list[CHOOSE k \in known : \A j \in known : k <= j][token][field]
      /\ FirstKnown(more, token, field, unknown) =
            IF knownMore = {} THEN unknown
            ELSE more[CHOOSE k \in knownMore : \A j \in knownMore : k <= j][token][field]
  BY DEF FirstKnown
<1>3. /\ known \subseteq Nat /\ known \subseteq 1 .. n
      /\ knownMore = known \cup {k \in {n + 1} : answer[token][field] # unknown}
  BY <1>1
<1>a. /\ \A k \in known : list[k][token][field] # unknown
      /\ n + 1 \in knownMore => answer[token][field] # unknown
  BY <1>1
<1> HIDE DEF known, knownMore, more, n
<1>4. CASE known = {}
  <2>1. FirstKnown(list, token, field, unknown) = unknown
    BY <1>2, <1>4
  <2>2. CASE answer[token][field] = unknown
    <3>1. knownMore = {}
      BY <1>3, <1>4, <2>2
    <3> QED
      BY <1>2, <2>1, <2>2, <3>1 DEF more
  <2>3. CASE answer[token][field] # unknown
    <3>1. knownMore = {n + 1}
      BY <1>3, <1>4, <2>3
    <3>2. (CHOOSE k \in knownMore : \A j \in knownMore : k <= j) = n + 1
      BY <1>1, <3>1
    <3> QED
      BY <1>1, <1>2, <2>1, <3>1, <3>2 DEF more
  <2> QED
    BY <2>2, <2>3
<1>5. CASE known # {}
  <2>1. PICK m \in known : \A j \in known : m <= j
    BY <1>3, <1>5, LeastNatural
  <2>2. (CHOOSE k \in known : \A j \in known : k <= j) = m
    BY <1>3, <2>1, LeastIsOne
  <2>3. m \in knownMore /\ \A j \in knownMore : m <= j
    BY <1>1, <1>3, <2>1
  <2>4. (CHOOSE k \in knownMore : \A j \in knownMore : k <= j) = m
    <3>1. n + 1 \in Nat
      BY <1>1
    <3>2. knownMore \subseteq Nat
      BY <1>3, <3>1
    <3> QED
      BY <2>3, <3>2, LeastIsOne
  <2>5. more[m] = list[m]
    BY <1>1, <1>3, <2>1
  <2>6. list[m][token][field] # unknown
    BY <1>a, <2>1
  <2>7. knownMore # {}
    BY <2>3
  <2> QED
    BY <1>2, <1>5, <2>2, <2>4, <2>5, <2>6, <2>7 DEF more
<1> QED
  BY <1>4, <1>5

(* Nobody asked has told nothing.                                         *)
LEMMA FirstKnownOfNone ==
  ASSUME NEW token, NEW field, NEW unknown
  PROVE  FirstKnown(<<>>, token, field, unknown) = unknown
BY DEF FirstKnown

(* A price as the providers give it. *)
IsPrice(p) ==
    /\ p = Price(p.usd, p.decimals, p.symbol, p.logo)
    /\ p.usd \in Nat /\ p.logo \in {NoLogo, "trust", "dex"}

(* What Price makes is one,                                               *)
LEMMA PricesMade ==
  ASSUME NEW usd \in Nat, NEW decimals, NEW symbol, NEW logo \in {NoLogo, "trust", "dex"}
  PROVE  IsPrice(Price(usd, decimals, symbol, logo))
BY DEF IsPrice, Price

(* and so is what each provider may answer.                               *)
LEMMA AnswersArePrices ==
  ASSUME NEW k \in 1 .. Providers, NEW token, NEW p \in Answers(k, token)
  PROVE  IsPrice(p)
<1>0. 0 \in Nat /\ LlamaPrice \in Nat /\ GeckoPrice \in Nat
  BY PriceAssumption
<1>a. IsPrice(NoPrice)
  BY <1>0, PricesMade DEF NoPrice
<1>1. ASSUME k = 1 PROVE IsPrice(p)
  <2>1. p \in RPCMetadata(token)
    BY <1>1 DEF Answers
  <2>2. PICK decimals, symbol : p = Price(0, decimals, symbol, "trust")
    BY <2>1 DEF RPCMetadata
  <2> QED
    BY <1>0, <2>2, PricesMade
<1>2. ASSUME k = 2 PROVE IsPrice(p)
  <2>1. p \in DefiLlama(token) \cup {NoPrice}
    BY <1>2 DEF Answers
  <2>2. p \in DefiLlama(token) => IsPrice(p)
    BY <1>0, PricesMade DEF DefiLlama
  <2> QED
    BY <1>a, <2>1, <2>2
<1>3. ASSUME k = 3 PROVE IsPrice(p)
  <2>1. p \in CoinGecko(token) \cup {NoPrice}
    BY <1>3 DEF Answers
  <2>2. p \in CoinGecko(token) => IsPrice(p)
    BY <1>0, PricesMade DEF CoinGecko
  <2> QED
    BY <1>a, <2>1, <2>2
<1>4. ASSUME k = 4 PROVE IsPrice(p)
  <2>1. p \in DexScreener(token) \cup {NoPrice}
    BY <1>4 DEF Answers
  <2>2. p \in DexScreener(token) => IsPrice(p)
    BY <1>0, PricesMade DEF DexScreener
  <2> QED
    BY <1>a, <2>1, <2>2
<1>5. k \in {1, 2, 3, 4}
  BY DEF Providers
<1> QED
  BY <1>1, <1>2, <1>3, <1>4, <1>5

(* p is what the answers of a list make of a token. *)
Logos(list, token) == {list[k][token].logo : k \in DOMAIN list}
FirstOfAll(p, list, token) ==
    /\ IsPrice(p)
    /\ p.usd = FirstKnown(list, token, "usd", 0)
    /\ p.decimals = FirstKnown(list, token, "decimals", Unknown)
    /\ p.symbol = FirstKnown(list, token, "symbol", NoSymbol)
    /\ p.logo = IF "dex" \in Logos(list, token) THEN "dex"
                ELSE IF "trust" \in Logos(list, token) THEN "trust" ELSE NoLogo

(* mergeTokenPrice adds one answer to what the earlier ones make.         *)
LEMMA MergeKeepsFirst ==
  ASSUME NEW S, NEW list \in Seq(S), NEW answer \in S, NEW token,
         NEW p, FirstOfAll(p, list, token), IsPrice(answer[token])
  PROVE  FirstOfAll(MergeTokenPrice(p, answer[token]), Append(list, answer), token)
<1> DEFINE next == answer[token]
           q == MergeTokenPrice(p, next)
           more == Append(list, answer)
<1>1. /\ q.usd = (IF p.usd <= 0 /\ next.usd > 0 THEN next.usd ELSE p.usd)
      /\ q.decimals = (IF p.decimals = Unknown THEN next.decimals ELSE p.decimals)
      /\ q.symbol = (IF p.symbol = NoSymbol THEN next.symbol ELSE p.symbol)
      /\ q.logo = (IF next.logo # NoLogo /\ p.logo \in {NoLogo, "trust"} THEN next.logo ELSE p.logo)
      /\ q = Price(q.usd, q.decimals, q.symbol, q.logo)
  <2>1. p = [usd |-> p.usd, decimals |-> p.decimals, symbol |-> p.symbol, logo |-> p.logo]
    BY DEF FirstOfAll, IsPrice, Price
  <2> HIDE DEF next
  <2> DEFINE usd == IF p.usd <= 0 /\ next.usd > 0 THEN next.usd ELSE p.usd
             decimals == IF p.decimals = Unknown THEN next.decimals ELSE p.decimals
             symbol == IF p.symbol = NoSymbol THEN next.symbol ELSE p.symbol
             logo == IF next.logo # NoLogo /\ p.logo \in {NoLogo, "trust"} THEN next.logo ELSE p.logo
  <2>2. q = [p EXCEPT !.usd = usd, !.decimals = decimals, !.symbol = symbol, !.logo = logo]
    BY DEF MergeTokenPrice
  <2> HIDE DEF q, usd, decimals, symbol, logo
  <2>3. q = Price(usd, decimals, symbol, logo)
    BY <2>1, <2>2 DEF Price
  <2>4. /\ q.usd = usd /\ q.decimals = decimals /\ q.symbol = symbol /\ q.logo = logo
        /\ q = Price(q.usd, q.decimals, q.symbol, q.logo)
    BY <2>3 DEF Price
  <2> QED
    BY <2>4 DEF usd, decimals, symbol, logo
<1>2. Logos(more, token) = Logos(list, token) \cup {next.logo}
  <2>1. /\ DOMAIN more = DOMAIN list \cup {Len(list) + 1}
        /\ \A k \in DOMAIN list : more[k] = list[k]
        /\ more[Len(list) + 1] = answer
    BY AppendProperties
  <2> HIDE DEF more
  <2> QED
    BY <2>1 DEF Logos
<1>3. /\ FirstKnown(more, token, "usd", 0) = (IF p.usd = 0 THEN next.usd ELSE p.usd)
      /\ FirstKnown(more, token, "decimals", Unknown)
            = (IF p.decimals = Unknown THEN next.decimals ELSE p.decimals)
      /\ FirstKnown(more, token, "symbol", NoSymbol)
            = (IF p.symbol = NoSymbol THEN next.symbol ELSE p.symbol)
  <2>1. /\ next["usd"] = next.usd /\ next["decimals"] = next.decimals /\ next["symbol"] = next.symbol
    OBVIOUS
  <2> QED
    BY <2>1, FirstKnownOfMore DEF FirstOfAll
<1>4. /\ p.usd \in Nat /\ next.usd \in Nat
      /\ p.logo \in {NoLogo, "trust", "dex"} /\ next.logo \in {NoLogo, "trust", "dex"}
      /\ p.logo = (IF "dex" \in Logos(list, token) THEN "dex"
                   ELSE IF "trust" \in Logos(list, token) THEN "trust" ELSE NoLogo)
  BY DEF FirstOfAll, IsPrice
<1> HIDE DEF q, more, next
<1>5. q.usd = FirstKnown(more, token, "usd", 0) /\ q.usd \in Nat
  BY <1>1, <1>3, <1>4
<1>6. /\ q.logo \in {NoLogo, "trust", "dex"}
      /\ q.logo = IF "dex" \in Logos(more, token) THEN "dex"
                  ELSE IF "trust" \in Logos(more, token) THEN "trust" ELSE NoLogo
  BY <1>1, <1>2, <1>4 DEF NoLogo
<1>7. FirstOfAll(q, more, token)
  BY <1>1, <1>3, <1>5, <1>6 DEF FirstOfAll, IsPrice
<1> QED
  BY <1>7 DEF q, more, next

(* The last provider is followed by the price of a stablecoin. *)
Finished(p, list, token) ==
    /\ IsPrice(p)
    /\ p.decimals = FirstKnown(list, token, "decimals", Unknown)
    /\ p.symbol = FirstKnown(list, token, "symbol", NoSymbol)
    /\ p.usd = LET usd == FirstKnown(list, token, "usd", 0)
               IN  IF usd = 0 /\ p.symbol \in StableSymbols THEN 1 ELSE usd
    /\ p.logo = IF "dex" \in Logos(list, token) THEN "dex"
                ELSE IF "trust" \in Logos(list, token) THEN "trust" ELSE NoLogo

(* applyStablecoinFallback makes the last of it.                          *)
LEMMA StablecoinsPriced ==
  ASSUME NEW p, NEW list, NEW token, FirstOfAll(p, list, token)
  PROVE  Finished(WithStablecoinFallback(p), list, token)
<1>1. IsPrice(p) /\ p.usd \in Nat
  BY DEF FirstOfAll, IsPrice
<1>2. CASE p.usd > 0 \/ p.symbol \notin StableSymbols
  <2>1. WithStablecoinFallback(p) = p
    BY <1>2 DEF WithStablecoinFallback
  <2> QED
    BY <1>1, <1>2, <2>1 DEF FirstOfAll, Finished
<1>3. CASE ~ (p.usd > 0 \/ p.symbol \notin StableSymbols)
  <2> DEFINE q == [p EXCEPT !.usd = 1]
  <2>1. WithStablecoinFallback(p) = q
    BY <1>3 DEF WithStablecoinFallback
  <2>2. /\ q = Price(1, p.decimals, p.symbol, p.logo)
        /\ q.usd = 1 /\ q.decimals = p.decimals /\ q.symbol = p.symbol /\ q.logo = p.logo
    BY <1>1 DEF IsPrice, Price
  <2> HIDE DEF q
  <2>3. IsPrice(q)
    BY <1>1, <2>2 DEF IsPrice
  <2> QED
    BY <1>1, <1>3, <2>1, <2>2, <2>3 DEF FirstOfAll, Finished
<1> QED
  BY <1>2, <1>3

AllAnswers == [Tokens -> UNION {Answers(k, t) : k \in 1 .. Providers, t \in Tokens}]

(* The answers asked for are what each token has a price from; once there    *)
(* are changes they are valued by it.                                        *)
PricesInv ==
    /\ stage \in {"executing", "recorded", "parsed", "shown", "pricing", "priced"} => changes = {}
    /\ stage \in {"executing", "recorded", "parsed", "shown"} => answers = <<>>
    /\ stage \in {"pricing", "priced", "analyzed"} => answers \in Seq(AllAnswers)
    /\ stage = "pricing" =>
         /\ Len(answers) < Providers
         /\ \A token \in Tokens : FirstOfAll(prices[token], answers, token)
    /\ stage \in {"priced", "analyzed"} =>
         \A token \in Tokens : Finished(prices[token], answers, token)
    /\ stage = "analyzed" =>
         \A c \in changes : c.token \in Tokens /\ c.valued = Valued(prices[c.token])

(* Before the trace there is nothing.                                     *)
LEMMA PricesInitially == Init => PricesInv
BY DEF Init, InitTrace, PricesInv

(* Every step keeps it.                                                   *)
LEMMA PricesInvInductive == PricesInv /\ [Next]_vars => PricesInv'
<1> SUFFICES ASSUME PricesInv, [Next]_vars PROVE PricesInv'
  OBVIOUS
<1>1. CASE NextTrace /\ UNCHANGED flowVars
  <2>1. /\ stage \in {"executing", "recorded", "parsed"}
        /\ stage' \in {"executing", "recorded", "parsed", "shown"}
    BY <1>1 DEF NextTrace, Execute, Override, CallTarget, CallInside, Enter, EmitTransfer,
                Leave, ParseOutput, ShowTrace
  <2>2. changes' = {} /\ answers' = <<>>
    BY <1>1, <2>1 DEF flowVars, PricesInv
  <2> QED
    BY <2>1, <2>2 DEF PricesInv
<1>2. CASE FetchTokenPrices
  <2>1. /\ stage = "parsed" /\ stage' \in {"priced", "pricing"}
        /\ changes' = {} /\ answers' = <<>> /\ Tokens' = Tokens
        /\ stage' = "priced" => Tokens = {}
        /\ prices' = [token \in Tokens |-> NoPrice]
    BY <1>2 DEF FetchTokenPrices, PricesInv, Tokens
  <2>2. \A token \in Tokens : FirstOfAll(prices'[token], <<>>, token)
    <3>1. IsPrice(NoPrice)
      BY PricesMade DEF NoPrice, NoLogo
    <3>2. \A token : Logos(<<>>, token) = {}
      BY DEF Logos
    <3> QED
      BY <2>1, <3>1, <3>2, FirstKnownOfNone DEF FirstOfAll, NoPrice, Price, Unknown
  <2>3. Len(<<>>) = 0 /\ <<>> \in Seq(AllAnswers')
    OBVIOUS
  <2> QED
    BY <2>1, <2>2, <2>3 DEF PricesInv, Providers
<1>3. CASE AskProvider
  <2> DEFINE k == Len(answers) + 1
             S == AllAnswers
             merged(answer) == [token \in Tokens |-> MergeTokenPrice(prices[token], answer[token])]
  <2>1. /\ stage = "pricing" /\ changes' = {} /\ Tokens' = Tokens
        /\ answers \in Seq(S) /\ Len(answers) < Providers
        /\ \A token \in Tokens : FirstOfAll(prices[token], answers, token)
    BY <1>3 DEF AskProvider, PricesInv, Tokens
  <2>2. k \in 1 .. Providers
    BY <2>1 DEF Providers
  <2>3. PICK answer \in [Tokens -> UNION {Answers(k, t) : t \in Tokens}] :
          /\ \A token \in Tokens : answer[token] \in Answers(k, token)
          /\ answers' = Append(answers, answer)
          /\ prices' = IF k = Providers
                       THEN [token \in Tokens |-> WithStablecoinFallback(merged(answer)[token])]
                       ELSE merged(answer)
          /\ stage' = IF k = Providers THEN "priced" ELSE stage
    BY <1>3 DEF AskProvider
  <2> HIDE DEF k
  <2>a. S' = S
    BY <2>1 DEF AllAnswers
  <2>4. answer \in S
    BY <2>2, <2>3 DEF AllAnswers
  <2>5. \A token \in Tokens : IsPrice(answer[token])
    BY <2>2, <2>3, AnswersArePrices
  <2> HIDE DEF S
  <2>6. \A token \in Tokens : FirstOfAll(merged(answer)[token], answers', token)
    BY <2>1, <2>3, <2>4, <2>5, MergeKeepsFirst
  <2>7. answers' \in Seq(S) /\ Len(answers') = k
    BY <2>1, <2>3, <2>4, AppendProperties DEF k
  <2>8. CASE k = Providers
    <3>1. stage' = "priced" /\ \A token \in Tokens : Finished(prices'[token], answers', token)
      BY <2>3, <2>6, <2>8, StablecoinsPriced
    <3> QED
      BY <2>1, <2>7, <2>a, <3>1 DEF PricesInv, S
  <2>9. CASE k # Providers
    <3>1. stage' = "pricing" /\ \A token \in Tokens : FirstOfAll(prices'[token], answers', token)
      BY <2>1, <2>3, <2>6, <2>9
    <3>2. Len(answers') < Providers
      BY <2>2, <2>7, <2>9 DEF Providers
    <3> QED
      BY <2>1, <2>7, <2>a, <3>1, <3>2 DEF PricesInv, S
  <2> QED
    BY <2>8, <2>9
<1>4. CASE AnalyzeBalanceChanges
  <2>1. /\ stage = "priced" /\ stage' = "analyzed" /\ Tokens' = Tokens
        /\ AllAnswers' = AllAnswers /\ UNCHANGED <<answers, prices>>
        /\ changes' = {Change(key[1], key[2], RawChanges[key]) : key \in ChangedKeys}
    BY <1>4 DEF AnalyzeBalanceChanges, Tokens, AllAnswers
  <2>2. \A c \in changes' : c.token \in Tokens /\ c.valued = Valued(prices[c.token])
    <3> SUFFICES ASSUME NEW c \in changes'
                 PROVE  c.token \in Tokens /\ c.valued = Valued(prices[c.token])
      OBVIOUS
    <3>1. PICK key \in ChangedKeys : c = Change(key[1], key[2], RawChanges[key])
      BY <2>1
    <3>2. key[2] \in Tokens
      BY DEF ChangedKeys
    <3>3. c.token = key[2] /\ c.valued = Valued(prices[key[2]])
      BY <3>1 DEF Change
    <3> QED
      BY <3>2, <3>3
  <2> QED
    BY <2>1, <2>2 DEF PricesInv, Valued, PriceUSD
<1>5. CASE ShowFlow
  BY <1>5 DEF ShowFlow, PricesInv
<1>6. CASE UNCHANGED vars
  BY <1>6 DEF vars, flowVars, PricesInv, Tokens, AllAnswers
<1> QED
  BY <1>1, <1>2, <1>3, <1>4, <1>5, <1>6 DEF Next

(* Whatever the providers answer and leave out, a price, the decimals and    *)
(* the symbol of a token are the first that one of them knew, a logo of      *)
(* DexScreener comes before that of Trust Wallet, a stablecoin is worth a    *)
(* dollar, and a change has a value when price and decimals are known        *)
(* (provider.go mergeTokenPrice, applyStablecoinFallback).                   *)
THEOREM PricesAlwaysFirstKnown == Spec => []PricesAreFirstKnown
<1>1. ASSUME PricesInv PROVE PricesAreFirstKnown
  <2> SUFFICES ASSUME stage \in {"priced", "analyzed"}, NEW token \in Tokens
               PROVE  LET usd == FirstKnown(answers, token, "usd", 0)
                          decimals == FirstKnown(answers, token, "decimals", Unknown)
                          symbol == FirstKnown(answers, token, "symbol", NoSymbol)
                          logos == {answers[k][token].logo : k \in DOMAIN answers}
                      IN  /\ prices[token].decimals = decimals
                          /\ \A c \in {c \in changes : c.token = token} :
                               c.valued <=> decimals # Unknown /\ (usd > 0 \/ symbol \in StableSymbols)
                          /\ prices[token].symbol = symbol
                          /\ prices[token].usd = IF usd = 0 /\ symbol \in StableSymbols THEN 1 ELSE usd
                          /\ prices[token].logo =
                               IF "dex" \in logos THEN "dex"
                               ELSE IF "trust" \in logos THEN "trust" ELSE NoLogo
    BY DEF PricesAreFirstKnown
  <2> DEFINE usd == FirstKnown(answers, token, "usd", 0)
             decimals == FirstKnown(answers, token, "decimals", Unknown)
             symbol == FirstKnown(answers, token, "symbol", NoSymbol)
             p == prices[token]
  <2>1. Finished(p, answers, token)
    BY <1>1 DEF PricesInv
  <2>2. /\ p.decimals = decimals /\ p.symbol = symbol /\ p.usd \in Nat
        /\ p.usd = (IF usd = 0 /\ symbol \in StableSymbols THEN 1 ELSE usd)
    BY <2>1 DEF Finished, IsPrice
  <2>3. ASSUME NEW c \in changes, c.token = token
        PROVE  c.valued <=> decimals # Unknown /\ (usd > 0 \/ symbol \in StableSymbols)
    <3>1. c.valued = Valued(p)
      <4>1. stage = "analyzed"
        BY <1>1, <2>3 DEF PricesInv
      <4>2. c.valued = Valued(prices[c.token])
        BY <1>1, <2>3, <4>1 DEF PricesInv
      <4> QED
        BY <2>3, <4>2
    <3> HIDE DEF usd, decimals, symbol, p
    <3>2. Valued(p) <=> decimals # Unknown /\ (usd > 0 \/ symbol \in StableSymbols)
      BY <2>2 DEF Valued, PriceUSD
    <3> QED
      BY <3>1, <3>2
  <2> HIDE DEF usd, decimals, symbol, p
  <2>4. p.logo = IF "dex" \in Logos(answers, token) THEN "dex"
                 ELSE IF "trust" \in Logos(answers, token) THEN "trust" ELSE NoLogo
    BY <2>1 DEF Finished
  <2> QED
    BY <2>2, <2>3, <2>4 DEF Logos, usd, decimals, symbol, p
<1> QED
  BY <1>1, PricesInitially, PricesInvInductive, PTL DEF Spec

-----------------------------------------------------------------------------
(* The values. *)
Decimals == {Unknown} \cup (0 .. MaxDecimals)
HasValue(p) == IsPrice(p) /\ p.decimals \in Decimals

(* The prices that are merged have decimals that are known to be small. *)
ValuesInv == stage \in {"pricing", "priced"} => \A k \in Tokens : HasValue(prices[k])

(* So have the answers of the providers,                                     *)
LEMMA AnswersHaveValue ==
  ASSUME NEW n \in 1 .. Providers, NEW k \in Contracts, NEW p \in Answers(n, k)
  PROVE  HasValue(p)
<1>1. IsPrice(p)
  BY AnswersArePrices
<1>2. DecimalsOf[k] \in Decimals /\ Unknown \in Decimals /\ 0 \in Decimals
  BY PriceAssumption DEF Decimals
<1>a. NoPrice.decimals \in Decimals
  BY <1>2 DEF NoPrice, Price
<1>3. ASSUME n = 1 PROVE p.decimals \in Decimals
  <2>1. p \in RPCMetadata(k)
    BY <1>3 DEF Answers
  <2>2. PICK decimals \in {Unknown, DecimalsOf[k]}, symbol \in {NoSymbol, SymbolOf[k]} : p = Price(0, decimals, symbol, "trust")
    BY <2>1 DEF RPCMetadata
  <2> QED
    BY <1>2, <2>2 DEF Price
<1>4. ASSUME n = 2 PROVE p.decimals \in Decimals
  <2>1. p \in DefiLlama(k) \cup {NoPrice}
    BY <1>4 DEF Answers
  <2>2. p \in DefiLlama(k) => p.decimals \in Decimals
    BY <1>2 DEF DefiLlama, Price
  <2> QED
    BY <1>a, <2>1, <2>2
<1>5. ASSUME n = 3 PROVE p.decimals \in Decimals
  <2>1. p \in CoinGecko(k) \cup {NoPrice}
    BY <1>5 DEF Answers
  <2>2. p \in CoinGecko(k) => p.decimals \in Decimals
    BY <1>2 DEF CoinGecko, Price
  <2> QED
    BY <1>a, <2>1, <2>2
<1>6. ASSUME n = 4 PROVE p.decimals \in Decimals
  <2>1. p \in DexScreener(k) \cup {NoPrice}
    BY <1>6 DEF Answers
  <2>2. p \in DexScreener(k) => p.decimals \in Decimals
    BY <1>2 DEF DexScreener, Price
  <2> QED
    BY <1>a, <2>1, <2>2
<1>7. n \in {1, 2, 3, 4}
  BY DEF Providers
<1> QED
  BY <1>1, <1>3, <1>4, <1>5, <1>6, <1>7 DEF HasValue

(* and what is made of two of them.                                          *)
LEMMA MergedHaveValue ==
  ASSUME NEW p, HasValue(p), NEW q, HasValue(q)
  PROVE  /\ HasValue(MergeTokenPrice(p, q))
         /\ HasValue(WithStablecoinFallback(p))
<1>1. /\ IsPrice(p) /\ IsPrice(q) /\ p.decimals \in Decimals /\ q.decimals \in Decimals
      /\ p = [usd |-> p.usd, decimals |-> p.decimals, symbol |-> p.symbol, logo |-> p.logo]
      /\ p.usd \in Nat /\ q.usd \in Nat
      /\ p.logo \in {NoLogo, "trust", "dex"} /\ q.logo \in {NoLogo, "trust", "dex"}
  BY DEF HasValue, IsPrice, Price
<1> DEFINE usd == IF p.usd <= 0 /\ q.usd > 0 THEN q.usd ELSE p.usd
           decimals == IF p.decimals = Unknown THEN q.decimals ELSE p.decimals
           symbol == IF p.symbol = NoSymbol THEN q.symbol ELSE p.symbol
           logo == IF q.logo # NoLogo /\ p.logo \in {NoLogo, "trust"} THEN q.logo ELSE p.logo
           r == MergeTokenPrice(p, q)
<1>2. r = [p EXCEPT !.usd = usd, !.decimals = decimals, !.symbol = symbol, !.logo = logo]
  BY DEF MergeTokenPrice
<1>3. usd \in Nat /\ decimals \in Decimals /\ logo \in {NoLogo, "trust", "dex"}
  BY <1>1
<1> HIDE DEF r, usd, decimals, symbol, logo
<1>4. r = Price(usd, decimals, symbol, logo)
  BY <1>1, <1>2 DEF Price
<1>5. r.decimals = decimals
  BY <1>4 DEF Price
<1>6. HasValue(r)
  BY <1>3, <1>4, <1>5, PricesMade DEF HasValue
<1>7. HasValue(WithStablecoinFallback(p))
  <2> DEFINE w == [p EXCEPT !.usd = 1]
  <2>1. WithStablecoinFallback(p) = p \/ WithStablecoinFallback(p) = w
    BY DEF WithStablecoinFallback
  <2>2. w = Price(1, p.decimals, p.symbol, p.logo)
    BY <1>1 DEF Price
  <2> HIDE DEF w
  <2>3. IsPrice(w) /\ w.decimals = p.decimals
    <3>1. 1 \in Nat
      OBVIOUS
    <3> QED
      BY <1>1, <2>2, <3>1, PricesMade DEF Price
  <2> QED
    BY <1>1, <2>1, <2>3 DEF HasValue
<1> QED
  BY <1>6, <1>7 DEF r

(* Every step keeps that.                                                    *)
LEMMA ValuesInvNext ==
  ASSUME TraceInv, TokenInv, PricesInv, ValuesInv, [Next]_vars
  PROVE  ValuesInv'
<1>0. \A k \in Tokens : k \in Contracts
  BY TokenTypes DEF TraceInv, TokenInv, OfContracts
<1>1. CASE NextTrace
  <2>1. stage' \notin {"pricing", "priced"}
    <3>1. CASE \E c \in Contracts : Override(c) \/ CallTarget(c)
      BY <3>1 DEF Override, CallTarget, Enter
    <3>2. CASE \E kind \in {"CALL", "DELEGATECALL"}, c \in Contracts : CallInside(kind, c)
      BY <3>2 DEF CallInside, Enter
    <3>3. CASE \E from, to \in Accounts, amount \in Amounts : EmitTransfer(from, to, amount)
      BY <3>3 DEF EmitTransfer
    <3>4. CASE \E success \in BOOLEAN : Leave(success)
      BY <3>4 DEF Leave
    <3>5. CASE ParseOutput \/ ShowTrace
      BY <3>5 DEF ParseOutput, ShowTrace
    <3> QED
      BY <1>1, <3>1, <3>2, <3>3, <3>4, <3>5 DEF NextTrace, Execute
  <2> QED
    BY <2>1 DEF ValuesInv
<1>2. CASE FetchTokenPrices
  <2>1. prices' = [k \in Tokens |-> NoPrice] /\ Tokens' = Tokens
    BY <1>2 DEF FetchTokenPrices, Tokens
  <2>2. HasValue(NoPrice)
    <3>1. IsPrice(NoPrice)
      BY PricesMade DEF NoPrice, NoLogo
    <3>2. NoPrice.decimals \in Decimals
      BY DEF NoPrice, Price, Decimals
    <3> QED
      BY <3>1, <3>2 DEF HasValue
  <2> QED
    BY <2>1, <2>2 DEF ValuesInv
<1>3. CASE AskProvider
  <2> DEFINE n == Len(answers) + 1
             merged(answer) == [k \in Tokens |-> MergeTokenPrice(prices[k], answer[k])]
  <2>1. /\ stage = "pricing" /\ Tokens' = Tokens
        /\ Len(answers) \in Nat /\ Len(answers) < Providers
    BY <1>3 DEF AskProvider, PricesInv, Tokens
  <2>2. n \in 1 .. Providers
    BY <2>1 DEF Providers
  <2>3. PICK answer :
          /\ \A k \in Tokens : answer[k] \in Answers(n, k)
          /\ prices' = IF n = Providers
                       THEN [k \in Tokens |-> WithStablecoinFallback(merged(answer)[k])]
                       ELSE merged(answer)
    BY <1>3 DEF AskProvider
  <2> HIDE DEF n
  <2>4. ASSUME NEW k \in Tokens PROVE HasValue(merged(answer)[k])
    <3>1. HasValue(answer[k])
      BY <1>0, <2>2, <2>3, AnswersHaveValue
    <3>2. HasValue(prices[k])
      BY <2>1 DEF ValuesInv
    <3> QED
      BY <3>1, <3>2, MergedHaveValue
  <2>5. ASSUME NEW k \in Tokens PROVE HasValue(prices'[k])
    <3>1. prices'[k] = merged(answer)[k] \/ prices'[k] = WithStablecoinFallback(merged(answer)[k])
      BY <2>3
    <3> DEFINE p == merged(answer)[k]
    <3>2. HasValue(p)
      BY <2>4
    <3>3. prices'[k] = p \/ prices'[k] = WithStablecoinFallback(p)
      BY <3>1
    <3> HIDE DEF p
    <3> QED
      BY <3>2, <3>3, MergedHaveValue
  <2> QED
    BY <2>1, <2>5 DEF ValuesInv
<1>4. CASE AnalyzeBalanceChanges \/ ShowFlow
  BY <1>4 DEF AnalyzeBalanceChanges, ShowFlow, ValuesInv
<1>5. CASE UNCHANGED vars
  BY <1>5 DEF vars, flowVars, ValuesInv, Tokens
<1> QED
  BY <1>1, <1>2, <1>3, <1>4, <1>5 DEF Next

(* What one unit of a token is worth, if it has a value. *)
Worth(p) == IF Valued(p) THEN PriceUSD(p) * 10 ^ (MaxDecimals - p.decimals) ELSE 0

(* A USD value is the amount times the worth of a unit.                      *)
LEMMA WorthTypes ==
  ASSUME NEW p, HasValue(p)
  PROVE  /\ Worth(p) \in Int
         /\ Valued(p) => \A raw \in Int : USDValue(raw, p) = raw * Worth(p)
<1>1. p.usd \in Nat /\ p.decimals \in Decimals /\ MaxDecimals \in Nat
  BY PriceAssumption DEF HasValue, IsPrice
<1>2. PriceUSD(p) \in Int
  BY <1>1 DEF PriceUSD
<1>3. CASE Valued(p)
  <2> DEFINE n == MaxDecimals - p.decimals
             a == PriceUSD(p)
             b == 10 ^ n
  <2>1. n \in Nat
    BY <1>1, <1>3 DEF Valued, Decimals
  <2>2. a \in Int
    BY <1>2
  <2> HIDE DEF n
  <2>3. b \in Int
    BY <2>1
  <2>4. Worth(p) = a * b /\ \A raw \in Int : USDValue(raw, p) = raw * a * b
    BY <1>3 DEF Worth, USDValue, n
  <2> HIDE DEF a, b
  <2>5. a * b \in Int /\ \A raw \in Int : raw * a * b = raw * (a * b)
    BY <2>2, <2>3
  <2> QED
    BY <2>4, <2>5
<1>4. CASE ~ Valued(p)
  BY <1>4 DEF Worth
<1> QED
  BY <1>3, <1>4

(* The image of a finite set is finite. *)
LEMMA FiniteImage ==
  ASSUME NEW D, IsFiniteSet(D), NEW f
  PROVE  IsFiniteSet({f[x] : x \in D})
<1> DEFINE T == {f[x] : x \in D}
           g == [x \in D |-> f[x]]
<1>1. g \in Surjection(D, T)
  BY DEF Surjection
<1> HIDE DEF g, T
<1>2. IsFiniteSet(T)
  BY <1>1, FS_Surjection
<1> QED
  BY <1>2 DEF T

(* The users and tokens of a list of transfers. *)
Debit(t) == <<t.from, t.token>>
Credit(t) == <<t.to, t.token>>
Touched(s) == {Debit(s[i]) : i \in 1 .. Len(s)} \cup {Credit(s[i]) : i \in 1 .. Len(s)}

(* They are finitely many, and the others have no net.                       *)
LEMMA TouchedTypes ==
  ASSUME NEW s \in Seq(Moves)
  PROVE  /\ IsFiniteSet(Touched(s))
         /\ \A i \in 1 .. Len(s) : Debit(s[i]) \in Touched(s) /\ Credit(s[i]) \in Touched(s)
         /\ \A e \in Touched(s) : \E i \in 1 .. Len(s) : \E u \in Accounts : e = <<u, s[i].token>>
         /\ \A u, k : <<u, k>> \notin Touched(s) => Net(s, u, k) = 0
<1> DEFINE n == Len(s)
           f == [i \in 1 .. n |-> Debit(s[i])]
           g == [i \in 1 .. n |-> Credit(s[i])]
<1>1. n \in Nat /\ \A i \in 1 .. n : s[i] \in Moves /\ s[i].from \in Accounts /\ s[i].to \in Accounts
  <2>1. n \in Nat
    OBVIOUS
  <2>2. \A i \in 1 .. n : s[i] \in Moves
    OBVIOUS
  <2>3. \A y \in Moves : y.from \in Accounts /\ y.to \in Accounts
    BY DEF Moves
  <2> QED
    BY <2>1, <2>2, <2>3
<1>2. IsFiniteSet(Touched(s))
  <2>1. IsFiniteSet(1 .. n)
    BY <1>1, FS_Interval
  <2>2. IsFiniteSet({f[i] : i \in 1 .. n}) /\ IsFiniteSet({g[i] : i \in 1 .. n})
    <3> HIDE DEF f, g, n
    <3> QED
      BY <2>1, FiniteImage
  <2>3. Touched(s) = {f[i] : i \in 1 .. n} \cup {g[i] : i \in 1 .. n}
    BY DEF Touched
  <2> QED
    BY <2>2, <2>3, FS_Union
<1>3. \A i \in 1 .. n : Debit(s[i]) \in Touched(s) /\ Credit(s[i]) \in Touched(s)
  BY DEF Touched
<1>4. \A e \in Touched(s) : \E i \in 1 .. n : \E u \in Accounts : e = <<u, s[i].token>>
  BY <1>1 DEF Touched, Debit, Credit
<1>5. ASSUME NEW u, NEW k, <<u, k>> \notin Touched(s) PROVE Net(s, u, k) = 0
  <2> DEFINE z == [i \in 0 .. n |-> 0]
  <2>1. z \in [0 .. n -> Int] /\ z[0] = 0 /\ z[n] = 0
    BY <1>1
  <2>2. ASSUME NEW i \in 1 .. n PROVE z[i] = z[i - 1] + Moved(s[i], u, k)
    <3>1. Debit(s[i]) # <<u, k>> /\ Credit(s[i]) # <<u, k>>
      BY <1>3, <1>5
    <3>2. Moved(s[i], u, k) = 0
      BY <3>1 DEF Moved, Debit, Credit
    <3>3. i \in 0 .. n /\ i - 1 \in 0 .. n
      BY <1>1
    <3> QED
      BY <3>2, <3>3
  <2> HIDE DEF z
  <2> QED
    BY <2>1, <2>2, NetAdds
<1> QED
  BY <1>2, <1>3, <1>4, <1>5

(* w weighs the balances of K, those in one token alike; Worths is what they *)
(* weigh.                                                                    *)
Weighs(w, K, T) ==
    /\ IsFiniteSet(K) /\ K \subseteq Accounts \X T
    /\ w \in [K -> Int]
    /\ \A d, e \in K : d[2] = e[2] => w[d] = w[e]
Worths(raw, w, K) == [e \in K |-> raw[e] * w[e]]

(* A transfer takes from one user what it brings another, and in the same    *)
(* token: the weight of all stays.                                           *)
LEMMA TransferKeepsWorth ==
  ASSUME NEW T, NEW raw \in Balances(T), NEW t \in Moves, t.token \in T,
         NEW K, NEW w, Weighs(w, K, T), Debit(t) \in K, Credit(t) \in K
  PROVE  SumOver(Worths(AddRawChange(raw, t), w, K), K) = SumOver(Worths(raw, w, K), K)
<1> DEFINE D == Accounts \X T
           p == Debit(t)
           q == Credit(t)
           a == t.amount
           debited == [raw EXCEPT ![p] = @ - a]
           after == AddRawChange(raw, t)
           f == Worths(raw, w, K)
           g == Worths(debited, w, K)
           h == Worths(after, w, K)
           x == w[p]
           y == a * x
<1>1. /\ p \in K /\ q \in K /\ p \in D /\ q \in D /\ a \in Int /\ x \in Int /\ w[q] = x
      /\ after = [debited EXCEPT ![q] = @ + a]
  <2>1. a \in Nat
    BY TraceAssumption DEF Moves
  <2>2. after = [debited EXCEPT ![q] = @ + a]
    BY DEF AddRawChange, Debit, Credit
  <2>4. p[2] = q[2]
    BY DEF Debit, Credit
  <2> HIDE DEF p, q, debited, after
  <2>3. p \in K /\ q \in K
    BY DEF p, q
  <2>5. /\ w[q] = w[p] /\ w[p] \in Int /\ p \in D /\ q \in D
    BY <2>3, <2>4 DEF Weighs
  <2> QED
    BY <2>1, <2>2, <2>3, <2>5
<1>2. \A e \in D : raw[e] \in Int /\ raw[e] - a \in Int
  BY <1>1 DEF Balances
<1>3. /\ DOMAIN debited = D
      /\ \A e \in D : debited[e] = (IF e = p THEN raw[e] - a ELSE raw[e]) /\ debited[e] \in Int
  BY <1>1, <1>2 DEF Balances
<1> HIDE DEF debited, after, p, q, a, x
<1>4. \A e \in D : after[e] = IF e = q THEN debited[e] + a ELSE debited[e]
  BY <1>1, <1>3
<1>5. IsFiniteSet(K) /\ \A e \in K : e \in D /\ w[e] \in Int
  BY DEF Weighs
<1>6. y \in Int /\ - y \in Int
  BY <1>1
<1> HIDE DEF D
<1>7. ASSUME NEW e \in K
      PROVE  /\ f[e] \in Int /\ g[e] \in Int
             /\ g[e] = IF e = p THEN f[e] + (- y) ELSE f[e]
             /\ h[e] = IF e = q THEN g[e] + y ELSE g[e]
  <2>1. /\ raw[e] \in Int /\ debited[e] \in Int /\ w[e] \in Int
        /\ debited[e] = IF e = p THEN raw[e] - a ELSE raw[e]
        /\ after[e] = IF e = q THEN debited[e] + a ELSE debited[e]
    BY <1>2, <1>3, <1>4, <1>5
  <2>2. f[e] = raw[e] * w[e] /\ g[e] = debited[e] * w[e] /\ h[e] = after[e] * w[e]
    BY DEF Worths
  <2> HIDE DEF f, g, h
  <2>3. f[e] \in Int /\ g[e] \in Int
    BY <2>1, <2>2
  <2>4. g[e] = IF e = p THEN f[e] + (- y) ELSE f[e]
    <3>1. CASE e = p
      <4>1. g[e] = (raw[e] - a) * x /\ f[e] = raw[e] * x
        BY <2>1, <2>2, <3>1 DEF x
      <4>2. (raw[e] - a) * x = raw[e] * x + (- (a * x))
        BY <1>1, <2>1
      <4> QED
        BY <3>1, <4>1, <4>2
    <3>2. CASE e # p
      BY <2>1, <2>2, <3>2
    <3> QED
      BY <3>1, <3>2
  <2>5. h[e] = IF e = q THEN g[e] + y ELSE g[e]
    <3>1. CASE e = q
      <4>1. h[e] = (debited[e] + a) * x /\ g[e] = debited[e] * x
        BY <1>1, <2>1, <2>2, <3>1
      <4>2. (debited[e] + a) * x = debited[e] * x + a * x
        BY <1>1, <2>1
      <4> QED
        BY <3>1, <4>1, <4>2
    <3>2. CASE e # q
      BY <2>1, <2>2, <3>2
    <3> QED
      BY <3>1, <3>2
  <2> QED
    BY <2>3, <2>4, <2>5
<1> HIDE DEF f, g, h, y
<1>8. SumOver(g, K) = SumOver(f, K) + (- y)
  <2> DEFINE d == - y
  <2>1. /\ d \in Int /\ p \in K
        /\ \A e \in K : f[e] \in Int
        /\ \A e \in K : g[e] = IF e = p THEN f[e] + d ELSE f[e]
    BY <1>1, <1>6, <1>7
  <2> HIDE DEF d
  <2>2. SumOver(g, K) = SumOver(f, K) + d
    BY <1>5, <2>1, SumChange
  <2> QED
    BY <2>2 DEF d
<1>9. SumOver(h, K) = SumOver(g, K) + y
  <2>1. /\ y \in Int /\ q \in K
        /\ \A e \in K : g[e] \in Int
        /\ \A e \in K : h[e] = IF e = q THEN g[e] + y ELSE g[e]
    BY <1>1, <1>6, <1>7
  <2> QED
    BY <1>5, <2>1, SumChange
<1>10. SumOver(f, K) \in Int
  BY <1>5, <1>7, SumTypes
<1>11. SumOver(h, K) = SumOver(f, K)
  <2> DEFINE F == SumOver(f, K)
  <2>1. F \in Int /\ y \in Int /\ SumOver(h, K) = F + (- y) + y
    BY <1>6, <1>8, <1>9, <1>10
  <2> HIDE DEF F
  <2>2. SumOver(h, K) = F
    BY <2>1
  <2> QED
    BY <2>2 DEF F
<1> QED
  BY <1>11 DEF f, h, after

(* So the worth of all balances together never changes, *)
LEMMA WorthStays ==
  ASSUME transfers \in Seq(Moves), NEW v, \A k \in Tokens : v[k] \in Int,
         NEW K, K = Touched(transfers)
  PROVE  /\ IsFiniteSet(K) /\ K \subseteq Accounts \X Tokens
         /\ \A e \in K : RawChanges[e] \in Int /\ v[e[2]] \in Int
         /\ SumOver([e \in K |-> RawChanges[e] * v[e[2]]], K) = 0
<1> DEFINE n == Len(transfers)
           w == [e \in K |-> v[e[2]]]
           Of(i) == Worths(RawAfter[i], w, K)
<1>1. n \in Nat /\ \A i \in 1 .. n : transfers[i] \in Moves /\ transfers[i].token \in Tokens
  BY DEF Tokens
<1>2. IsFiniteSet(K) /\ K \subseteq Accounts \X Tokens
  <2>1. IsFiniteSet(K) /\ \A e \in K : \E i \in 1 .. n : \E u \in Accounts : e = <<u, transfers[i].token>>
    BY TouchedTypes
  <2> QED
    BY <1>1, <2>1
<1>3. \A e \in K : e[2] \in Tokens /\ v[e[2]] \in Int
  BY <1>2
<1>4. /\ Weighs(w, K, Tokens)
      /\ \A e \in K : w[e] = v[e[2]] /\ w[e] \in Int
  BY <1>2, <1>3 DEF Weighs
<1>5. /\ RawAfter \in [0 .. n -> Balances(Tokens)]
      /\ RawAfter[0] = [key \in Accounts \X Tokens |-> 0]
      /\ \A i \in 1 .. n : RawAfter[i] = AddRawChange(RawAfter[i - 1], transfers[i])
  BY RawRounds
<1>6. \A i \in 1 .. n : Debit(transfers[i]) \in K /\ Credit(transfers[i]) \in K
  BY TouchedTypes
<1>7. RawChanges = RawAfter[n]
  BY DEF RawChanges
<1> HIDE DEF n, w
<1>8. SumOver(Of(0), K) = 0
  <2>1. \A e \in K : RawAfter[0][e] = 0
    BY <1>2, <1>5
  <2>2. \A e \in K : Of(0)[e] = 0
    BY <1>4, <2>1 DEF Worths
  <2> HIDE DEF Of
  <2> QED
    BY <1>2, <2>2, SumOfZeros
<1>9. ASSUME NEW i \in 1 .. n PROVE SumOver(Of(i), K) = SumOver(Of(i - 1), K)
  <2> DEFINE raw == RawAfter[i - 1]
             t == transfers[i]
             T == Tokens
  <2>1. i - 1 \in 0 .. n
    BY <1>1
  <2>2. raw \in Balances(T) /\ t \in Moves /\ t.token \in T /\ RawAfter[i] = AddRawChange(raw, t)
    BY <1>1, <1>5, <2>1
  <2>3. Debit(t) \in K /\ Credit(t) \in K /\ Weighs(w, K, T)
    BY <1>4, <1>6
  <2> HIDE DEF raw, t, T
  <2>4. SumOver(Worths(AddRawChange(raw, t), w, K), K) = SumOver(Worths(raw, w, K), K)
    BY <2>2, <2>3, TransferKeepsWorth
  <2> QED
    BY <2>2, <2>4 DEF raw
<1> DEFINE Good == {i \in 0 .. n : SumOver(Of(i), K) = 0}
<1> HIDE DEF Of
<1>10. n \in Good
  <2>1. 0 \in Good
    BY <1>1, <1>8
  <2>2. ASSUME NEW i \in 1 .. n, i - 1 \in Good PROVE i \in Good
    BY <1>1, <1>9, <2>2
  <2>3. n \in 0 .. n
    BY <1>1
  <2> HIDE DEF Good
  <2> QED
    BY <1>1, <2>1, <2>2, <2>3, RoundsInduction
<1>11. [e \in K |-> RawChanges[e] * v[e[2]]] = Of(n)
  BY <1>4, <1>7 DEF Of, Worths
<1>12. \A e \in K : RawChanges[e] \in Int
  <2>1. RawChanges \in Balances(Tokens)
    BY <1>1, <1>5, <1>7
  <2> QED
    BY <1>2, <2>1 DEF Balances
<1> QED
  BY <1>2, <1>3, <1>10, <1>11, <1>12

(* The sum over one is its value. *)
LEMMA SumOfOne ==
  ASSUME NEW D, IsFiniteSet(D), NEW f, \A x \in D : f[x] \in Int, NEW x \in D
  PROVE  SumOver(f, {x}) = f[x]
<1>1. {} \in SUBSET D /\ x \notin {} /\ {} \cup {x} = {x}
  OBVIOUS
<1> DEFINE none == {}
<1>2. none \in SUBSET D /\ x \notin none
  BY <1>1
<1>3. SumOver(f, none) = 0
  BY SumOfNone
<1> HIDE DEF none
<1>4. SumOver(f, none \cup {x}) = SumOver(f, none) + f[x]
  BY <1>2, SumOfOneMore
<1>5. none \cup {x} = {x}
  BY <1>1 DEF none
<1>6. SumOver(f, {x}) = 0 + f[x]
  BY <1>3, <1>4, <1>5
<1> QED
  BY <1>6

(* and the totals that AnalyzeBalanceChanges gives the users cancel out.     *)
LEMMA TotalsCancel ==
  ASSUME TraceInv, \A k \in Tokens : HasValue(prices[k]), AnalyzeBalanceChanges
  PROVE  SumOver(userTotals', DOMAIN userTotals') = 0
<1> DEFINE listed == {Change(key[1], key[2], RawChanges[key]) : key \in ChangedKeys}
           valued == {c \in listed : c.valued}
           users == {c.user : c \in valued}
           usd == [c \in valued |-> c.usdValue]
           K == Touched(transfers)
           v == [k \in Tokens |-> Worth(prices[k])]
           f == [e \in K |-> RawChanges[e] * v[e[2]]]
           h == [c \in valued |-> <<c.user, c.token>>]
           g == [c \in valued |-> c.user]
           totals == userTotals'
<1>1. transfers \in Seq(Moves)
  BY DEF TraceInv
<1>2. \A k \in Tokens : v[k] = Worth(prices[k]) /\ v[k] \in Int
  BY WorthTypes
<1>3. totals = [user \in users |-> SumOver(usd, {c \in valued : c.user = user})]
  BY DEF AnalyzeBalanceChanges
<1>K. K = Touched(transfers)
  OBVIOUS
<1> HIDE DEF v, K
<1>4. /\ IsFiniteSet(K) /\ K \subseteq Accounts \X Tokens
      /\ \A e \in K : RawChanges[e] \in Int /\ v[e[2]] \in Int
      /\ SumOver(f, K) = 0
  BY <1>1, <1>2, <1>K, WorthStays
<1>5. \A e \in K : f[e] = RawChanges[e] * v[e[2]] /\ f[e] \in Int
  BY <1>4
<1> HIDE DEF f
<1>6. ChangedKeys \subseteq K
  <2> SUFFICES ASSUME NEW key \in ChangedKeys PROVE key \in K
    OBVIOUS
  <2>1. PICK u \in Accounts, k \in Tokens : key = <<u, k>>
    BY DEF ChangedKeys
  <2>2. Net(transfers, u, k) # 0
    BY <1>1, <2>1, RawIsNet DEF ChangedKeys
  <2> QED
    BY <1>1, <1>K, <2>1, <2>2, TouchedTypes
<1>7. IsFiniteSet(valued)
  <2> DEFINE line == [key \in ChangedKeys |-> Change(key[1], key[2], RawChanges[key])]
             lines == {line[key] : key \in ChangedKeys}
  <2>1. listed = lines
    OBVIOUS
  <2>2. IsFiniteSet(ChangedKeys)
    BY <1>4, <1>6, FS_Subset
  <2> HIDE DEF line
  <2>3. IsFiniteSet(lines)
    BY <2>2, FiniteImage
  <2>4. valued \subseteq lines
    BY <2>1
  <2> HIDE DEF valued, lines
  <2> QED
    BY <2>3, <2>4, FS_Subset
<1>8. ASSUME NEW c \in valued
      PROVE  \E u \in Accounts, k \in Tokens :
               /\ <<u, k>> \in ChangedKeys /\ Valued(prices[k])
               /\ c = Change(u, k, RawChanges[<<u, k>>])
  <2>1. PICK key \in ChangedKeys : c = Change(key[1], key[2], RawChanges[key])
    OBVIOUS
  <2>2. PICK u \in Accounts, k \in Tokens : key = <<u, k>>
    BY DEF ChangedKeys
  <2>3. c = Change(u, k, RawChanges[<<u, k>>])
    BY <2>1, <2>2
  <2>4. c.valued = Valued(prices[k])
    BY <2>3 DEF Change
  <2>5. Valued(prices[k])
    BY <2>4
  <2> QED
    BY <2>1, <2>2, <2>3, <2>5
<1>9. ASSUME NEW c \in valued
      PROVE  /\ h[c] = <<c.user, c.token>> /\ h[c] \in K
             /\ c = Change(c.user, c.token, RawChanges[h[c]])
             /\ usd[c] = f[h[c]] /\ usd[c] \in Int
  <2>1. PICK u \in Accounts, k \in Tokens :
               /\ <<u, k>> \in ChangedKeys /\ Valued(prices[k])
               /\ c = Change(u, k, RawChanges[<<u, k>>])
    BY <1>8
  <2> DEFINE e == <<u, k>>
             raw == RawChanges[e]
  <2>2. e \in K /\ e[2] = k
    BY <1>6, <2>1
  <2>3. c.user = u /\ c.token = k /\ (Valued(prices[k]) => c.usdValue = USDValue(raw, prices[k]))
    BY <2>1 DEF Change
  <2>4. h[c] = e /\ usd[c] = USDValue(raw, prices[k])
    BY <2>1, <2>3
  <2> HIDE DEF e, h, usd
  <2>5. raw \in Int /\ f[e] = raw * v[k] /\ f[e] \in Int
    BY <1>4, <1>5, <2>2
  <2> HIDE DEF raw
  <2>6. USDValue(raw, prices[k]) = raw * v[k]
    BY <1>2, <2>1, <2>5, WorthTypes
  <2>7. c = Change(u, k, RawChanges[h[c]])
    BY <2>1, <2>4 DEF e
  <2>8. h[c] = <<c.user, c.token>>
    BY <2>3, <2>4 DEF e
  <2> QED
    BY <2>2, <2>3, <2>4, <2>5, <2>6, <2>7, <2>8
<1>10. ASSUME NEW e \in K, f[e] # 0 PROVE \E c \in valued : h[c] = e
  <2>1. PICK u \in Accounts, k \in Tokens : e = <<u, k>>
    BY <1>4
  <2>2. RawChanges[e] \in Int /\ v[k] \in Int /\ f[e] = RawChanges[e] * v[k]
    BY <1>4, <1>5, <2>1
  <2>3. RawChanges[e] # 0 /\ v[k] # 0
    BY <1>10, <2>2
  <2>4. e \in ChangedKeys
    BY <2>1, <2>3 DEF ChangedKeys
  <2>5. Valued(prices[k])
    BY <1>2, <2>3 DEF Worth
  <2> DEFINE c == Change(e[1], e[2], RawChanges[e])
  <2>6. c \in listed
    BY <2>4
  <2>7. c.user = u /\ c.token = k /\ c.valued = Valued(prices[k])
    BY <2>1 DEF Change
  <2> HIDE DEF c
  <2>8. c \in valued
    BY <2>5, <2>6, <2>7
  <2>9. h[c] = e
    BY <2>1, <2>7, <2>8
  <2> QED
    BY <2>8, <2>9
<1>g. \A c \in valued : g[c] = c.user /\ g[c] \in users
  OBVIOUS
<1>u. IsFiniteSet(users)
  <2>1. users = {g[c] : c \in valued}
    OBVIOUS
  <2> HIDE DEF valued, g, users
  <2>2. IsFiniteSet({g[c] : c \in valued})
    BY <1>7, FiniteImage
  <2> QED
    BY <2>1, <2>2
<1> HIDE DEF listed, valued, users, usd, h, g, totals
<1>11. SumOver(f, K) = SumOver(usd, valued)
  <2>1. ASSUME NEW e \in K PROVE f[e] = SumOver(usd, {c \in valued : h[c] = e})
    <3>1. CASE f[e] = 0 /\ \A c \in valued : h[c] # e
      <4>1. {c \in valued : h[c] = e} = {}
        BY <3>1
      <4> QED
        BY <3>1, <4>1, SumOfNone
    <3>2. CASE \E c \in valued : h[c] = e
      <4>1. PICK c \in valued : h[c] = e
        BY <3>2
      <4>2. \A d \in valued : h[d] = e => d = c
        <5> SUFFICES ASSUME NEW d \in valued, h[d] = e PROVE d = c
          OBVIOUS
        <5>1. d = Change(d.user, d.token, RawChanges[e]) /\ e = <<d.user, d.token>>
          BY <1>9
        <5>2. c = Change(c.user, c.token, RawChanges[e]) /\ e = <<c.user, c.token>>
          BY <1>9, <4>1
        <5>3. d.user = c.user /\ d.token = c.token
          BY <5>1, <5>2
        <5> QED
          BY <5>1, <5>2, <5>3
      <4>3. {x \in valued : h[x] = e} = {c}
        BY <4>1, <4>2
      <4>4. SumOver(usd, {c}) = usd[c]
        BY <1>7, <1>9, SumOfOne
      <4>5. usd[c] = f[e]
        BY <1>9, <4>1
      <4> QED
        BY <4>3, <4>4, <4>5
    <3> QED
      BY <1>10, <3>1, <3>2
  <2>2. \A c \in valued : h[c] \in K /\ usd[c] \in Int
    BY <1>9
  <2>3. /\ IsFiniteSet(valued) /\ IsFiniteSet(K)
        /\ \A x \in valued : usd[x] \in Int
        /\ \A x \in valued : h[x] \in K
        /\ \A e \in K : f[e] = SumOver(usd, GroupOf(e, h, valued))
    BY <1>4, <1>7, <2>1, <2>2 DEF GroupOf
  <2> QED
    BY <2>3, SumOfGroups
<1>12. SumOver(totals, users) = SumOver(usd, valued)
  <2>1. ASSUME NEW user \in users PROVE totals[user] = SumOver(usd, {c \in valued : g[c] = user})
    <3>1. {c \in valued : g[c] = user} = {c \in valued : c.user = user}
      BY <1>g
    <3> QED
      BY <1>3, <3>1
  <2>2. \A c \in valued : g[c] \in users /\ usd[c] \in Int
    BY <1>9, <1>g
  <2>3. /\ IsFiniteSet(valued) /\ IsFiniteSet(users)
        /\ \A x \in valued : usd[x] \in Int
        /\ \A x \in valued : g[x] \in users
        /\ \A e \in users : totals[e] = SumOver(usd, GroupOf(e, g, valued))
    BY <1>7, <1>u, <2>1, <2>2 DEF GroupOf
  <2> QED
    BY <2>3, SumOfGroups
<1>13. DOMAIN totals = users
  BY <1>3
<1>14. SumOver(totals, DOMAIN totals) = 0
  BY <1>4, <1>11, <1>12, <1>13
<1> QED
  BY <1>14 DEF totals

-----------------------------------------------------------------------------
(* What all the parts together keep. *)
TotalsInv == Analyzed => SumOver(userTotals, DOMAIN userTotals) = 0
ChangesInv == TraceInv /\ FlowInv /\ TokenInv /\ PricesInv /\ ValuesInv /\ TotalsInv

(* It holds in the beginning,                                                *)
LEMMA ChangesInvInit == Init => ChangesInv
<1> SUFFICES ASSUME Init PROVE ChangesInv
  OBVIOUS
<1>1. TraceInv
  BY TraceInvInit DEF Init
<1>2. stage = "executing" /\ effects = <<>> /\ transfers = <<>> /\ Len(frames) = 1
  BY DEF Init, InitTrace
<1>3. TokenInv
  BY <1>2 DEF TokenInv, RunInContracts, OfContracts
<1>4. FlowInv /\ ValuesInv /\ TotalsInv
  BY <1>2 DEF FlowInv, ValuesInv, TotalsInv, Analyzed
<1> QED
  BY <1>1, <1>3, <1>4, PricesInitially DEF ChangesInv

(* every step keeps the totals of the users,                                 *)
LEMMA TotalsInvNext ==
  ASSUME ChangesInv, [Next]_vars
  PROVE  TotalsInv'
<1>1. CASE NextTrace \/ FetchTokenPrices \/ AskProvider
  BY <1>1, BeforeAnalysis DEF ChangesInv, TotalsInv, Analyzed
<1>2. CASE AnalyzeBalanceChanges
  <2>1. \A k \in Tokens : HasValue(prices[k])
    BY <1>2 DEF AnalyzeBalanceChanges, ChangesInv, ValuesInv
  <2>2. SumOver(userTotals', DOMAIN userTotals') = 0
    BY <1>2, <2>1, TotalsCancel DEF ChangesInv
  <2> QED
    BY <2>2 DEF TotalsInv
<1>3. CASE ShowFlow
  <2>1. userTotals' = userTotals /\ stage = "analyzed"
    BY <1>3 DEF ShowFlow
  <2> QED
    BY <2>1 DEF ChangesInv, TotalsInv, Analyzed
<1>4. CASE UNCHANGED vars
  BY <1>4 DEF ChangesInv, TotalsInv, Analyzed, vars, flowVars
<1> QED
  BY <1>1, <1>2, <1>3, <1>4 DEF Next

(* and every step keeps all of it.                                           *)
LEMMA ChangesInvNext ==
  ASSUME ChangesInv, [Next]_vars
  PROVE  ChangesInv'
<1>1. TraceInv' /\ FlowInv'
  BY TraceInvNext, FlowInvNext DEF ChangesInv
<1>2. TokenInv'
  BY <1>1, TokenInvNext DEF ChangesInv
<1>3. PricesInv' /\ ValuesInv'
  BY PricesInvInductive, ValuesInvNext DEF ChangesInv
<1>4. TotalsInv'
  BY TotalsInvNext
<1> QED
  BY <1>1, <1>2, <1>3, <1>4 DEF ChangesInv

(* The listed changes are always what the transaction did to the balances,   *)
(* and the totals of the users always cancel out.                            *)
THEOREM ChangesAlwaysNet == Spec => []ChangesAreNet
<1>1. ASSUME ChangesInv PROVE ChangesAreNet
  <2> SUFFICES ASSUME Analyzed
               PROVE  /\ \A user \in Accounts, token \in Contracts :
                           LET lines == {c \in changes : c.user = user /\ c.token = token}
                           IN  IF Net(effects, user, token) = 0
                               THEN lines = {}
                               ELSE {c.rawAmount : c \in lines} = {Net(effects, user, token)}
                      /\ SumOver(userTotals, DOMAIN userTotals) = 0
    BY DEF ChangesAreNet
  <2>1. ListsMoves(changes, transfers) /\ transfers \in Seq(Moves) /\ effects \in Seq(Moves)
    BY <1>1 DEF ChangesInv, FlowInv, TraceInv
  <2>2. ASSUME NEW user \in Accounts, NEW token \in Contracts
        PROVE  LET lines == {c \in changes : c.user = user /\ c.token = token}
               IN  IF Net(effects, user, token) = 0
                   THEN lines = {}
                   ELSE {c.rawAmount : c \in lines} = {Net(effects, user, token)}
    <3> DEFINE net == Net(effects, user, token)
               mu == MovedBy(user, token)
    <3>1. mu \in Weights
      BY MovedTypes
    <3>2. net = Weight(mu, effects) /\ Net(transfers, user, token) = Weight(mu, transfers)
      BY <2>1, NetIsWeight
    <3>3. Weight(mu, transfers) = Weight(mu, effects)
      <4>1. stage \notin {"executing", "recorded"}
        BY DEF Analyzed
      <4> HIDE DEF mu
      <4> QED
        BY <1>1, <3>1, <4>1 DEF ChangesInv, TraceInv
    <3>4. token \in Contexts
      BY DEF Contexts
    <3>5. ListsMoves(changes, transfers) /\ Net(effects, user, token) = Net(transfers, user, token)
      BY <2>1, <3>2, <3>3
    <3> HIDE DEF net, mu
    <3> QED
      BY <3>4, <3>5, LinesShowNet
  <2> QED
    BY <1>1, <2>2 DEF ChangesInv, TotalsInv
<1> QED
  BY <1>1, ChangesInvInit, ChangesInvNext, PTL DEF Spec
-----------------------------------------------------------------------------
(* The types and the bounds.  The logs of the nodes are counted as they are  *)
(* made; a revert takes transfers back, but not their logs.                  *)
LogCounts(a) == [i \in DOMAIN a |-> Len(a[i].logs)]

(* One number for every node, the length of its logs.                        *)
LEMMA LogCountTypes ==
  ASSUME NEW a \in Seq(Nodes)
  PROVE  /\ LogCounts(a) \in Seq(Int) /\ Len(LogCounts(a)) = Len(a)
         /\ \A i \in 1 .. Len(a) : LogCounts(a)[i] = Len(a[i].logs) /\ Len(a[i].logs) \in Nat
<1>1. /\ Len(a) \in Nat /\ DOMAIN a = 1 .. Len(a)
      /\ \A i \in 1 .. Len(a) : a[i] \in Nodes
  OBVIOUS
<1>2. \A i \in 1 .. Len(a) : Len(a[i].logs) \in Nat
  <2> SUFFICES ASSUME NEW i \in 1 .. Len(a) PROVE Len(a[i].logs) \in Nat
    OBVIOUS
  <2>1. a[i].logs \in Seq(LogRecords)
    BY <1>1 DEF Nodes
  <2> QED
    BY <2>1
<1> DEFINE n == Len(a)
           f == LogCounts(a)
<1>3. /\ f = [i \in 1 .. n |-> Len(a[i].logs)]
      /\ \A i \in 1 .. n : f[i] = Len(a[i].logs)
  BY <1>1 DEF LogCounts
<1>4. f \in [1 .. n -> Int]
  <2> HIDE DEF f
  <2> QED
    BY <1>2, <1>3
<1> HIDE DEF f
<1>5. f \in Seq(Int) /\ Len(f) = n
  <2> HIDE DEF n
  <2>1. n \in Nat
    BY <1>1 DEF n
  <2> QED
    BY <1>4, <2>1, ListOf
<1> QED
  BY <1>2, <1>3, <1>5 DEF f

(* A call logs nothing by itself, *)
LEMMA EntersLogs ==
  ASSUME NEW a \in Seq(Nodes), NEW b, NEW t \in 1 .. Len(a), NEW kind, NEW address,
         Enters(a, b, t, kind, address)
  PROVE  Total(LogCounts(b)) = Total(LogCounts(a))
<1> DEFINE n == Len(a)
           s == LogCounts(a)
           u == LogCounts(b)
           v == Append(s, 0)
<1>1. b \in Seq(Nodes) /\ Len(b) = n + 1 /\ n \in Nat
  BY DEF Enters
<1>2. \A i \in 1 .. n : b[i].logs = a[i].logs
  BY DEF Enters
<1>3. b[n + 1].logs = <<>>
  BY DEF Enters, Node
<1>4. /\ s \in Seq(Int) /\ Len(s) = n /\ u \in Seq(Int) /\ Len(u) = n + 1
      /\ \A i \in 1 .. n : s[i] = Len(a[i].logs)
      /\ \A i \in 1 .. (n + 1) : u[i] = Len(b[i].logs)
  BY <1>1, LogCountTypes
<1> HIDE DEF s, u, n
<1>5. /\ v \in Seq(Int) /\ Len(v) = n + 1 /\ v[n + 1] = 0
      /\ \A i \in 1 .. n : v[i] = s[i]
  BY <1>4, AppendProperties
<1> HIDE DEF v
<1>6. \A i \in 1 .. (n + 1) : u[i] = v[i]
  <2>1. \A i \in 1 .. (n + 1) : i = n + 1 \/ i \in 1 .. n
    BY <1>1
  <2>2. n + 1 \in 1 .. (n + 1) /\ \A i \in 1 .. n : i \in 1 .. (n + 1)
    BY <1>1
  <2>3. u[n + 1] = 0
    BY <1>3, <1>4, <2>2
  <2> QED
    BY <1>2, <1>4, <1>5, <2>1, <2>2, <2>3
<1>7. u = v
  BY <1>4, <1>5, <1>6, SeqEqual
<1>8. Total(v) = Total(s) + 0 /\ Total(s) \in Int
  BY <1>4, TotalAppend, TotalTypes DEF v
<1> QED
  BY <1>7, <1>8 DEF s, u

(* a transfer is one log more,                                               *)
LEMMA LogsCounted ==
  ASSUME NEW a \in Seq(Nodes), NEW b, NEW t \in 1 .. Len(a), NEW log \in LogRecords,
         LogsIn(a, b, t, log)
  PROVE  Total(LogCounts(b)) = Total(LogCounts(a)) + 1
<1> DEFINE s == LogCounts(a)
           u == LogCounts(b)
<1>1. b \in Seq(Nodes) /\ Len(b) = Len(a)
  BY DEF LogsIn
<1>2. /\ s \in Seq(Int) /\ Len(s) = Len(a) /\ u \in Seq(Int) /\ Len(u) = Len(a)
      /\ \A i \in 1 .. Len(a) : s[i] = Len(a[i].logs)
      /\ \A i \in 1 .. Len(a) : u[i] = Len(b[i].logs)
  BY <1>1, LogCountTypes
<1>3. Len(Append(a[t].logs, log)) = Len(a[t].logs) + 1
  <2>1. a[t] \in Nodes
    OBVIOUS
  <2>2. a[t].logs \in Seq(LogRecords)
    BY <2>1 DEF Nodes
  <2> QED
    BY <2>2, AppendProperties
<1>4. \A i \in 1 .. Len(a) : Len(b[i].logs) = IF i = t THEN Len(a[i].logs) + 1 ELSE Len(a[i].logs)
  BY <1>3 DEF LogsIn
<1> HIDE DEF s, u
<1>5. \A i \in 1 .. Len(s) : u[i] = IF i = t THEN s[i] + 1 ELSE s[i]
  BY <1>2, <1>4
<1>6. 1 \in Int /\ t \in 1 .. Len(s) /\ Len(u) = Len(s)
  BY <1>2
<1>7. Total(u) = Total(s) + 1
  BY <1>2, <1>5, <1>6, TotalChange
<1> QED
  BY <1>7 DEF s, u

(* and what leaves the logs alone leaves their number.                       *)
LEMMA SameLogs ==
  ASSUME NEW a \in Seq(Nodes), NEW b \in Seq(Nodes), Len(b) = Len(a),
         \A i \in 1 .. Len(a) : b[i].logs = a[i].logs
  PROVE  Total(LogCounts(b)) = Total(LogCounts(a))
<1>1. DOMAIN a = 1 .. Len(a) /\ DOMAIN b = 1 .. Len(a)
  OBVIOUS
<1>2. LogCounts(b) = LogCounts(a)
  BY <1>1 DEF LogCounts
<1> QED
  BY <1>2

(* No more frames are entered and no more transfers logged than the bounds   *)
(* say, and what has happened has been logged; the arena goes when the       *)
(* prices are asked for.                                                     *)
ArenaStages == {"executing", "recorded", "parsed", "shown"}
TraceBounds ==
    /\ Len(effects) <= MaxLogs
    /\ stage \in ArenaStages => Len(arena) <= MaxNodes
    /\ stage \notin ArenaStages => arena = <<>>
    /\ stage = "executing" => Len(effects) <= Logged /\ Logged <= MaxLogs

(* The arena is empty when the program starts.                               *)
LEMMA TraceBoundsInit == Init => TraceBounds
<1> SUFFICES ASSUME Init PROVE TraceBounds
  OBVIOUS
<1> DEFINE node == Node(0, "CALL", Harness)
<1>1. /\ effects = <<>> /\ Len(effects) = 0 /\ stage = "executing" /\ arena = <<node>>
      /\ MaxLogs \in Nat /\ MaxNodes \in Nat \ {0}
  BY TraceAssumption DEF Init, InitTrace
<1>2. Len(node.logs) = 0
  BY DEF Node
<1> HIDE DEF node
<1>3. Len(arena) = 1 /\ [i \in DOMAIN arena |-> Len(arena[i].logs)] = <<0>>
  <2>1. DOMAIN arena = {1} /\ arena[1] = node /\ Len(arena) = 1
    BY <1>1
  <2>2. <<0>> = [i \in {1} |-> 0]
    OBVIOUS
  <2> QED
    BY <1>2, <2>1, <2>2
<1>4. Logged = 0
  BY <1>3, TotalOne DEF Logged
<1> QED
  BY <1>1, <1>3, <1>4 DEF TraceBounds, ArenaStages

(* The node of the frame on top is in the arena. *)
LEMMA TopInArena ==
  ASSUME TraceInv, stage = "executing"
  PROVE  /\ arena \in Seq(Nodes) /\ Len(frames) \in 1 .. Len(frames)
         /\ frames[Len(frames)].node \in 1 .. Len(arena) /\ Top = frames[Len(frames)]
<1>1. Tree(arena) /\ Path(arena, frames)
  BY DEF TraceInv, InOrder, Runs
<1> DEFINE m == Len(frames)
<1>2. m \in Nat /\ m > 0
  BY <1>1 DEF Path
<1> HIDE DEF m
<1>3. m \in 1 .. m
  BY <1>2
<1>4. Len(frames) \in 1 .. Len(frames)
  BY <1>3 DEF m
<1> QED
  BY <1>1, <1>4, PathFrame DEF Tree, Top, Last

(* Entering a frame keeps the bounds, *)
LEMMA EnterKeepsBounds ==
  ASSUME TraceInv, TraceBounds, NEW kind \in {"CALL", "DELEGATECALL"}, NEW address \in Contracts,
         NEW transaction, Enter(kind, address, transaction), stage' = stage, effects' = effects
  PROVE  TraceBounds'
<1>1. stage = "executing" /\ Len(arena) < MaxNodes
  BY DEF Enter
<1>2. /\ arena \in Seq(Nodes) /\ frames[Len(frames)].node \in 1 .. Len(arena)
      /\ Enters(arena, arena', frames[Len(frames)].node, kind, address)
  BY <1>1, TopInArena, EnterStep
<1>3. Total(LogCounts(arena')) = Total(LogCounts(arena))
  BY <1>2, EntersLogs
<1>4. Logged' = Logged
  BY <1>3 DEF Logged, LogCounts
<1>5. Len(arena') <= MaxNodes
  <2>1. Len(arena') = Len(arena) + 1 /\ Len(arena) \in Nat /\ MaxNodes \in Nat
    BY <1>2, TraceAssumption DEF Enters
  <2> QED
    BY <1>1, <2>1
<1> QED
  BY <1>1, <1>4, <1>5 DEF TraceBounds, ArenaStages

(* so does logging a transfer,                                               *)
LEMMA EmitKeepsBounds ==
  ASSUME TraceInv, TraceBounds, NEW from \in Accounts, NEW to \in Accounts, NEW amount \in Amounts,
         EmitTransfer(from, to, amount)
  PROVE  TraceBounds'
<1> DEFINE log == [from |-> from, to |-> to, amount |-> amount]
           t == frames[Len(frames)].node
           b == arena'
<1>1. /\ stage = "executing" /\ stage' = "executing" /\ Logged < MaxLogs
      /\ \/ effects' = effects
         \/ \E move : effects' = Append(effects, move)
  BY DEF EmitTransfer
<1>2. Top = frames[Len(frames)] /\ arena \in Seq(Nodes) /\ t \in 1 .. Len(arena) /\ Tree(arena)
  BY <1>1, TopInArena DEF TraceInv, InOrder
<1>3. b = [arena EXCEPT ![t].logs = Append(@, log),
                        ![t].ordering = Append(@, [kind |-> "Log",
                                                   index |-> Len(arena[t].logs) + 1])]
  BY <1>2 DEF EmitTransfer
<1>4. log \in LogRecords
  BY DEF LogRecords
<1> HIDE DEF b, log, t
<1>5. LogsIn(arena, b, t, log)
  BY <1>2, <1>3, <1>4, LogsIsEmit
<1>6. Total(LogCounts(b)) = Total(LogCounts(arena)) + 1 /\ Total(LogCounts(arena)) \in Int
  BY <1>2, <1>4, <1>5, LogsCounted, LogCountTypes, TotalTypes
<1>7. Logged' = Logged + 1 /\ Logged \in Int
  BY <1>6 DEF Logged, LogCounts, b
<1>8. Len(arena') = Len(arena)
  BY <1>5 DEF LogsIn, b
<1>9. Len(effects') <= Len(effects) + 1 /\ Len(effects) \in Nat /\ Len(effects') \in Nat
  <2>1. effects \in Seq(Moves) /\ Len(effects) \in Nat
    BY DEF TraceInv
  <2>2. \A move : Len(Append(effects, move)) = Len(effects) + 1
    BY <2>1
  <2> QED
    BY <1>1, <2>1, <2>2
<1>10. Len(effects) <= Logged /\ Len(arena) <= MaxNodes /\ MaxLogs \in Nat
  BY <1>1, TraceAssumption DEF TraceBounds, ArenaStages
<1>11. Len(effects') <= Logged + 1 /\ Logged + 1 <= MaxLogs /\ Len(effects') <= MaxLogs
  BY <1>1, <1>7, <1>9, <1>10
<1> QED
  BY <1>1, <1>7, <1>8, <1>10, <1>11 DEF TraceBounds, ArenaStages

(* Two lists with the same places are as long as one another.                *)
LEMMA IntervalEnds ==
  ASSUME NEW n \in Nat, NEW m \in Nat, 1 .. n = 1 .. m
  PROVE  n = m
<1>1. ASSUME NEW i \in Nat, NEW j \in Nat, i < j PROVE 1 .. i # 1 .. j
  <2>1. j \in 1 .. j /\ j \notin 1 .. i
    BY <1>1
  <2> QED
    BY <2>1
<1>2. ~ n < m /\ ~ m < n
  BY <1>1
<1> QED
  BY <1>2

(* and leaving a frame.                                                      *)
LEMMA LeaveKeepsBounds ==
  ASSUME TraceInv, TraceInv', TraceBounds, NEW success \in BOOLEAN, Leave(success)
  PROVE  TraceBounds'
<1>1. /\ stage = "executing" /\ stage' \in {"executing", "recorded"}
      /\ effects' = effects \/ effects' = SubSeq(effects, 1, Top.mark)
  BY DEF Leave
<1>2. arena \in Seq(Nodes) /\ arena' \in Seq(Nodes)
  BY <1>1 DEF TraceInv, InOrder, Tree
<1>3. /\ Len(arena') = Len(arena)
      /\ \A i \in 1 .. Len(arena) : arena'[i].logs = arena[i].logs
  <2> DEFINE failed == [arena EXCEPT ![Top.node].success = FALSE]
             ended == [failed EXCEPT ![1].success = FALSE]
  <2>1. arena' \in {arena, failed, ended}
    BY DEF Leave
  <2>2. /\ DOMAIN failed = DOMAIN arena /\ DOMAIN ended = DOMAIN arena
        /\ \A i \in DOMAIN arena : failed[i].logs = arena[i].logs /\ ended[i].logs = arena[i].logs
    <3>1. /\ DOMAIN arena = 1 .. Len(arena)
          /\ \A i \in DOMAIN arena : arena[i] \in Nodes
      BY <1>2
    <3>2. DOMAIN failed = DOMAIN arena /\ DOMAIN ended = DOMAIN arena
      OBVIOUS
    <3>3. \A node \in Nodes : [node EXCEPT !.success = FALSE].logs = node.logs
                              /\ [node EXCEPT !.success = FALSE] \in Nodes
      BY DEF Nodes
    <3>4. \A i \in DOMAIN arena : failed[i] = IF i = Top.node
                                              THEN [arena[i] EXCEPT !.success = FALSE] ELSE arena[i]
      OBVIOUS
    <3>5. \A i \in DOMAIN arena : failed[i] \in Nodes /\ failed[i].logs = arena[i].logs
      <4> HIDE DEF failed
      <4> QED
        BY <3>1, <3>3, <3>4
    <3> HIDE DEF failed
    <3>6. \A i \in DOMAIN arena : ended[i] = IF i = 1
                                             THEN [failed[i] EXCEPT !.success = FALSE] ELSE failed[i]
      BY <3>2
    <3>7. \A i \in DOMAIN arena : ended[i].logs = arena[i].logs
      <4> HIDE DEF ended
      <4> QED
        BY <3>3, <3>5, <3>6
    <3> QED
      BY <3>2, <3>5, <3>7
  <2>3. DOMAIN arena = 1 .. Len(arena) /\ DOMAIN arena' = 1 .. Len(arena') /\ Len(arena) \in Nat
        /\ Len(arena') \in Nat
    BY <1>2
  <2> HIDE DEF failed, ended
  <2>4. DOMAIN arena' = DOMAIN arena
    BY <2>1, <2>2
  <2>5. Len(arena') = Len(arena)
    <3>1. 1 .. Len(arena') = 1 .. Len(arena)
      BY <2>3, <2>4
    <3> QED
      BY <2>3, <3>1, IntervalEnds
  <2> QED
    BY <2>1, <2>2, <2>3, <2>5
<1>4. Logged' = Logged
  <2>1. Total(LogCounts(arena')) = Total(LogCounts(arena))
    BY <1>2, <1>3, SameLogs
  <2> QED
    BY <2>1 DEF Logged, LogCounts
<1>5. Len(effects') <= Len(effects) /\ Len(effects') \in Nat /\ Len(effects) \in Nat
  <2>1. effects \in Seq(Moves) /\ Len(effects) \in Nat
    BY DEF TraceInv
  <2>2. Top.mark \in Nat /\ Top.mark <= Len(effects)
    <3>1. Top = frames[Len(frames)] /\ Len(frames) \in 1 .. Len(frames)
      BY <1>1, TopInArena
    <3>2. frames \in Seq(FrameRecords) /\ Marked(frames, Len(effects))
      BY <1>1 DEF TraceInv, Runs, Path
    <3>3. frames[Len(frames)] \in FrameRecords
      BY <3>1, <3>2
    <3> QED
      BY <3>1, <3>2, <3>3 DEF FrameRecords, Marked
  <2>3. Len(SubSeq(effects, 1, Top.mark)) = Top.mark
    BY <2>1, <2>2
  <2> QED
    BY <1>1, <2>1, <2>2, <2>3
<1>6. /\ Len(effects) <= Logged /\ Logged <= MaxLogs /\ Len(effects) <= MaxLogs
      /\ Len(arena) <= MaxNodes
  BY <1>1 DEF TraceBounds, ArenaStages
<1>7. Logged \in Int /\ MaxLogs \in Nat
  <2>1. Total(LogCounts(arena)) \in Int
    BY <1>2, LogCountTypes, TotalTypes
  <2> QED
    BY <2>1, TraceAssumption DEF Logged, LogCounts
<1>8. Len(effects') <= Logged /\ Len(effects') <= MaxLogs
  BY <1>5, <1>6, <1>7
<1> QED
  BY <1>1, <1>3, <1>4, <1>6, <1>8 DEF TraceBounds, ArenaStages

(* So every step keeps the bounds of the trace.                              *)
LEMMA TraceBoundsNext ==
  ASSUME TraceInv, TraceInv', TraceBounds, [Next]_vars
  PROVE  TraceBounds'
<1>1. CASE \E kind \in {"CALL", "DELEGATECALL"}, address \in Contracts :
             /\ \E transaction : Enter(kind, address, transaction)
             /\ stage' = stage /\ effects' = effects
  BY <1>1, EnterKeepsBounds
<1>2. CASE \E c \in Contracts : Override(c) \/ CallTarget(c)
  BY <1>1, <1>2 DEF Override, CallTarget
<1>3. CASE \E kind \in {"CALL", "DELEGATECALL"}, c \in Contracts : CallInside(kind, c)
  BY <1>1, <1>3 DEF CallInside
<1>4. CASE \E from, to \in Accounts, amount \in Amounts : EmitTransfer(from, to, amount)
  BY <1>4, EmitKeepsBounds
<1>5. CASE \E success \in BOOLEAN : Leave(success)
  BY <1>5, LeaveKeepsBounds
<1>6. CASE ParseOutput \/ ShowTrace
  BY <1>6 DEF ParseOutput, ShowTrace, traceVars, TraceBounds, ArenaStages
<1>7. CASE FetchTokenPrices
  BY <1>7 DEF FetchTokenPrices, TraceBounds, ArenaStages
<1>8. CASE AskProvider \/ AnalyzeBalanceChanges \/ ShowFlow
  BY <1>8 DEF AskProvider, AnalyzeBalanceChanges, ShowFlow, traceVars, TraceBounds, ArenaStages
<1>9. CASE UNCHANGED vars
  <2>1. UNCHANGED <<stage, arena, effects>>
    BY <1>9 DEF vars, traceVars
  <2> QED
    BY <2>1 DEF TraceBounds, Logged
<1> QED
  BY <1>2, <1>3, <1>4, <1>5, <1>6, <1>7, <1>8, <1>9 DEF Next, NextTrace, Execute

(* A transfer makes one edge at most.                                        *)
LEMMA EdgesAtMostTransfers ==
  ASSUME transfers \in Seq(Moves)
  PROVE  Len(Grouped) <= Len(transfers)
<1> DEFINE n == Len(transfers)
           Good == {i \in 0 .. n : Len(GroupedAfter[i]) <= i}
<1>1. /\ n \in Nat /\ GroupedAfter[0] = <<>> /\ GroupedAfter \in [0 .. n -> Seq(Edges)]
      /\ \A i \in 1 .. n : GroupedAfter[i] = GroupTransfer(GroupedAfter[i - 1], transfers[i], i)
  BY GroupRounds
<1>a. n = Len(transfers) /\ Grouped = GroupedAfter[n]
  BY DEF Grouped
<1> HIDE DEF n
<1>2. ASSUME NEW groups \in Seq(Edges), NEW t, NEW i
      PROVE  Len(GroupTransfer(groups, t, i)) <= Len(groups) + 1
  <2> DEFINE at == {k \in DOMAIN groups : SameEdge(groups[k], t)}
             g == GroupTransfer(groups, t, i)
             c == CHOOSE k \in at : TRUE
             edge == AddToEdge(groups[c], t, i)
  <2>1. Len(groups) \in Nat
    OBVIOUS
  <2>2. CASE at = {}
    <3>1. \E new : g = Append(groups, new)
      BY <2>2 DEF GroupTransfer
    <3> HIDE DEF g
    <3>2. Len(g) = Len(groups) + 1
      BY <3>1
    <3> QED
      BY <2>1, <3>2 DEF g
  <2>3. CASE at # {}
    <3>1. g = [groups EXCEPT ![c] = edge]
      BY <2>3 DEF GroupTransfer
    <3> HIDE DEF g, c, edge
    <3>2. Len(g) = Len(groups)
      BY <3>1
    <3> QED
      BY <2>1, <3>2 DEF g
  <2> QED
    BY <2>2, <2>3
<1>3. 0 \in Good
  <2>1. Len(GroupedAfter[0]) = 0 /\ 0 \in 0 .. n
    BY <1>1
  <2> QED
    BY <2>1
<1>4. ASSUME NEW i \in 1 .. n, i - 1 \in Good PROVE i \in Good
  <2> DEFINE groups == GroupedAfter[i - 1]
  <2>1. i \in 0 .. n /\ i - 1 \in 0 .. n /\ i \in Nat
    BY <1>1
  <2>2. groups \in Seq(Edges) /\ Len(groups) <= i - 1
    BY <1>1, <1>4, <2>1
  <2>3. GroupedAfter[i] = GroupTransfer(groups, transfers[i], i) /\ GroupedAfter[i] \in Seq(Edges)
    BY <1>1, <2>1
  <2> HIDE DEF groups
  <2>4. Len(GroupedAfter[i]) <= Len(groups) + 1
    BY <1>2, <2>2, <2>3
  <2>5. Len(groups) \in Nat /\ Len(GroupedAfter[i]) \in Nat
    BY <2>2, <2>3
  <2>6. Len(GroupedAfter[i]) <= i
    BY <2>1, <2>2, <2>4, <2>5
  <2> QED
    BY <2>1, <2>6
<1> HIDE DEF Good
<1>5. n \in Good
  <2>1. \A i \in 0 .. n : i \in Good
    BY <1>1, <1>3, <1>4, RoundsInduction
  <2> QED
    BY <1>1, <2>1
<1> QED
  BY <1>5, <1>a DEF Good

(* The providers are asked once each, for tokens of contracts; the Flow tab  *)
(* draws edges when all is known.                                            *)
FlowBounds ==
    /\ Len(answers) <= Providers
    /\ DOMAIN prices \subseteq Contracts
    /\ stage # "drawn" => edges = <<>>
    /\ Len(edges) <= Len(transfers)

(* A question is asked of a provider that was not, a price is found for a     *)
(* contract, and the edges are drawn once, at most one for every transfer.   *)
LEMMA FlowBoundsNext ==
  ASSUME TraceInv, TraceInv', TokenInv, PricesInv, FlowBounds, [Next]_vars
  PROVE  FlowBounds'
<1>0. /\ transfers \in Seq(Moves) /\ transfers' \in Seq(Moves)
      /\ Len(transfers) \in Nat /\ Len(transfers') \in Nat /\ Len(<<>>) = 0
  BY DEF TraceInv
<1>1. CASE NextTrace /\ UNCHANGED flowVars
  <2>1. stage \in {"executing", "recorded", "parsed"} /\ stage' # "drawn"
    BY <1>1 DEF NextTrace, Execute, Override, CallTarget, CallInside, Enter, EmitTransfer,
                Leave, ParseOutput, ShowTrace
  <2>2. edges' = <<>> /\ answers' = answers /\ prices' = prices
    BY <1>1, <2>1 DEF flowVars, FlowBounds
  <2> QED
    BY <1>0, <2>1, <2>2 DEF FlowBounds
<1>2. Tokens \subseteq Contracts
  <2>1. \A i \in DOMAIN transfers : transfers[i].token \in Contracts
    BY <1>0 DEF TokenInv, OfContracts
  <2> QED
    BY <2>1 DEF Tokens
<1>3. CASE FetchTokenPrices
  <2>1. /\ DOMAIN prices' = Tokens /\ answers' = answers /\ edges' = edges
        /\ transfers' = transfers /\ stage = "parsed" /\ stage' # "drawn"
    BY <1>3 DEF FetchTokenPrices
  <2> QED
    BY <1>2, <2>1 DEF FlowBounds
<1>4. CASE AskProvider
  <2>1. /\ DOMAIN prices' = Tokens /\ edges' = edges /\ transfers' = transfers
        /\ stage = "pricing" /\ stage' # "drawn"
        /\ \E answer \in [Tokens -> UNION {Answers(Len(answers) + 1, t) : t \in Tokens}] :
             /\ \A token \in Tokens : answer[token] \in Answers(Len(answers) + 1, token)
             /\ answers' = Append(answers, answer)
    BY <1>4 DEF AskProvider
  <2>2. answers \in Seq(AllAnswers) /\ Len(answers) < Providers
    BY <2>1 DEF PricesInv
  <2>3. Len(answers') = Len(answers) + 1 /\ Len(answers) \in Nat
    BY <2>1, <2>2
  <2>4. Len(answers') <= Providers
    BY <2>2, <2>3 DEF Providers
  <2> QED
    BY <1>2, <2>1, <2>4 DEF FlowBounds
<1>5. CASE AnalyzeBalanceChanges
  BY <1>5 DEF AnalyzeBalanceChanges, FlowBounds
<1>6. CASE ShowFlow
  <2>1. /\ answers' = <<>> /\ prices' = <<>> /\ edges' = Grouped /\ transfers' = transfers
        /\ stage' = "drawn"
    BY <1>6 DEF ShowFlow
  <2>2. Len(edges') <= Len(transfers')
    BY <1>0, <2>1, EdgesAtMostTransfers
  <2>3. DOMAIN prices' = {} /\ Len(answers') = 0
    BY <2>1
  <2> QED
    BY <2>1, <2>2, <2>3 DEF FlowBounds, Providers
<1>7. CASE UNCHANGED vars
  BY <1>7 DEF vars, flowVars, FlowBounds
<1> QED
  BY <1>1, <1>3, <1>4, <1>5, <1>6, <1>7 DEF Next

(* The trace stays within its bounds and everything read from it has its     *)
(* type: transfers are between accounts and of contracts, no line of the     *)
(* balances is zero, each provider is asked once at most, and there are no   *)
(* more edges than transfers (parser.go, provider.go, balances.go,           *)
(* transferGrouping.ts).                                                     *)
THEOREM FlowTypeCorrect == Spec => []TypeOK
<1> DEFINE I == ChangesInv /\ TraceBounds /\ FlowBounds
<1>1. Init => I
  <2>1. Init => FlowBounds
    <3> SUFFICES ASSUME Init PROVE FlowBounds
      OBVIOUS
    <3>1. answers = <<>> /\ prices = <<>> /\ edges = <<>> /\ transfers = <<>>
      BY DEF Init, InitTrace
    <3>2. Len(<<>>) = 0 /\ DOMAIN <<>> = {}
      OBVIOUS
    <3> QED
      BY <3>1, <3>2 DEF FlowBounds, Providers
  <2> QED
    BY <2>1, ChangesInvInit, TraceBoundsInit
<1>2. I /\ [Next]_vars => I'
  <2> SUFFICES ASSUME I, [Next]_vars PROVE I'
    OBVIOUS
  <2>1. ChangesInv'
    BY ChangesInvNext
  <2>2. TraceBounds'
    BY <2>1, TraceBoundsNext DEF ChangesInv
  <2>3. FlowBounds'
    BY <2>1, FlowBoundsNext DEF ChangesInv
  <2> QED
    BY <2>1, <2>2, <2>3
<1>3. I => TypeOK
  <2> SUFFICES ASSUME I PROVE TypeOK
    OBVIOUS
  <2>1. /\ stage \in {"executing", "recorded", "parsed", "shown", "pricing", "priced",
                      "analyzed", "drawn"}
        /\ effects \in Seq(Moves) /\ transfers \in Seq(Moves)
    BY DEF ChangesInv, TraceInv
  <2>2. Len(arena) <= MaxNodes /\ Len(effects) <= MaxLogs
    <3>1. Len(<<>>) = 0 /\ MaxNodes \in Nat \ {0}
      BY TraceAssumption
    <3> QED
      BY <3>1 DEF TraceBounds
  <2>3. \A i \in DOMAIN transfers : transfers[i] \in
            [token : Contracts, from : Accounts, to : Accounts, amount : Amounts]
    <3> SUFFICES ASSUME NEW i \in DOMAIN transfers
                 PROVE  transfers[i] \in [token : Contracts, from : Accounts, to : Accounts,
                                          amount : Amounts]
      OBVIOUS
    <3>1. transfers[i] \in Moves /\ i \in 1 .. Len(transfers)
      BY <2>1
    <3>2. transfers[i].token \in Contracts
      BY <3>1 DEF ChangesInv, TokenInv, OfContracts
    <3> QED
      BY <3>1, <3>2 DEF Moves
  <2>4. \A c \in changes : c.rawAmount \in Int \ {0}
    <3>1. CASE Analyzed
      <4>1. ListsMoves(changes, transfers)
        BY <3>1 DEF ChangesInv, FlowInv
      <4> SUFFICES ASSUME NEW c \in changes PROVE c.rawAmount \in Int \ {0}
        OBVIOUS
      <4>2. c.rawAmount = Net(transfers, c.user, c.token) /\ c.rawAmount # 0
        BY <4>1 DEF ListsMoves
      <4> QED
        BY <2>1, <4>2, NetIsWeight
    <3>2. CASE ~ Analyzed
      BY <2>1, <3>2 DEF Analyzed, ChangesInv, PricesInv
    <3> QED
      BY <3>1, <3>2
  <2> QED
    BY <2>1, <2>2, <2>3, <2>4 DEF FlowBounds, TypeOK
<1> QED
  BY <1>1, <1>2, <1>3, PTL DEF Spec
=============================================================================
