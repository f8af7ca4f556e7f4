------------------------- MODULE TransactionProofs -------------------------
(***************************************************************************)
(* Proofs about TransactionTrace, for every execution of a transaction and *)
(* every depth of calls: the transfers of the response are those that      *)
(* happened and survived, and the Trace tab shows what was executed, in    *)
(* the order it was.  The recursions over the arena, and the concatenation *)
(* and the sums of lists, are reasoned about by induction on their rounds  *)
(* (Rounds).  FlowProofs goes on to what is made of the transfers.         *)
(***************************************************************************)
EXTENDS FundFlow, Rounds, SequenceTheorems, FiniteSetTheorems

-----------------------------------------------------------------------------
(* Concatenations.  FlattenSeq is what is gathered after the last round,     *)
(* f[i] being what is after i rounds.                                        *)
Gathers(f, ss, S) ==
    /\ f \in [0 .. Len(ss) -> Seq(S)]
    /\ f[0] = <<>>
    /\ \A i \in 1 .. Len(ss) : f[i] = f[i - 1] \o ss[i]

(* There is such a gathering of every list of lists,                         *)
LEMMA GatheringExists ==
  ASSUME NEW S, NEW ss \in Seq(Seq(S))
  PROVE  \E f : Gathers(f, ss, S)
<1> DEFINE n == Len(ss)
           A == Seq(S)
           step == [q \in (1 .. n) \X A |-> q[2] \o ss[q[1]]]
<1>1. n \in Nat /\ <<>> \in A /\ \A i \in 1 .. n : ss[i] \in A
  OBVIOUS
<1>2. \A i \in 1 .. n, before \in A : before \o ss[i] \in A
  BY <1>1, ConcatProperties
<1> HIDE DEF n, A
<1>3. \A i \in 1 .. n, before \in A : step[<<i, before>>] = before \o ss[i]
  OBVIOUS
<1>4. \A i \in 1 .. n, before \in A : step[<<i, before>>] \in A
  BY <1>2, <1>3
<1> HIDE DEF step
<1>5. PICK f : AreRounds(f, n, A, <<>>, step)
  BY <1>1, <1>4, RoundsExist
<1>6. f \in [0 .. n -> A] /\ f[0] = <<>>
  <2>1. 0 \in 0 .. n
    BY <1>1
  <2> QED
    BY <1>5, <2>1 DEF AreRounds
<1>7. ASSUME NEW i \in 1 .. n PROVE f[i] = f[i - 1] \o ss[i]
  <2>1. i \in 0 .. n /\ i # 0 /\ i - 1 \in 0 .. n
    BY <1>1
  <2>2. f[i] = step[<<i, f[i - 1]>>] /\ f[i - 1] \in A
    BY <1>5, <2>1 DEF AreRounds
  <2> QED
    BY <1>3, <2>2
<1>8. Gathers(f, ss, S)
  BY <1>6, <1>7 DEF Gathers, n, A
<1> QED
  BY <1>8

(* and FlattenSeq is its last round: its recursion over ranges is the one over rounds.*)
LEMMA FlattenGathers ==
  ASSUME NEW S, NEW ss \in Seq(Seq(S)), NEW f, Gathers(f, ss, S)
  PROVE  FlattenSeq(ss) = f[Len(ss)]
<1> DEFINE n == Len(ss)
<1>a. /\ f \in [0 .. n -> Seq(S)] /\ f[0] = <<>>
      /\ \A i \in 1 .. n : f[i] = f[i - 1] \o ss[i]
  BY DEF Gathers
<1>b. n \in Nat /\ \A i \in 1 .. n : ss[i] \in Seq(S)
  OBVIOUS
<1>1. /\ n \in Nat /\ \A i \in 1 .. n : ss[i] \in Seq(S)
      /\ f \in [0 .. n -> Seq(S)] /\ f[0] = <<>> /\ \A i \in 1 .. n : f[i] = f[i - 1] \o ss[i]
  BY <1>a, <1>b
<1>2. CASE n = 0
  <2>1. FlattenSeq(ss) = ss /\ ss = <<>>
    BY <1>2 DEF FlattenSeq
  <2> QED
    BY <1>1, <1>2, <2>1
<1>3. CASE n # 0
  <2> DEFINE Fits(h) == h = [i \in 1 .. n |-> IF i = 1 THEN ss[i] ELSE h[i - 1] \o ss[i]]
             known == [i \in 1 .. n |-> f[i]]
             g == CHOOSE h : Fits(h)
  <2>1. FlattenSeq(ss) = g[n]
    BY <1>3 DEF FlattenSeq
  <2>a. n = Len(ss)
    OBVIOUS
  <2> HIDE DEF n
  <2>2. Fits(known)
    <3>1. ASSUME NEW i \in 1 .. n
          PROVE  f[i] = IF i = 1 THEN ss[i] ELSE known[i - 1] \o ss[i]
      <4>1. CASE i = 1
        <5>1. f[1] = f[0] \o ss[1] /\ ss[1] \in Seq(S)
          <6>1. 1 \in 1 .. n /\ 1 - 1 = 0
            BY <1>1, <4>1
          <6> QED
            BY <1>1, <6>1
        <5> QED
          BY <1>1, <4>1, <5>1, ConcatEmptySeq
      <4>2. CASE i # 1
        <5>1. i - 1 \in 1 .. n
          BY <1>1, <4>2
        <5> QED
          BY <1>1, <4>2, <5>1
      <4> QED
        BY <4>1, <4>2
    <3> QED
      BY <3>1
  <2>3. Fits(g)
    <3> HIDE DEF Fits
    <3> QED
      BY <2>2
  <2> HIDE DEF g
  <2> DEFINE Good == {i \in 0 .. n : i = 0 \/ g[i] = f[i]}
  <2>4. 0 \in Good
    BY <1>1
  <2>5. ASSUME NEW i \in 1 .. n, i - 1 \in Good PROVE i \in Good
    <3>1. g[i] = IF i = 1 THEN ss[i] ELSE g[i - 1] \o ss[i]
      BY <2>3
    <3>2. f[i] = IF i = 1 THEN ss[i] ELSE known[i - 1] \o ss[i]
      BY <2>2
    <3>3. i # 1 => known[i - 1] = f[i - 1] /\ g[i - 1] = f[i - 1]
      BY <1>1, <2>5
    <3>4. i \in 0 .. n
      BY <1>1
    <3> QED
      BY <3>1, <3>2, <3>3, <3>4
  <2>6. \A i \in 0 .. n : i \in Good
    <3> HIDE DEF Good
    <3> QED
      BY <1>1, <2>4, <2>5, RoundsInduction
  <2>7. n \in 0 .. n
    BY <1>1
  <2> QED
    BY <1>3, <2>1, <2>6, <2>7, <2>a
<1> QED
  BY <1>2, <1>3

(* FlattenSeq gives a sequence, nothing of nothing, *)
LEMMA FlattenTypes ==
  ASSUME NEW S, NEW ss \in Seq(Seq(S))
  PROVE  FlattenSeq(ss) \in Seq(S)
<1>1. PICK f : Gathers(f, ss, S)
  BY GatheringExists
<1>2. Len(ss) \in 0 .. Len(ss)
  OBVIOUS
<1>3. f[Len(ss)] \in Seq(S)
  BY <1>1, <1>2 DEF Gathers
<1> QED
  BY <1>1, <1>3, FlattenGathers

(* Nothing is gathered from nothing.                                         *)
LEMMA FlattenNothing == FlattenSeq(<<>>) = <<>>
BY DEF FlattenSeq

(* and one more sequence at the end of what the others give. *)
LEMMA FlattenMore ==
  ASSUME NEW S, NEW ss \in Seq(Seq(S)), NEW s \in Seq(S)
  PROVE  FlattenSeq(Append(ss, s)) = FlattenSeq(ss) \o s
<1> DEFINE n == Len(ss)
           more == Append(ss, s)
<1>1. PICK f : Gathers(f, ss, S)
  BY GatheringExists
<1>2. /\ n \in Nat /\ more \in Seq(Seq(S)) /\ Len(more) = n + 1 /\ more[n + 1] = s
      /\ \A i \in 1 .. n : more[i] = ss[i] /\ ss[i] \in Seq(S)
  OBVIOUS
<1>3. /\ f \in [0 .. n -> Seq(S)] /\ f[0] = <<>> /\ \A i \in 1 .. n : f[i] = f[i - 1] \o ss[i]
  BY <1>1 DEF Gathers
<1>4. FlattenSeq(ss) = f[n]
  BY <1>1, FlattenGathers
<1> HIDE DEF n, more
<1> DEFINE g == [i \in 0 .. (n + 1) |-> IF i = n + 1 THEN f[n] \o s ELSE f[i]]
<1>5. /\ \A i \in 0 .. n : g[i] = f[i]
      /\ g[n + 1] = f[n] \o s
  BY <1>2
<1>6. f[n] \o s \in Seq(S)
  BY <1>2, <1>3, ConcatProperties
<1>7. g \in [0 .. (n + 1) -> Seq(S)]
  BY <1>2, <1>3, <1>6
<1>8. ASSUME NEW i \in 1 .. (n + 1) PROVE g[i] = g[i - 1] \o more[i]
  <2>1. CASE i = n + 1
    <3>1. i - 1 = n /\ n \in 0 .. n
      BY <1>2, <2>1
    <3> QED
      BY <1>2, <1>5, <2>1, <3>1
  <2>2. CASE i # n + 1
    <3>1. i \in 1 .. n /\ i \in 0 .. n /\ i - 1 \in 0 .. n
      BY <1>2, <2>2
    <3> QED
      BY <1>2, <1>3, <1>5, <3>1
  <2> QED
    BY <2>1, <2>2
<1>9. Gathers(g, more, S)
  <2>1. g[0] = <<>>
    <3>1. 0 \in 0 .. n
      BY <1>2
    <3> QED
      BY <1>3, <1>5, <3>1
  <2> HIDE DEF g
  <2>2. /\ g \in [0 .. Len(more) -> Seq(S)]
        /\ \A i \in 1 .. Len(more) : g[i] = g[i - 1] \o more[i]
    BY <1>2, <1>7, <1>8
  <2> QED
    BY <2>1, <2>2 DEF Gathers
<1>10. FlattenSeq(more) = g[n + 1]
  BY <1>2, <1>9, FlattenGathers
<1> QED
  BY <1>4, <1>5, <1>10 DEF more

(* If only the last of several sequences differ, the rest is the same. *)
LEMMA FlattenLast ==
  ASSUME NEW S, NEW ss \in Seq(Seq(S)), NEW tt \in Seq(Seq(S)),
         Len(ss) > 0, Len(tt) = Len(ss), \A i \in 1 .. (Len(ss) - 1) : ss[i] = tt[i]
  PROVE  \E u \in Seq(S) : /\ FlattenSeq(ss) = u \o ss[Len(ss)]
                           /\ FlattenSeq(tt) = u \o tt[Len(ss)]
<1> DEFINE n == Len(ss)
           front == SubSeq(ss, 1, n - 1)
<1>1. /\ n \in Nat /\ n > 0 /\ Len(tt) = n /\ \A i \in 1 .. n : ss[i] \in Seq(S) /\ tt[i] \in Seq(S)
      /\ n - 1 \in Nat /\ \A i \in 1 .. (n - 1) : ss[i] = tt[i] /\ i \in 1 .. n
      /\ ss \in Seq(Seq(S)) /\ tt \in Seq(Seq(S)) /\ n \in 1 .. n
  <2>a. \A i \in 1 .. (n - 1) : ss[i] = tt[i]
    OBVIOUS
  <2>b. n \in Nat /\ n > 0 /\ Len(tt) = n
    OBVIOUS
  <2>1. n \in Nat /\ n > 0 /\ Len(tt) = n /\ \A i \in 1 .. (n - 1) : ss[i] = tt[i]
    BY <2>a, <2>b
  <2>2. \A i \in 1 .. n : ss[i] \in Seq(S) /\ tt[i] \in Seq(S)
    <3>1. \A i \in 1 .. Len(ss) : ss[i] \in Seq(S)
      OBVIOUS
    <3>2. \A i \in 1 .. Len(tt) : tt[i] \in Seq(S)
      OBVIOUS
    <3> QED
      BY <3>1, <3>2
  <2> HIDE DEF n
  <2>3. n - 1 \in Nat /\ n \in 1 .. n /\ \A i \in 1 .. (n - 1) : i \in 1 .. n
    BY <2>1
  <2> QED
    BY <2>1, <2>2, <2>3
<1>a. n = Len(ss)
  OBVIOUS
<1> HIDE DEF n
<1>2. /\ front \in Seq(Seq(S)) /\ Len(front) = n - 1
      /\ \A i \in 1 .. (n - 1) : front[i] = ss[i]
  <2>1. \A i \in 1 .. (n - 1) : ss[i] \in Seq(S)
    BY <1>1
  <2>2. /\ front \in Seq(Seq(S)) /\ Len(front) = IF 1 <= n - 1 THEN n - 1 - 1 + 1 ELSE 0
        /\ \A i \in 1 .. n - 1 - 1 + 1 : front[i] = ss[1 + i - 1]
    BY <1>1, <2>1, SubSeqProperties
  <2> HIDE DEF front
  <2>3. Len(front) = n - 1
    BY <1>1, <2>2
  <2>4. ASSUME NEW i \in 1 .. (n - 1) PROVE front[i] = ss[i]
    <3>1. i \in 1 .. n - 1 - 1 + 1 /\ 1 + i - 1 = i
      BY <1>1
    <3> QED
      BY <2>2, <3>1
  <2> QED
    BY <2>2, <2>3, <2>4
<1> HIDE DEF front
<1>3. ASSUME NEW rr \in Seq(Seq(S)), Len(rr) = n, \A i \in 1 .. (n - 1) : rr[i] = front[i]
      PROVE  FlattenSeq(rr) = FlattenSeq(front) \o rr[n]
  <2> DEFINE more == Append(front, rr[n])
  <2>1. rr[n] \in Seq(S)
    BY <1>1, <1>3
  <2>2. /\ more \in Seq(Seq(S)) /\ Len(more) = n /\ more[n] = rr[n]
        /\ \A i \in 1 .. (n - 1) : more[i] = front[i]
    BY <1>1, <1>2, <2>1, AppendProperties
  <2> HIDE DEF more
  <2>3. \A i \in 1 .. n : i = n \/ i \in 1 .. (n - 1)
    BY <1>1
  <2>4. \A i \in 1 .. n : rr[i] = more[i]
    BY <1>3, <2>2, <2>3
  <2>5. rr = more
    BY <1>3, <2>2, <2>4, SeqEqual
  <2> QED
    BY <1>2, <2>1, <2>5, FlattenMore DEF more
<1>4. FlattenSeq(front) \in Seq(S)
  BY <1>2, FlattenTypes
<1>5. /\ FlattenSeq(ss) = FlattenSeq(front) \o ss[n]
      /\ FlattenSeq(tt) = FlattenSeq(front) \o tt[n]
  BY <1>1, <1>2, <1>3, <1>a
<1> QED
  BY <1>4, <1>5, <1>a

(* Then what one has more at the end, the concatenation has. *)
LEMMA FlattenLonger ==
  ASSUME NEW S, NEW ss \in Seq(Seq(S)), NEW tt \in Seq(Seq(S)),
         NEW first \in Seq(S), NEW x \in Seq(S),
         Len(ss) > 0, Len(tt) = Len(ss), \A i \in 1 .. (Len(ss) - 1) : ss[i] = tt[i],
         tt[Len(ss)] = ss[Len(ss)] \o x
  PROVE  first \o FlattenSeq(tt) = (first \o FlattenSeq(ss)) \o x
<1> DEFINE r == ss[Len(ss)]
           flat == FlattenSeq(ss)
<1>1. r \in Seq(S)
  <2>1. Len(ss) \in 1 .. Len(ss)
    OBVIOUS
  <2> QED
    BY <2>1
<1>2. PICK u \in Seq(S) : FlattenSeq(ss) = u \o ss[Len(ss)] /\ FlattenSeq(tt) = u \o tt[Len(ss)]
  BY FlattenLast
<1>3. flat \in Seq(S)
  BY FlattenTypes
<1>4. flat = u \o r /\ FlattenSeq(tt) = u \o (r \o x)
  BY <1>2
<1> HIDE DEF r, flat
<1>5. (u \o r) \o x = u \o (r \o x)
  BY <1>1, SMTT(30)
<1>6. FlattenSeq(tt) = flat \o x
  BY <1>4, <1>5
<1>7. (first \o flat) \o x = first \o (flat \o x)
  BY <1>3, SMTT(30)
<1> QED
  BY <1>6, <1>7 DEF flat

(* A position that is not the last is one of the others.                     *)
LEMMA BelowLast ==
  ASSUME NEW n \in Nat, NEW i \in 1 .. n, i < n
  PROVE  i \in 1 .. (n - 1)
OBVIOUS

(* One list more adds its elements at the end.                               *)
LEMMA FlattenOneLonger ==
  ASSUME NEW S, NEW ss \in Seq(Seq(S)), NEW first \in Seq(S), NEW x \in Seq(S)
  PROVE  first \o FlattenSeq(Append(ss, x)) = (first \o FlattenSeq(ss)) \o x
<1> DEFINE flat == FlattenSeq(ss)
<1>1. flat \in Seq(S) /\ FlattenSeq(Append(ss, x)) = flat \o x
  BY FlattenTypes, FlattenMore
<1> HIDE DEF flat
<1>2. (first \o flat) \o x = first \o (flat \o x)
  BY <1>1
<1> QED
  BY <1>1, <1>2 DEF flat

-----------------------------------------------------------------------------
(* Sums.  f[i] is the sum of the first i numbers. *)
Adds(f, numbers) ==
    /\ f \in [0 .. Len(numbers) -> Int]
    /\ f[0] = 0
    /\ \A i \in 1 .. Len(numbers) : f[i] = f[i - 1] + numbers[i]

(* There are such partial sums of every list of numbers,                     *)
LEMMA AddingExists ==
  ASSUME NEW numbers \in Seq(Int)
  PROVE  \E f : Adds(f, numbers)
<1> DEFINE n == Len(numbers)
           A == Int
           step == [q \in (1 .. n) \X A |-> q[2] + numbers[q[1]]]
<1>1. n \in Nat /\ 0 \in A /\ \A i \in 1 .. n : numbers[i] \in Int
  OBVIOUS
<1> HIDE DEF n
<1>2. \A i \in 1 .. n, before \in A : before + numbers[i] \in A
  BY <1>1
<1> HIDE DEF A
<1>3. \A i \in 1 .. n, before \in A : step[<<i, before>>] = before + numbers[i]
  OBVIOUS
<1>4. \A i \in 1 .. n, before \in A : step[<<i, before>>] \in A
  BY <1>2, <1>3
<1> HIDE DEF step
<1>5. PICK f : AreRounds(f, n, A, 0, step)
  BY <1>1, <1>4, RoundsExist
<1>6. f \in [0 .. n -> A] /\ f[0] = 0
  <2>1. 0 \in 0 .. n
    BY <1>1
  <2> QED
    BY <1>5, <2>1 DEF AreRounds
<1>7. ASSUME NEW i \in 1 .. n PROVE f[i] = f[i - 1] + numbers[i]
  <2>1. i \in 0 .. n /\ i # 0 /\ i - 1 \in 0 .. n
    BY <1>1
  <2>2. f[i] = step[<<i, f[i - 1]>>] /\ f[i - 1] \in A
    BY <1>5, <2>1 DEF AreRounds
  <2> QED
    BY <1>3, <2>2
<1>8. Adds(f, numbers)
  BY <1>6, <1>7 DEF Adds, n, A
<1> QED
  BY <1>8

(* and Total is the last of them.                                            *)
LEMMA TotalAdds ==
  ASSUME NEW numbers \in Seq(Int), NEW f, Adds(f, numbers)
  PROVE  Total(numbers) = f[Len(numbers)]
<1> DEFINE n == Len(numbers)
           Fits(h) == h = [i \in 0 .. n |-> IF i = 0 THEN 0 ELSE h[i - 1] + numbers[i]]
           g == CHOOSE h : Fits(h)
<1>1. /\ n \in Nat /\ \A i \in 1 .. n : numbers[i] \in Int
      /\ f \in [0 .. n -> Int] /\ f[0] = 0 /\ \A i \in 1 .. n : f[i] = f[i - 1] + numbers[i]
  BY DEF Adds
<1>2. Total(numbers) = g[n]
  BY DEF Total
<1>a. n = Len(numbers)
  OBVIOUS
<1> HIDE DEF n
<1>3. Fits(f)
  <2>1. ASSUME NEW i \in 0 .. n
        PROVE  f[i] = IF i = 0 THEN 0 ELSE f[i - 1] + numbers[i]
    <3>1. i # 0 => i \in 1 .. n
      BY <1>1
    <3> QED
      BY <1>1, <3>1
  <2> QED
    BY <1>1, <2>1
<1>4. Fits(g)
  <2> HIDE DEF Fits
  <2> QED
    BY <1>3
<1> HIDE DEF g
<1> DEFINE Good == {i \in 0 .. n : g[i] = f[i]}
<1>5. 0 \in Good
  BY <1>1, <1>4
<1>6. ASSUME NEW i \in 1 .. n, i - 1 \in Good PROVE i \in Good
  <2>1. i \in 0 .. n /\ i # 0
    BY <1>1
  <2>2. g[i] = g[i - 1] + numbers[i]
    BY <1>4, <2>1
  <2> QED
    BY <1>1, <1>6, <2>1, <2>2
<1>7. \A i \in 0 .. n : i \in Good
  <2> HIDE DEF Good
  <2> QED
    BY <1>1, <1>5, <1>6, RoundsInduction
<1>8. n \in 0 .. n
  BY <1>1
<1> QED
  BY <1>2, <1>7, <1>8, <1>a

(* A sum is a number, *)
LEMMA TotalTypes ==
  ASSUME NEW numbers \in Seq(Int)
  PROVE  Total(numbers) \in Int
<1>1. PICK f : Adds(f, numbers)
  BY AddingExists
<1>2. Len(numbers) \in 0 .. Len(numbers)
  OBVIOUS
<1> QED
  BY <1>1, <1>2, TotalAdds DEF Adds

(* and of two sequences one after the other it is that of their sums. *)
LEMMA TotalConcat ==
  ASSUME NEW s \in Seq(Int), NEW t \in Seq(Int)
  PROVE  Total(s \o t) = Total(s) + Total(t)
<1> DEFINE both == s \o t
           n == Len(s)
           m == Len(t)
<1>1. /\ n \in Nat /\ m \in Nat /\ both \in Seq(Int) /\ Len(both) = n + m
      /\ \A i \in 1 .. (n + m) : both[i] = IF i <= n THEN s[i] ELSE t[i - n]
  BY ConcatProperties
<1>2. PICK f : Adds(f, both)
  BY <1>1, AddingExists
<1>3. /\ f \in [0 .. (n + m) -> Int] /\ f[0] = 0
      /\ \A i \in 1 .. (n + m) : f[i] = f[i - 1] + both[i]
  BY <1>1, <1>2 DEF Adds
<1>4. Total(both) = f[n + m]
  BY <1>1, <1>2, TotalAdds
<1>a. n = Len(s) /\ m = Len(t)
  OBVIOUS
<1> HIDE DEF both, n, m
<1> DEFINE g == [i \in 0 .. n |-> f[i]]
           h == [i \in 0 .. m |-> f[n + i] - f[n]]
<1>5. /\ \A i \in 0 .. n : i \in 0 .. (n + m)
      /\ \A i \in 0 .. m : n + i \in 0 .. (n + m)
      /\ n \in 0 .. n /\ m \in 0 .. m
  BY <1>1
<1>6. Adds(g, s)
  <2>1. g \in [0 .. n -> Int] /\ g[0] = 0
    BY <1>1, <1>3, <1>5
  <2>2. ASSUME NEW i \in 1 .. n PROVE g[i] = g[i - 1] + s[i]
    <3>1. i \in 1 .. (n + m) /\ i <= n /\ i \in 0 .. n /\ i - 1 \in 0 .. n
      BY <1>1
    <3> QED
      BY <1>1, <1>3, <3>1
  <2> QED
    BY <1>a, <2>1, <2>2 DEF Adds
<1>7. Adds(h, t)
  <2>1. \A i \in 0 .. m : f[n + i] \in Int /\ f[n] \in Int
    BY <1>3, <1>5
  <2>2. h \in [0 .. m -> Int] /\ h[0] = 0
    <3>1. n + 0 = n /\ 0 \in 0 .. m
      BY <1>1
    <3>2. \A i \in 0 .. m : f[n + i] - f[n] \in Int
      BY <2>1
    <3>3. h[0] = f[n] - f[n] /\ f[n] \in Int
      BY <2>1, <3>1
    <3> QED
      BY <3>2, <3>3
  <2>3. ASSUME NEW i \in 1 .. m PROVE h[i] = h[i - 1] + t[i]
    <3>1. /\ n + i \in 1 .. (n + m) /\ ~ (n + i <= n) /\ i \in 0 .. m /\ i - 1 \in 0 .. m
          /\ (n + i) - n = i /\ (n + i) - 1 = n + (i - 1)
      BY <1>1
    <3>2. f[n + i] = f[n + (i - 1)] + t[i]
      BY <1>1, <1>3, <3>1
    <3>3. h[i] = f[n + i] - f[n] /\ h[i - 1] = f[n + (i - 1)] - f[n]
      BY <3>1
    <3>4. f[n + (i - 1)] \in Int /\ f[n] \in Int /\ t[i] \in Int
      <4>1. t[i] \in Int
        BY <1>a
      <4> QED
        BY <2>1, <3>1, <4>1
    <3> QED
      BY <3>2, <3>3, <3>4
  <2> QED
    BY <1>a, <2>2, <2>3 DEF Adds
<1>8. Total(s) = f[n] /\ Total(t) = f[n + m] - f[n]
  <2>1. Total(s) = g[n] /\ Total(t) = h[m]
    BY <1>6, <1>7, <1>a, TotalAdds
  <2> QED
    BY <1>5, <2>1
<1>9. f[n] \in Int /\ f[n + m] \in Int
  BY <1>3, <1>5
<1> QED
  BY <1>4, <1>8, <1>9 DEF both

(* Nothing adds up to nothing.                                               *)
LEMMA TotalNothing == Total(<<>>) = 0
<1> DEFINE f == [i \in 0 .. 0 |-> 0]
<1>1. <<>> \in Seq(Int) /\ Len(<<>>) = 0
  OBVIOUS
<1>2. f \in [0 .. 0 -> Int] /\ f[0] = 0
  OBVIOUS
<1>3. Adds(f, <<>>)
  BY <1>2 DEF Adds
<1>4. Total(<<>>) = f[Len(<<>>)]
  <2> HIDE DEF f
  <2> QED
    BY <1>1, <1>3, TotalAdds
<1> QED
  BY <1>1, <1>2, <1>4


-----------------------------------------------------------------------------
(* The arena. *)

Contexts == Contracts \cup {Harness}
LogRecords == [from : Accounts, to : Accounts, amount : Amounts]
Moves == [token : Contexts, from : Accounts, to : Accounts, amount : Amounts]
RowsShown == ({"call"} \X Nat) \cup ({"log"} \X LogRecords)
Entries == [kind : {"Call", "Log"}, index : Nat]
Nodes == [parent : Nat, kind : {"CALL", "DELEGATECALL"}, address : Contexts,
          success : BOOLEAN, children : Seq(Nat), logs : Seq(LogRecords),
          ordering : Seq(Entries)]

(* The children of a node come after it, and its entries are of its children *)
(* and logs.                                                                 *)
Tree(a) ==
    /\ a \in Seq(Nodes)
    /\ \A i \in 1 .. Len(a) :
         /\ \A k \in 1 .. Len(a[i].children) : a[i].children[k] \in (i + 1) .. Len(a)
         /\ \A e \in 1 .. Len(a[i].ordering) :
              a[i].ordering[e].index \in
                1 .. (IF a[i].ordering[e].kind = "Log" THEN Len(a[i].logs)
                      ELSE Len(a[i].children))

(* The nodes of a tree, and the places their calls and logs point to.        *)
LEMMA TreeNodes ==
  ASSUME NEW a, Tree(a), NEW i \in 1 .. Len(a)
  PROVE  /\ a[i] \in Nodes /\ Len(a) \in Nat /\ DOMAIN a = 1 .. Len(a)
         /\ a[i].children \in Seq(Nat) /\ Len(a[i].children) \in Nat
         /\ DOMAIN a[i].children = 1 .. Len(a[i].children)
         /\ a[i].logs \in Seq(LogRecords) /\ Len(a[i].logs) \in Nat
         /\ DOMAIN a[i].logs = 1 .. Len(a[i].logs)
         /\ a[i].ordering \in Seq(Entries) /\ Len(a[i].ordering) \in Nat
         /\ DOMAIN a[i].ordering = 1 .. Len(a[i].ordering)
         /\ \A k \in 1 .. Len(a[i].children) :
              /\ a[i].children[k] \in (i + 1) .. Len(a)
              /\ a[i].children[k] \in 1 .. Len(a)
         /\ \A e \in 1 .. Len(a[i].ordering) :
              /\ a[i].ordering[e] \in Entries
              /\ a[i].ordering[e].kind = "Log" => a[i].ordering[e].index \in 1 .. Len(a[i].logs)
              /\ a[i].ordering[e].kind # "Log" =>
                    a[i].ordering[e].index \in 1 .. Len(a[i].children)
<1>1. /\ a \in Seq(Nodes) /\ a[i] \in Nodes /\ Len(a) \in Nat /\ DOMAIN a = 1 .. Len(a)
  BY DEF Tree
<1>2. /\ a[i].children \in Seq(Nat) /\ a[i].logs \in Seq(LogRecords)
      /\ a[i].ordering \in Seq(Entries)
  BY <1>1 DEF Nodes
<1>3. /\ Len(a[i].children) \in Nat /\ DOMAIN a[i].children = 1 .. Len(a[i].children)
      /\ Len(a[i].logs) \in Nat /\ DOMAIN a[i].logs = 1 .. Len(a[i].logs)
      /\ Len(a[i].ordering) \in Nat /\ DOMAIN a[i].ordering = 1 .. Len(a[i].ordering)
      /\ \A e \in 1 .. Len(a[i].ordering) : a[i].ordering[e] \in Entries
  BY <1>2
<1>4. /\ \A k \in 1 .. Len(a[i].children) : a[i].children[k] \in (i + 1) .. Len(a)
      /\ \A e \in 1 .. Len(a[i].ordering) :
            a[i].ordering[e].index \in
                1 .. (IF a[i].ordering[e].kind = "Log" THEN Len(a[i].logs)
                      ELSE Len(a[i].children))
  BY DEF Tree
<1>5. \A c \in (i + 1) .. Len(a) : c \in 1 .. Len(a)
  BY <1>1
<1>6. \A e \in 1 .. Len(a[i].ordering) :
         /\ a[i].ordering[e].kind = "Log" => a[i].ordering[e].index \in 1 .. Len(a[i].logs)
         /\ a[i].ordering[e].kind # "Log" => a[i].ordering[e].index \in 1 .. Len(a[i].children)
  BY <1>4
<1> QED
  BY <1>1, <1>2, <1>3, <1>4, <1>5, <1>6

(* The logs of a node as transfers, and what collectERC20Transfers makes of  *)
(* a node if f is what it makes of the later ones.                           *)
Own(node, context) ==
    [k \in DOMAIN node.logs |->
        [token |-> TokenContext(node, context), from |-> node.logs[k].from,
         to |-> node.logs[k].to, amount |-> node.logs[k].amount]]
OfChildren(node, context, f) ==
    [k \in DOMAIN node.children |-> f[node.children[k]][TokenContext(node, context)]]
CollectedOf(a, i, context, f) ==
    IF IsReverted(a, i) THEN <<>>
    ELSE Own(a[i], context) \o FlattenSeq(OfChildren(a[i], context, f))

(* Its parts are sequences of transfers. *)
LEMMA CollectedParts ==
  ASSUME NEW a, Tree(a), NEW i \in 1 .. Len(a), NEW context \in Contexts,
         NEW f \in [1 .. Len(a) -> [Contexts -> Seq(Moves)]]
  PROVE  /\ TokenContext(a[i], context) \in Contexts
         /\ Own(a[i], context) \in Seq(Moves)
         /\ OfChildren(a[i], context, f) \in Seq(Seq(Moves))
         /\ Len(OfChildren(a[i], context, f)) = Len(a[i].children)
         /\ CollectedOf(a, i, context, f) \in Seq(Moves)
<1> DEFINE node == a[i]
           token == TokenContext(node, context)
           own == Own(node, context)
           below == OfChildren(node, context, f)
<1>1. /\ node \in Nodes /\ Len(node.children) \in Nat
      /\ DOMAIN node.children = 1 .. Len(node.children)
      /\ node.logs \in Seq(LogRecords) /\ Len(node.logs) \in Nat
      /\ DOMAIN node.logs = 1 .. Len(node.logs)
      /\ \A k \in 1 .. Len(node.children) : node.children[k] \in 1 .. Len(a)
  BY TreeNodes
<1>2. token \in Contexts
  BY <1>1 DEF TokenContext, Nodes
<1>3. own \in Seq(Moves)
  <2>1. ASSUME NEW k \in 1 .. Len(node.logs)
        PROVE  [token |-> token, from |-> node.logs[k].from, to |-> node.logs[k].to,
                amount |-> node.logs[k].amount] \in Moves
    <3>1. node.logs[k] \in LogRecords
      BY <1>1
    <3> HIDE DEF token, node
    <3> QED
      BY <1>2, <3>1 DEF LogRecords, Moves
  <2>2. own = [k \in 1 .. Len(node.logs) |->
                 [token |-> token, from |-> node.logs[k].from, to |-> node.logs[k].to,
                  amount |-> node.logs[k].amount]]
    BY <1>1 DEF Own
  <2> HIDE DEF own, node, token
  <2> QED
    BY <1>1, <2>1, <2>2
<1>4. below \in Seq(Seq(Moves)) /\ Len(below) = Len(node.children)
  <2>1. below = [k \in 1 .. Len(node.children) |-> f[node.children[k]][token]]
    BY <1>1 DEF OfChildren
  <2>2. \A k \in 1 .. Len(node.children) : f[node.children[k]][token] \in Seq(Moves)
    BY <1>1, <1>2
  <2> HIDE DEF below, node, token
  <2> QED
    BY <1>1, <2>1, <2>2
<1>5. FlattenSeq(below) \in Seq(Moves)
  BY <1>4, FlattenTypes
<1>6. own \o FlattenSeq(below) \in Seq(Moves)
  <2> HIDE DEF own, below
  <2> QED
    BY <1>3, <1>5, ConcatProperties
<1>7. CollectedOf(a, i, context, f) \in Seq(Moves)
  BY <1>6 DEF CollectedOf
<1> QED
  BY <1>2, <1>3, <1>4, <1>7

(* collectERC20Transfers is well defined. *)
LEMMA CollectedRecursion ==
  ASSUME NEW a, Tree(a)
  PROVE  /\ Collected(a) \in [1 .. Len(a) -> [Contexts -> Seq(Moves)]]
         /\ \A i \in 1 .. Len(a), context \in Contexts :
               Collected(a)[i][context] = CollectedOf(a, i, context, Collected(a))
<1> DEFINE n == Len(a)
           A == [Contexts -> Seq(Moves)]
           G == [1 .. n -> A]
           any == [context \in Contexts |-> <<>>]
           Step(i, f) == [context \in Contexts |-> CollectedOf(a, i, context, f)]
           step == [q \in (1 .. n) \X G |-> Step(q[1], q[2])]
           Fits(f) == f = [i \in DOMAIN a |-> Step(i, f)]
<1>1. n \in Nat /\ DOMAIN a = 1 .. n
  BY DEF Tree
<1>2. any \in A
  OBVIOUS
<1>3. ASSUME NEW i \in 1 .. n, NEW f \in G PROVE Step(i, f) \in A
  BY CollectedParts
<1>4. ASSUME NEW i \in 1 .. n, NEW g \in G, NEW h \in G, \A j \in (i + 1) .. n : g[j] = h[j]
      PROVE  Step(i, g) = Step(i, h)
  <2>1. ASSUME NEW context \in Contexts
        PROVE  OfChildren(a[i], context, g) = OfChildren(a[i], context, h)
    <3>1. \A k \in DOMAIN a[i].children : a[i].children[k] \in (i + 1) .. n
      BY TreeNodes
    <3> QED
      BY <1>4, <3>1 DEF OfChildren
  <2>2. ASSUME NEW context \in Contexts
        PROVE  CollectedOf(a, i, context, g) = CollectedOf(a, i, context, h)
    BY <2>1 DEF CollectedOf
  <2> QED
    BY <2>2
<1> HIDE DEF n, A, G, any, Step
<1>5. \A i \in 1 .. n, f \in G : step[<<i, f>>] = Step(i, f)
  OBVIOUS
<1> HIDE DEF step
<1>6. PICK f \in G : \A i \in 1 .. n : f[i] = step[<<i, f>>]
  <2>1. ASSUME NEW i \in 1 .. n, NEW g \in [1 .. n -> A] PROVE step[<<i, g>>] \in A
    BY <1>3, <1>5 DEF G
  <2>2. ASSUME NEW i \in 1 .. n, NEW g \in [1 .. n -> A], NEW h \in [1 .. n -> A],
               \A j \in (i + 1) .. n : g[j] = h[j]
        PROVE  step[<<i, g>>] = step[<<i, h>>]
    <3>1. Step(i, g) = Step(i, h)
      BY <1>4, <2>2 DEF G
    <3> QED
      BY <1>5, <3>1 DEF G
  <2>3. \E f \in [1 .. n -> A] : \A i \in 1 .. n : f[i] = step[<<i, f>>]
    <3>1. \A i \in 1 .. n, g, h \in [1 .. n -> A] :
             (\A j \in (i + 1) .. n : g[j] = h[j]) => step[<<i, g>>] = step[<<i, h>>]
      BY <2>2
    <3>2. \A i \in 1 .. n, g \in [1 .. n -> A] : step[<<i, g>>] \in A
      BY <2>1
    <3>3. LooksLater(step, n, A)
      BY <3>1, <3>2 DEF LooksLater
    <3> HIDE DEF Fits
    <3> QED
      BY <1>1, <1>2, <3>3, DescentExists
  <2> QED
    BY <2>3 DEF G
<1>7. Fits(f)
  BY <1>1, <1>5, <1>6 DEF G
<1>8. Collected(a) = CHOOSE g : Fits(g)
  BY DEF Collected, Step, CollectedOf, Own, OfChildren, Contexts
<1>9. Fits(Collected(a))
  <2> HIDE DEF Fits
  <2> QED
    BY <1>7, <1>8
<1> DEFINE c == Collected(a)
<1> HIDE DEF c
<1>10. c = [i \in 1 .. n |-> Step(i, c)]
  BY <1>1, <1>9 DEF c
<1>11. \A i \in 1 .. n : c[i] = Step(i, c)
  BY <1>10
<1> DEFINE Good == {i \in 1 .. n : c[i] \in A}
<1>12. ASSUME NEW i \in 1 .. n, \A j \in (i + 1) .. n : j \in Good PROVE i \in Good
  <2> DEFINE g == [j \in 1 .. n |-> IF j \in Good THEN c[j] ELSE any]
  <2>1. g \in G
    BY <1>2 DEF G
  <2>2. Step(i, c) = Step(i, g)
    <3>1. ASSUME NEW context \in Contexts
          PROVE  OfChildren(a[i], context, c) = OfChildren(a[i], context, g)
      <4>1. \A k \in DOMAIN a[i].children :
               a[i].children[k] \in (i + 1) .. n /\ a[i].children[k] \in 1 .. n
        BY TreeNodes DEF n
      <4>2. \A k \in DOMAIN a[i].children : g[a[i].children[k]] = c[a[i].children[k]]
        BY <1>12, <4>1
      <4> HIDE DEF g
      <4> QED
        BY <4>2 DEF OfChildren
    <3>2. ASSUME NEW context \in Contexts
          PROVE  CollectedOf(a, i, context, c) = CollectedOf(a, i, context, g)
      BY <3>1 DEF CollectedOf
    <3> QED
      BY <3>2 DEF Step
  <2> HIDE DEF g
  <2> QED
    BY <1>3, <1>11, <2>1, <2>2
<1>13. \A i \in 1 .. n : i \in Good
  <2> HIDE DEF Good
  <2> QED
    BY <1>1, <1>12, LaterFirst
<1>14. c \in [1 .. n -> A]
  BY <1>10, <1>13
<1>15. ASSUME NEW i \in 1 .. n, NEW context \in Contexts
       PROVE  c[i][context] = CollectedOf(a, i, context, c)
  BY <1>11 DEF Step
<1> QED
  BY <1>14, <1>15 DEF c, n, A


-----------------------------------------------------------------------------
(* The rows of a node, if f gives those of the later nodes. *)
EntryRow(node, entry, f) ==
    IF entry.kind = "Log" THEN <<<<"log", node.logs[entry.index]>>>>
    ELSE f[CallIDFromOrdering(node, entry.index)]
EntryRows(node, f) == [k \in DOMAIN node.ordering |-> EntryRow(node, node.ordering[k], f)]
NodeRows(a, i, f) == <<<<"call", i>>>> \o FlattenSeq(EntryRows(a[i], f))

(* They are rows. *)
LEMMA NodeRowsTypes ==
  ASSUME NEW a, Tree(a), NEW i \in 1 .. Len(a), NEW f \in [1 .. Len(a) -> Seq(RowsShown)]
  PROVE  /\ EntryRows(a[i], f) \in Seq(Seq(RowsShown))
         /\ Len(EntryRows(a[i], f)) = Len(a[i].ordering)
         /\ NodeRows(a, i, f) \in Seq(RowsShown)
<1> DEFINE node == a[i]
           rows == EntryRows(node, f)
<1>1. /\ Len(node.ordering) \in Nat /\ DOMAIN node.ordering = 1 .. Len(node.ordering)
      /\ node.logs \in Seq(LogRecords)
      /\ \A k \in 1 .. Len(node.children) : node.children[k] \in 1 .. Len(a)
      /\ \A e \in 1 .. Len(node.ordering) :
           /\ node.ordering[e].kind = "Log" => node.ordering[e].index \in 1 .. Len(node.logs)
           /\ node.ordering[e].kind # "Log" => node.ordering[e].index \in 1 .. Len(node.children)
  BY TreeNodes
<1>2. ASSUME NEW e \in 1 .. Len(node.ordering)
      PROVE  EntryRow(node, node.ordering[e], f) \in Seq(RowsShown)
  <2>1. CASE node.ordering[e].kind = "Log"
    <3>1. node.logs[node.ordering[e].index] \in LogRecords
      BY <1>1, <2>1
    <3> DEFINE row == <<"log", node.logs[node.ordering[e].index]>>
    <3>2. row \in RowsShown
      BY <3>1 DEF RowsShown
    <3> HIDE DEF row
    <3>3. <<row>> \in Seq(RowsShown)
      BY <3>2
    <3> QED
      BY <2>1, <3>3 DEF row, EntryRow
  <2>2. CASE node.ordering[e].kind # "Log"
    <3>1. node.children[node.ordering[e].index] \in 1 .. Len(a)
      BY <1>1, <2>2
    <3> QED
      BY <2>2, <3>1 DEF EntryRow, CallIDFromOrdering
  <2> QED
    BY <2>1, <2>2
<1>3. rows = [k \in 1 .. Len(node.ordering) |-> EntryRow(node, node.ordering[k], f)]
  BY <1>1 DEF EntryRows
<1>4. rows \in Seq(Seq(RowsShown)) /\ Len(rows) = Len(node.ordering)
  <2> HIDE DEF rows, node
  <2> QED
    BY <1>1, <1>2, <1>3
<1>5. FlattenSeq(rows) \in Seq(RowsShown)
  BY <1>4, FlattenTypes
<1>6. <<<<"call", i>>>> \in Seq(RowsShown)
  <2>1. i \in Nat
    BY TreeNodes
  <2>2. <<"call", i>> \in RowsShown
    BY <2>1 DEF RowsShown
  <2> QED
    BY <2>2
<1>7. NodeRows(a, i, f) \in Seq(RowsShown)
  <2> HIDE DEF rows
  <2>1. NodeRows(a, i, f) = <<<<"call", i>>>> \o FlattenSeq(rows)
    BY DEF NodeRows, rows
  <2> DEFINE own == <<<<"call", i>>>>
             flat == FlattenSeq(rows)
  <2> HIDE DEF own, flat
  <2>2. own \o flat \in Seq(RowsShown)
    BY <1>5, <1>6, ConcatProperties DEF own, flat
  <2> QED
    BY <2>1, <2>2 DEF own, flat
<1> QED
  BY <1>4, <1>7

(* They depend on the later nodes alone. *)
LEMMA NodeRowsLater ==
  ASSUME NEW a, Tree(a), NEW i \in 1 .. Len(a), NEW f, NEW g,
         \A j \in (i + 1) .. Len(a) : f[j] = g[j]
  PROVE  NodeRows(a, i, f) = NodeRows(a, i, g)
<1>1. \A e \in DOMAIN a[i].ordering : a[i].ordering[e].kind # "Log" =>
         a[i].children[a[i].ordering[e].index] \in (i + 1) .. Len(a)
  BY TreeNodes
<1>2. \A e \in DOMAIN a[i].ordering :
         EntryRow(a[i], a[i].ordering[e], f) = EntryRow(a[i], a[i].ordering[e], g)
  BY <1>1 DEF EntryRow, CallIDFromOrdering
<1>3. EntryRows(a[i], f) = EntryRows(a[i], g)
  BY <1>2 DEF EntryRows
<1> QED
  BY <1>3 DEF NodeRows

(* The tree of the frontend is well defined. *)
LEMMA RowsRecursion ==
  ASSUME NEW a, Tree(a)
  PROVE  /\ Rows(a) \in [1 .. Len(a) -> Seq(RowsShown)]
         /\ \A i \in 1 .. Len(a) : Rows(a)[i] = NodeRows(a, i, Rows(a))
<1> DEFINE n == Len(a)
           A == Seq(RowsShown)
           G == [1 .. n -> A]
           Step(i, f) == NodeRows(a, i, f)
           step == [q \in (1 .. n) \X G |-> Step(q[1], q[2])]
           Fits(f) == f = [i \in DOMAIN a |-> Step(i, f)]
<1>1. n \in Nat /\ DOMAIN a = 1 .. n
  BY DEF Tree
<1>2. <<>> \in A
  OBVIOUS
<1>3. ASSUME NEW i \in 1 .. n, NEW f \in G PROVE Step(i, f) \in A
  BY NodeRowsTypes
<1>4. ASSUME NEW i \in 1 .. n, NEW g, NEW h, \A j \in (i + 1) .. n : g[j] = h[j]
      PROVE  Step(i, g) = Step(i, h)
  BY <1>4, NodeRowsLater
<1>a. Rows(a) = CHOOSE g : Fits(g)
  BY DEF Rows, NodeRows, EntryRows, EntryRow, OrderedEntries
<1> HIDE DEF n, A, G, Step
<1>5. \A i \in 1 .. n, f \in G : step[<<i, f>>] = Step(i, f)
  OBVIOUS
<1> HIDE DEF step, Fits
<1>6. PICK f \in G : \A i \in 1 .. n : f[i] = step[<<i, f>>]
  <2>1. ASSUME NEW i \in 1 .. n, NEW g \in [1 .. n -> A] PROVE step[<<i, g>>] \in A
    BY <1>3, <1>5 DEF G
  <2>2. ASSUME NEW i \in 1 .. n, NEW g \in [1 .. n -> A], NEW h \in [1 .. n -> A],
               \A j \in (i + 1) .. n : g[j] = h[j]
        PROVE  step[<<i, g>>] = step[<<i, h>>]
    <3>1. Step(i, g) = Step(i, h)
      BY <1>4, <2>2
    <3> QED
      BY <1>5, <3>1 DEF G
  <2>3. LooksLater(step, n, A)
    BY <2>1, <2>2 DEF LooksLater
  <2> QED
    BY <1>1, <1>2, <2>3, DescentExists DEF G
<1>7. Fits(f)
  BY <1>1, <1>5, <1>6 DEF G, Fits
<1>8. Fits(Rows(a))
  BY <1>7, <1>a
<1> DEFINE c == Rows(a)
<1> HIDE DEF c
<1>10. c = [i \in 1 .. n |-> Step(i, c)]
  BY <1>1, <1>8 DEF c, Fits
<1>11. \A i \in 1 .. n : c[i] = Step(i, c)
  BY <1>10
<1> DEFINE Good == {i \in 1 .. n : c[i] \in A}
<1>12. ASSUME NEW i \in 1 .. n, \A j \in (i + 1) .. n : j \in Good PROVE i \in Good
  <2> DEFINE g == [j \in 1 .. n |-> IF j \in Good THEN c[j] ELSE <<>>]
  <2>1. g \in G
    BY <1>2 DEF G
  <2>2. \A j \in (i + 1) .. n : g[j] = c[j]
    <3>1. \A j \in (i + 1) .. n : j \in 1 .. n /\ j \in Good
      BY <1>12, <1>1
    <3> HIDE DEF Good
    <3> QED
      BY <3>1
  <2> HIDE DEF g
  <2>3. Step(i, c) = Step(i, g)
    BY <1>4, <2>2
  <2> QED
    BY <1>3, <1>11, <2>1, <2>3
<1>13. \A i \in 1 .. n : i \in Good
  <2> HIDE DEF Good
  <2> QED
    BY <1>1, <1>12, LaterFirst
<1>14. c \in [1 .. n -> A]
  BY <1>10, <1>13
<1> QED
  BY <1>11, <1>14 DEF c, n, A, Step


-----------------------------------------------------------------------------
(* Transfers are counted and added up alike, by giving each a weight. *)
Weights == [Moves -> Int]
Weight(mu, s) == Total([i \in DOMAIN s |-> mu[s[i]]])

(* The sum of one number. *)
LEMMA TotalOne ==
  ASSUME NEW x \in Int
  PROVE  Total(<<x>>) = x
<1> DEFINE f == [i \in 0 .. 1 |-> IF i = 0 THEN 0 ELSE x]
<1>1. <<x>> \in Seq(Int) /\ Len(<<x>>) = 1 /\ <<x>>[1] = x
  OBVIOUS
<1>2. f \in [0 .. 1 -> Int] /\ f[0] = 0 /\ f[1] = x
  OBVIOUS
<1> HIDE DEF f
<1>3. ASSUME NEW i \in 1 .. 1 PROVE f[i] = f[i - 1] + <<x>>[i]
  <2>1. i = 1 /\ i - 1 = 0 /\ 0 + x = x
    OBVIOUS
  <2> QED
    BY <1>1, <1>2, <2>1
<1>4. Adds(f, <<x>>)
  BY <1>1, <1>2, <1>3 DEF Adds
<1> QED
  BY <1>1, <1>2, <1>4, TotalAdds

(* The numbers that are summed. *)
LEMMA WeightNumbers ==
  ASSUME NEW mu \in Weights, NEW s \in Seq(Moves)
  PROVE  /\ [i \in DOMAIN s |-> mu[s[i]]] \in Seq(Int)
         /\ Len([i \in DOMAIN s |-> mu[s[i]]]) = Len(s)
         /\ Weight(mu, s) \in Int
<1>1. \A i \in 1 .. Len(s) : mu[s[i]] \in Int
  BY DEF Weights
<1>2. DOMAIN s = 1 .. Len(s) /\ Len(s) \in Nat
  OBVIOUS
<1>3. [i \in 1 .. Len(s) |-> mu[s[i]]] \in Seq(Int)
  BY <1>1, <1>2
<1>4. Len([i \in 1 .. Len(s) |-> mu[s[i]]]) = Len(s)
  BY <1>2
<1> QED
  BY <1>2, <1>3, <1>4, TotalTypes DEF Weight

(* No transfer weighs nothing, one its weight, several their sum. *)
LEMMA WeightNothing == \A mu : Weight(mu, <<>>) = 0
<1> TAKE mu
<1>1. [i \in DOMAIN <<>> |-> mu[<<>>[i]]] = <<>>
  OBVIOUS
<1> QED
  BY <1>1, TotalNothing DEF Weight

(* The weights of lists put together add up,                                 *)
LEMMA WeightConcat ==
  ASSUME NEW mu \in Weights, NEW s \in Seq(Moves), NEW t \in Seq(Moves)
  PROVE  Weight(mu, s \o t) = Weight(mu, s) + Weight(mu, t)
<1> DEFINE ms == [i \in DOMAIN s |-> mu[s[i]]]
           mt == [i \in DOMAIN t |-> mu[t[i]]]
           both == s \o t
           m == [i \in DOMAIN both |-> mu[both[i]]]
<1>1. /\ Len(s) \in Nat /\ Len(t) \in Nat
      /\ DOMAIN s = 1 .. Len(s) /\ DOMAIN t = 1 .. Len(t)
  OBVIOUS
<1>2. /\ both \in Seq(Moves) /\ Len(both) = Len(s) + Len(t)
      /\ \A i \in 1 .. (Len(s) + Len(t)) : both[i] = IF i <= Len(s) THEN s[i] ELSE t[i - Len(s)]
  BY ConcatProperties
<1>3. ms \in Seq(Int) /\ Len(ms) = Len(s) /\ mt \in Seq(Int) /\ Len(mt) = Len(t)
  BY WeightNumbers
<1> HIDE DEF both
<1>4. m \in Seq(Int) /\ Len(m) = Len(s) + Len(t)
  BY <1>2, WeightNumbers
<1>5. DOMAIN both = 1 .. (Len(s) + Len(t))
  BY <1>2
<1>6. /\ \A i \in 1 .. Len(s) : ms[i] = mu[s[i]]
      /\ \A i \in 1 .. Len(t) : mt[i] = mu[t[i]]
      /\ \A i \in 1 .. (Len(s) + Len(t)) : m[i] = mu[both[i]]
  BY <1>1, <1>5
<1>w. Weight(mu, s) = Total(ms) /\ Weight(mu, t) = Total(mt) /\ Weight(mu, both) = Total(m)
  BY DEF Weight
<1> HIDE DEF ms, mt, m
<1>7. ASSUME NEW i \in 1 .. (Len(s) + Len(t)) PROVE m[i] = (ms \o mt)[i]
  <2>1. (ms \o mt)[i] = IF i <= Len(s) THEN ms[i] ELSE mt[i - Len(s)]
    BY <1>3, ConcatProperties
  <2>2. CASE i <= Len(s)
    <3>1. i \in 1 .. Len(s)
      BY <1>1, <2>2
    <3> QED
      BY <1>2, <1>6, <2>1, <2>2, <3>1
  <2>3. CASE ~ (i <= Len(s))
    <3>1. i - Len(s) \in 1 .. Len(t)
      BY <1>1, <2>3
    <3> QED
      BY <1>2, <1>6, <2>1, <2>3, <3>1
  <2> QED
    BY <2>2, <2>3
<1>8. ms \o mt \in Seq(Int) /\ Len(ms \o mt) = Len(s) + Len(t)
  <2> DEFINE A == Int
  <2>1. ms \in Seq(A) /\ mt \in Seq(A)
    BY <1>3
  <2> HIDE DEF A
  <2>2. ms \o mt \in Seq(A) /\ Len(ms \o mt) = Len(ms) + Len(mt)
    BY <2>1, ConcatProperties
  <2> QED
    BY <1>3, <2>2 DEF A
<1>9. m = ms \o mt
  BY <1>4, <1>7, <1>8, SeqEqual
<1> QED
  BY <1>3, <1>9, <1>w, TotalConcat DEF both

(* one transfer weighs what mu says,                                         *)
LEMMA WeightOne ==
  ASSUME NEW mu \in Weights, NEW x \in Moves
  PROVE  Weight(mu, <<x>>) = mu[x]
<1>1. [i \in DOMAIN <<x>> |-> mu[<<x>>[i]]] = <<mu[x]>>
  OBVIOUS
<1>2. mu[x] \in Int
  BY DEF Weights
<1> QED
  BY <1>1, <1>2, TotalOne DEF Weight

(* and so does one that is appended.                                         *)
LEMMA WeightAppend ==
  ASSUME NEW mu \in Weights, NEW s \in Seq(Moves), NEW x \in Moves
  PROVE  Weight(mu, Append(s, x)) = Weight(mu, s) + mu[x]
<1>1. Append(s, x) = s \o <<x>> /\ <<x>> \in Seq(Moves)
  OBVIOUS
<1> QED
  BY <1>1, WeightConcat, WeightOne


-----------------------------------------------------------------------------
(* Two states of an arena: what is not in P, nor leads to it, is read alike. *)
SameCalls(m, n) == m.children = n.children /\ m.logs = n.logs /\ m.ordering = n.ordering
Apart(a, P) == \A i \in 1 .. Len(a) : i \notin P =>
                  \A k \in 1 .. Len(a[i].children) : a[i].children[k] \notin P

(* The rows of a node are those of before if nothing at or below it changed, *)
LEMMA SameRows ==
  ASSUME NEW a, Tree(a), NEW b, Tree(b), Len(a) <= Len(b), NEW P, Apart(a, P),
         \A i \in 1 .. Len(a) : i \notin P => SameCalls(a[i], b[i])
  PROVE  \A i \in 1 .. Len(a) : i \notin P => Rows(b)[i] = Rows(a)[i]
<1> DEFINE n == Len(a)
           Good == {i \in 1 .. n : i \notin P => Rows(b)[i] = Rows(a)[i]}
<1>1. /\ n \in Nat /\ \A i \in 1 .. n : i \in 1 .. Len(b)
      /\ \A i \in 1 .. n : Rows(a)[i] = NodeRows(a, i, Rows(a))
      /\ \A i \in 1 .. n : Rows(b)[i] = NodeRows(b, i, Rows(b))
  <2>1. n \in Nat /\ Len(b) \in Nat
    BY DEF Tree
  <2>2. \A i \in 1 .. n : i \in 1 .. Len(b)
    BY <2>1
  <2>3. \A i \in 1 .. n : Rows(a)[i] = NodeRows(a, i, Rows(a))
    BY RowsRecursion
  <2>4. \A i \in 1 .. Len(b) : Rows(b)[i] = NodeRows(b, i, Rows(b))
    BY RowsRecursion
  <2> QED
    BY <2>1, <2>2, <2>3, <2>4
<1>2. ASSUME NEW i \in 1 .. n, \A j \in (i + 1) .. n : j \in Good, i \notin P
      PROVE  Rows(b)[i] = Rows(a)[i]
  <2>1. SameCalls(a[i], b[i])
    BY <1>2
  <2>2. ASSUME NEW e \in DOMAIN a[i].ordering
        PROVE  EntryRow(b[i], a[i].ordering[e], Rows(b)) = EntryRow(a[i], a[i].ordering[e], Rows(a))
    <3>1. CASE a[i].ordering[e].kind = "Log"
      BY <2>1, <3>1 DEF EntryRow, SameCalls
    <3>2. CASE a[i].ordering[e].kind # "Log"
      <4> DEFINE k == a[i].ordering[e].index
                 c == a[i].children[k]
      <4>1. k \in 1 .. Len(a[i].children)
        BY <3>2, TreeNodes
      <4>2. c \in (i + 1) .. n
        BY <4>1, TreeNodes
      <4>3. c \notin P
        BY <1>2, <4>1 DEF Apart
      <4>4. Rows(b)[c] = Rows(a)[c]
        BY <1>2, <4>2, <4>3
      <4> QED
        BY <2>1, <3>2, <4>4 DEF EntryRow, SameCalls, CallIDFromOrdering
    <3> QED
      BY <3>1, <3>2
  <2>3. EntryRows(b[i], Rows(b)) = EntryRows(a[i], Rows(a))
    BY <2>1, <2>2 DEF EntryRows, SameCalls
  <2> QED
    BY <1>1, <2>3 DEF NodeRows
<1>3. ASSUME NEW i \in 1 .. n, \A j \in (i + 1) .. n : j \in Good PROVE i \in Good
  BY <1>2, <1>3
<1>4. \A i \in 1 .. n : i \in Good
  <2> HIDE DEF Good
  <2> QED
    BY <1>1, <1>3, LaterFirst
<1> QED
  BY <1>4

(* and so are the transfers collected from it.                               *)
LEMMA SameCollected ==
  ASSUME NEW a, Tree(a), NEW b, Tree(b), Len(a) <= Len(b), NEW P, Apart(a, P),
         \A i \in 1 .. Len(a) : i \notin P => a[i] = b[i]
  PROVE  \A i \in 1 .. Len(a), context \in Contexts :
            i \notin P => Collected(b)[i][context] = Collected(a)[i][context]
<1> DEFINE n == Len(a)
           Good == {i \in 1 .. n : i \notin P =>
                      \A context \in Contexts : Collected(b)[i][context] = Collected(a)[i][context]}
<1>1. n \in Nat /\ \A i \in 1 .. n : i \in 1 .. Len(b)
  <2>1. n \in Nat /\ Len(b) \in Nat
    BY DEF Tree
  <2> QED
    BY <2>1
<1>a. /\ \A i \in 1 .. n, context \in Contexts :
           Collected(a)[i][context] = CollectedOf(a, i, context, Collected(a))
      /\ Collected(a) \in [1 .. n -> [Contexts -> Seq(Moves)]]
  BY CollectedRecursion
<1>b. /\ \A i \in 1 .. Len(b), context \in Contexts :
           Collected(b)[i][context] = CollectedOf(b, i, context, Collected(b))
      /\ Collected(b) \in [1 .. Len(b) -> [Contexts -> Seq(Moves)]]
  BY CollectedRecursion
<1>2. ASSUME NEW i \in 1 .. n, \A j \in (i + 1) .. n : j \in Good, i \notin P,
             NEW context \in Contexts
      PROVE  Collected(b)[i][context] = Collected(a)[i][context]
  <2>1. a[i] = b[i]
    BY <1>2
  <2>2. TokenContext(a[i], context) \in Contexts
    BY <1>a, CollectedParts
  <2>3. ASSUME NEW k \in DOMAIN a[i].children
        PROVE  Collected(b)[a[i].children[k]][TokenContext(a[i], context)]
                 = Collected(a)[a[i].children[k]][TokenContext(a[i], context)]
    <3>1. k \in 1 .. Len(a[i].children)
      BY TreeNodes
    <3>2. a[i].children[k] \in (i + 1) .. n
      BY <3>1, TreeNodes
    <3>3. a[i].children[k] \notin P
      BY <1>2, <3>1 DEF Apart
    <3> QED
      BY <1>2, <2>2, <3>2, <3>3
  <2>4. OfChildren(a[i], context, Collected(b)) = OfChildren(a[i], context, Collected(a))
    BY <2>3 DEF OfChildren
  <2>5. CollectedOf(b, i, context, Collected(b)) = CollectedOf(a, i, context, Collected(a))
    BY <2>1, <2>4 DEF CollectedOf, IsReverted
  <2> QED
    BY <1>1, <1>a, <1>b, <2>5
<1>3. ASSUME NEW i \in 1 .. n, \A j \in (i + 1) .. n : j \in Good PROVE i \in Good
  BY <1>2, <1>3
<1>4. \A i \in 1 .. n : i \in Good
  <2> HIDE DEF Good
  <2> QED
    BY <1>1, <1>3, LaterFirst
<1> QED
  BY <1>4


-----------------------------------------------------------------------------
(* The call stack is a path in the arena, from the harness along the last    *)
(* call of each frame, and nothing else leads into it.                       *)
FrameRecords == [node : Nat, context : Contexts, mark : Nat]
OpenNodes(fr) == {fr[k].node : k \in 1 .. Len(fr)}
LastCall(node) ==
    /\ Len(node.children) > 0 /\ Len(node.ordering) > 0
    /\ node.ordering[Len(node.ordering)].kind = "Call"
    /\ node.ordering[Len(node.ordering)].index = Len(node.children)
Path(a, fr) ==
    /\ fr \in Seq(FrameRecords) /\ Len(fr) > 0
    /\ \A k \in 1 .. Len(fr) : fr[k].node \in 1 .. Len(a) /\ a[fr[k].node].success
    /\ \A j, k \in 1 .. Len(fr) : j < k => fr[j].node < fr[k].node
    /\ \A k \in 1 .. (Len(fr) - 1) :
         /\ LastCall(a[fr[k].node])
         /\ a[fr[k].node].children[Len(a[fr[k].node].children)] = fr[k + 1].node
         /\ fr[k + 1].context = TokenContext(a[fr[k + 1].node], fr[k].context)
    /\ \A i \in 1 .. Len(a) : \A c \in 1 .. Len(a[i].children), k \in 1 .. Len(fr) :
         a[i].children[c] = fr[k].node =>
            k > 1 /\ i = fr[k - 1].node /\ c = Len(a[i].children)

(* The calls among the entries of a node are in the order of its children. *)
CallsInOrder(a) ==
    \A i \in 1 .. Len(a) : \A e, f \in 1 .. Len(a[i].ordering) :
        e < f /\ a[i].ordering[e].kind = "Call" /\ a[i].ordering[f].kind = "Call"
          => a[i].ordering[e].index < a[i].ordering[f].index

(* A node off the path of open frames has no open frame below it.            *)
LEMMA PathApart ==
  ASSUME NEW a, Tree(a), NEW fr, Path(a, fr)
  PROVE  Apart(a, OpenNodes(fr))
<1> SUFFICES ASSUME NEW i \in 1 .. Len(a), i \notin OpenNodes(fr),
                    NEW c \in 1 .. Len(a[i].children), a[i].children[c] \in OpenNodes(fr)
             PROVE  FALSE
  BY DEF Apart
<1>1. PICK k \in 1 .. Len(fr) : a[i].children[c] = fr[k].node
  BY DEF OpenNodes
<1>2. k > 1 /\ i = fr[k - 1].node
  BY <1>1 DEF Path
<1>3. k - 1 \in 1 .. Len(fr)
  <2>1. Len(fr) \in Nat
    BY DEF Path
  <2> QED
    BY <1>2, <2>1
<1> QED
  BY <1>2, <1>3 DEF OpenNodes

(* Each frame of the stack but the last has its own node and a last call,    *)
(* and its other calls have returned.                                        *)
LEMMA PathFrame ==
  ASSUME NEW a, Tree(a), NEW fr, Path(a, fr), NEW k \in 1 .. Len(fr)
  PROVE  /\ Len(fr) \in Nat /\ fr[k].node \in 1 .. Len(a) /\ fr[k].context \in Contexts
         /\ fr[k].mark \in Nat
         /\ fr[k] \in FrameRecords /\ fr[Len(fr)].node \in 1 .. Len(a)
         /\ k # Len(fr) =>
              /\ k + 1 \in 1 .. Len(fr) /\ fr[k].node # fr[Len(fr)].node
              /\ LastCall(a[fr[k].node])
              /\ a[fr[k].node].children[Len(a[fr[k].node].children)] = fr[k + 1].node
              /\ fr[k + 1].context = TokenContext(a[fr[k + 1].node], fr[k].context)
              /\ \A c \in 1 .. (Len(a[fr[k].node].children) - 1) :
                    a[fr[k].node].children[c] \notin OpenNodes(fr)
         /\ k = Len(fr) =>
              \A c \in 1 .. Len(a[fr[k].node].children) :
                    a[fr[k].node].children[c] \notin OpenNodes(fr)
<1> DEFINE m == Len(fr)
           i == fr[k].node
           node == a[i]
<1>1. m \in Nat /\ m > 0 /\ fr[k] \in FrameRecords /\ i \in 1 .. Len(a)
  BY DEF Path
<1>2. i \in Nat /\ fr[k].context \in Contexts /\ fr[k].mark \in Nat
  BY <1>1 DEF FrameRecords
<1>3. m \in 1 .. m /\ fr[m].node \in 1 .. Len(a)
  <2>1. m \in 1 .. m
    BY <1>1
  <2> QED
    BY <2>1 DEF Path
<1>4. Len(node.children) \in Nat
  BY <1>1, TreeNodes
<1>5. ASSUME k # m
      PROVE  /\ k + 1 \in 1 .. m /\ fr[k].node # fr[m].node
             /\ LastCall(node)
             /\ node.children[Len(node.children)] = fr[k + 1].node
             /\ fr[k + 1].context = TokenContext(a[fr[k + 1].node], fr[k].context)
             /\ \A c \in 1 .. (Len(node.children) - 1) : node.children[c] \notin OpenNodes(fr)
  <2>1. k + 1 \in 1 .. m /\ k \in 1 .. (m - 1) /\ k < m
    BY <1>1, <1>5
  <2>2. fr[k].node < fr[m].node
    BY <1>3, <2>1 DEF Path
  <2>3. fr[k].node # fr[m].node
    <3>1. fr[m].node \in Nat /\ fr[k].node \in Nat
      BY <1>1, <1>3 DEF Path
    <3> QED
      BY <2>2, <3>1
  <2>4. /\ LastCall(node) /\ node.children[Len(node.children)] = fr[k + 1].node
        /\ fr[k + 1].context = TokenContext(a[fr[k + 1].node], fr[k].context)
    BY <2>1 DEF Path
  <2>5. ASSUME NEW c \in 1 .. (Len(node.children) - 1), node.children[c] \in OpenNodes(fr)
        PROVE  FALSE
    <3>1. PICK j \in 1 .. m : node.children[c] = fr[j].node
      BY <2>5 DEF OpenNodes
    <3>2. c \in 1 .. Len(node.children) /\ c # Len(node.children)
      BY <1>4
    <3> QED
      BY <1>1, <3>1, <3>2 DEF Path
  <2> QED
    BY <2>1, <2>3, <2>4, <2>5
<1>6. ASSUME k = m, NEW c \in 1 .. Len(node.children), node.children[c] \in OpenNodes(fr)
      PROVE  FALSE
  <2>1. PICK j \in 1 .. m : node.children[c] = fr[j].node
    BY <1>6 DEF OpenNodes
  <2>2. j > 1 /\ i = fr[j - 1].node
    BY <1>1, <2>1 DEF Path
  <2>3. j - 1 \in 1 .. m /\ j - 1 < m
    BY <1>1, <2>2
  <2>4. fr[j - 1].node < fr[m].node
    BY <1>3, <2>3 DEF Path
  <2>5. i \in Nat
    BY <1>2
  <2> QED
    BY <1>6, <2>2, <2>4, <2>5
<1> QED
  BY <1>1, <1>2, <1>3, <1>5, <1>6


(* All nodes but t are as they were. *)
NodesKept(a, b, t) == \A i \in 1 .. Len(a) : i # t => b[i] = a[i]
ShowsMore(a, b, i, x) == Rows(b)[i] = Rows(a)[i] \o x
CallsKept(a, b, t) == \A i \in 1 .. Len(a) : i # t => SameCalls(a[i], b[i])

(* What the last frame shows more, every frame below it shows more, at its   *)
(* end.                                                                      *)
LEMMA RowsGrow ==
  ASSUME NEW a, Tree(a), CallsInOrder(a), NEW b, Tree(b), Len(a) <= Len(b),
         NEW fr, Path(a, fr),
         CallsKept(a, b, fr[Len(fr)].node),
         NEW x \in Seq(RowsShown),
         ShowsMore(a, b, fr[Len(fr)].node, x)
  PROVE  \A k \in 1 .. Len(fr) : ShowsMore(a, b, fr[k].node, x)
<1> DEFINE m == Len(fr)
           Good == {k \in 1 .. m : ShowsMore(a, b, fr[k].node, x)}
           P == OpenNodes(fr)
<1>1. m \in Nat /\ m > 0 /\ Len(a) \in Nat /\ Len(b) \in Nat
  BY DEF Path, Tree
<1>2. /\ Rows(a) \in [1 .. Len(a) -> Seq(RowsShown)]
      /\ \A i \in 1 .. Len(a) : Rows(a)[i] = NodeRows(a, i, Rows(a))
      /\ Rows(b) \in [1 .. Len(b) -> Seq(RowsShown)]
      /\ \A i \in 1 .. Len(b) : Rows(b)[i] = NodeRows(b, i, Rows(b))
  BY RowsRecursion
<1>3. \A i \in 1 .. Len(a) : i \notin P => Rows(b)[i] = Rows(a)[i]
  <2>1. fr[m].node \in P
    <3>1. m \in 1 .. m
      BY <1>1
    <3> QED
      BY <3>1 DEF OpenNodes
  <2>2. \A i \in 1 .. Len(a) : i \notin P => SameCalls(a[i], b[i])
    BY <2>1 DEF CallsKept
  <2> QED
    BY <2>2, PathApart, SameRows
<1>4. ASSUME NEW k \in 1 .. m, k # m, k + 1 \in Good
      PROVE  ShowsMore(a, b, fr[k].node, x)
  <2> DEFINE i == fr[k].node
             node == a[i]
             c == fr[k + 1].node
             ss == EntryRows(a[i], Rows(a))
             tt == EntryRows(b[i], Rows(b))
             l == Len(node.ordering)
             first == <<<<"call", i>>>>
  <2>1. /\ i \in 1 .. Len(a) /\ i \in 1 .. Len(b) /\ i # fr[m].node /\ LastCall(node)
        /\ node.children[Len(node.children)] = c
        /\ \A q \in 1 .. (Len(node.children) - 1) : node.children[q] \notin P
        /\ k + 1 \in 1 .. m
    <3>1. i \in 1 .. Len(a) /\ \A j \in 1 .. Len(a) : j \in 1 .. Len(b)
      BY <1>1, PathFrame
    <3> QED
      BY <1>4, <3>1, PathFrame
  <2>2. SameCalls(a[i], b[i])
    BY <2>1 DEF CallsKept
  <2>3. /\ ss \in Seq(Seq(RowsShown)) /\ Len(ss) = l
        /\ tt \in Seq(Seq(RowsShown)) /\ Len(tt) = l
    <3>1. ss \in Seq(Seq(RowsShown)) /\ Len(ss) = l
      BY <1>2, <2>1, NodeRowsTypes
    <3>2. tt \in Seq(Seq(RowsShown)) /\ Len(tt) = Len(b[i].ordering)
      BY <1>2, <2>1, NodeRowsTypes
    <3> QED
      BY <2>2, <3>1, <3>2 DEF SameCalls
  <2>4. l \in Nat /\ l > 0 /\ l \in 1 .. l /\ Len(node.children) \in Nat
        /\ DOMAIN node.ordering = 1 .. l /\ DOMAIN b[i].ordering = 1 .. l
    <3>1. l \in Nat /\ Len(node.children) \in Nat /\ DOMAIN node.ordering = 1 .. l
      BY <2>1, TreeNodes
    <3>2. l > 0
      BY <2>1 DEF LastCall
    <3>3. l \in 1 .. l
      BY <3>1, <3>2
    <3> QED
      BY <2>2, <3>1, <3>2, <3>3 DEF SameCalls
  <2>5. /\ \A e \in 1 .. l : ss[e] = EntryRow(node, node.ordering[e], Rows(a))
        /\ \A e \in 1 .. l : tt[e] = EntryRow(b[i], node.ordering[e], Rows(b))
    BY <2>2, <2>4 DEF EntryRows, SameCalls
  <2>6. ASSUME NEW e \in 1 .. (l - 1) PROVE ss[e] = tt[e]
    <3> DEFINE entry == node.ordering[e]
    <3>1. e \in 1 .. l /\ e < l
      BY <2>4
    <3>2. CASE entry.kind = "Log"
      BY <2>2, <2>5, <3>1, <3>2 DEF EntryRow, SameCalls
    <3>3. CASE entry.kind # "Log"
      <4>1. entry.kind = "Call"
        <5>1. entry \in Entries
          BY <2>1, <3>1, TreeNodes
        <5> QED
          BY <3>3, <5>1 DEF Entries
      <4>2. entry.index \in 1 .. Len(node.children)
        BY <2>1, <3>1, <3>3, TreeNodes
      <4>3. entry.index < Len(node.children)
        <5>1. entry.index < node.ordering[l].index
          BY <2>1, <2>4, <3>1, <4>1 DEF CallsInOrder, LastCall
        <5> QED
          BY <2>1, <5>1 DEF LastCall
      <4>4. entry.index \in 1 .. (Len(node.children) - 1)
        BY <2>4, <4>2, <4>3, BelowLast
      <4>5. node.children[entry.index] \in 1 .. Len(a) /\ node.children[entry.index] \notin P
        BY <2>1, <4>2, <4>4, TreeNodes
      <4>6. Rows(b)[node.children[entry.index]] = Rows(a)[node.children[entry.index]]
        BY <1>3, <4>5
      <4> QED
        BY <2>2, <2>5, <3>1, <3>3, <4>6 DEF EntryRow, SameCalls, CallIDFromOrdering
    <3> QED
      BY <3>2, <3>3
  <2>7. ss[l] = Rows(a)[c] /\ tt[l] = Rows(b)[c]
    BY <2>1, <2>2, <2>4, <2>5 DEF LastCall, EntryRow, SameCalls, CallIDFromOrdering
  <2>8. tt[l] = ss[l] \o x
    BY <1>4, <2>7 DEF ShowsMore
  <2>9. ss[l] \in Seq(RowsShown)
    BY <2>3, <2>4
  <2>a. Rows(a)[i] = first \o FlattenSeq(ss) /\ Rows(b)[i] = first \o FlattenSeq(tt)
    BY <1>2, <2>1 DEF NodeRows
  <2>b. first \in Seq(RowsShown)
    <3>1. i \in Nat
      BY <2>1
    <3>2. <<"call", i>> \in RowsShown
      BY <3>1 DEF RowsShown
    <3> QED
      BY <3>2
  <2> HIDE DEF ss, tt, l, first, i, node, c
  <2>10. first \o FlattenSeq(tt) = (first \o FlattenSeq(ss)) \o x
    <3>1. /\ Len(ss) > 0 /\ Len(tt) = Len(ss) /\ \A e \in 1 .. (Len(ss) - 1) : ss[e] = tt[e]
          /\ tt[Len(ss)] = ss[Len(ss)] \o x
      BY <2>3, <2>4, <2>6, <2>8
    <3> QED
      BY <2>3, <2>b, <3>1, FlattenLonger
  <2> QED
    BY <2>a, <2>10 DEF i, ShowsMore
<1>5. ASSUME NEW k \in 1 .. m, \A j \in (k + 1) .. m : j \in Good PROVE k \in Good
  <2>1. CASE k = m
    BY <2>1
  <2>2. CASE k # m
    <3>1. k + 1 \in (k + 1) .. m
      BY <1>1, <2>2
    <3>2. k + 1 \in Good
      BY <1>5, <3>1
    <3> QED
      BY <1>4, <2>2, <3>2
  <2> QED
    BY <2>1, <2>2
<1>6. \A k \in 1 .. m : k \in Good
  <2> HIDE DEF Good
  <2> QED
    BY <1>1, <1>5, LaterFirst
<1> QED
  BY <1>6

(* What the last frame weighs more, every frame of the transaction does.     *)
LEMMA WeightsGrow ==
  ASSUME NEW a, Tree(a), NEW b, Tree(b), Len(a) <= Len(b),
         NEW fr, Path(a, fr), Len(fr) > 1,
         NodesKept(a, b, fr[Len(fr)].node),
         NEW mu \in Weights, NEW d \in Int,
         Weight(mu, Collected(b)[fr[Len(fr)].node][fr[Len(fr) - 1].context])
           = Weight(mu, Collected(a)[fr[Len(fr)].node][fr[Len(fr) - 1].context]) + d
  PROVE  \A k \in 2 .. Len(fr) :
            Weight(mu, Collected(b)[fr[k].node][fr[k - 1].context])
              = Weight(mu, Collected(a)[fr[k].node][fr[k - 1].context]) + d
<1> DEFINE m == Len(fr)
           W(t, k) == Weight(mu, Collected(t)[fr[k].node][fr[k - 1].context])
           Good == {k \in 1 .. m : k = 1 \/ W(b, k) = W(a, k) + d}
           P == OpenNodes(fr)
<1>1. m \in Nat /\ m > 1 /\ Len(a) \in Nat /\ Len(b) \in Nat
  BY DEF Path, Tree
<1>2. /\ Collected(a) \in [1 .. Len(a) -> [Contexts -> Seq(Moves)]]
      /\ \A i \in 1 .. Len(a), context \in Contexts :
            Collected(a)[i][context] = CollectedOf(a, i, context, Collected(a))
  BY CollectedRecursion
<1>b. /\ Collected(b) \in [1 .. Len(b) -> [Contexts -> Seq(Moves)]]
      /\ \A i \in 1 .. Len(b), context \in Contexts :
            Collected(b)[i][context] = CollectedOf(b, i, context, Collected(b))
  BY CollectedRecursion
<1>3. \A i \in 1 .. Len(a), context \in Contexts :
         i \notin P => Collected(b)[i][context] = Collected(a)[i][context]
  <2>1. fr[m].node \in P
    <3>1. m \in 1 .. m
      BY <1>1
    <3> QED
      BY <3>1 DEF OpenNodes
  <2>2. \A i \in 1 .. Len(a) : i \notin P => a[i] = b[i]
    BY <2>1 DEF NodesKept
  <2> QED
    BY <2>2, PathApart, SameCollected
<1>4. ASSUME NEW k \in 1 .. m, k # m, k # 1, k + 1 \in Good
      PROVE  W(b, k) = W(a, k) + d
  <2> DEFINE i == fr[k].node
             node == a[i]
             c == fr[k + 1].node
             context == fr[k - 1].context
             token == fr[k].context
             own == Own(node, context)
             ss == OfChildren(node, context, Collected(a))
             tt == OfChildren(node, context, Collected(b))
             l == Len(node.children)
  <2>0. k - 1 \in 1 .. m /\ (k - 1) + 1 = k /\ k - 1 # m
    BY <1>1, <1>4
  <2>1. /\ i \in 1 .. Len(a) /\ i \in 1 .. Len(b) /\ i # fr[m].node /\ LastCall(node)
        /\ node.children[l] = c
        /\ \A q \in 1 .. (l - 1) : node.children[q] \notin P
        /\ k + 1 \in 1 .. m /\ c \in 1 .. Len(a)
    <3>1. i \in 1 .. Len(a) /\ \A j \in 1 .. Len(a) : j \in 1 .. Len(b)
      BY <1>1, PathFrame
    <3>2. k + 1 \in 1 .. m
      BY <1>4, PathFrame
    <3>3. c \in 1 .. Len(a)
      BY <3>2, PathFrame
    <3> QED
      BY <1>4, <3>1, <3>2, <3>3, PathFrame
  <2>2. b[i] = a[i] /\ node.success
    <3>1. node.success
      BY DEF Path
    <3> QED
      BY <2>1, <3>1 DEF NodesKept
  <2>t. context \in Contexts /\ token \in Contexts /\ token = TokenContext(node, context)
    <3>1. context \in Contexts /\ token \in Contexts
      BY <2>0, PathFrame
    <3>2. fr[(k - 1) + 1].context = TokenContext(a[fr[(k - 1) + 1].node], fr[k - 1].context)
      BY <2>0, PathFrame
    <3> QED
      BY <2>0, <3>1, <3>2
  <2>3. /\ own \in Seq(Moves)
        /\ ss \in Seq(Seq(Moves)) /\ Len(ss) = l
        /\ tt \in Seq(Seq(Moves)) /\ Len(tt) = l
    <3> DEFINE ca == Collected(a)
               cb == Collected(b)
    <3>a. ca \in [1 .. Len(a) -> [Contexts -> Seq(Moves)]]
      BY <1>2
    <3>b. cb \in [1 .. Len(b) -> [Contexts -> Seq(Moves)]]
      BY <1>b
    <3> HIDE DEF ca, cb, i, context
    <3>1. /\ Own(a[i], context) \in Seq(Moves)
          /\ OfChildren(a[i], context, ca) \in Seq(Seq(Moves))
          /\ Len(OfChildren(a[i], context, ca)) = Len(a[i].children)
      BY <2>1, <2>t, <3>a, CollectedParts
    <3>2. OfChildren(b[i], context, cb) \in Seq(Seq(Moves))
          /\ Len(OfChildren(b[i], context, cb)) = Len(b[i].children)
      BY <2>1, <2>t, <3>b, CollectedParts
    <3> USE DEF ca, cb
    <3> QED
      BY <2>2, <3>1, <3>2
  <2>4. l \in Nat /\ l > 0 /\ l \in 1 .. l /\ DOMAIN node.children = 1 .. l
    <3>1. l \in Nat /\ DOMAIN node.children = 1 .. l
      BY <2>1, TreeNodes
    <3>2. l > 0
      BY <2>1 DEF LastCall
    <3>3. l \in 1 .. l
      BY <3>1, <3>2
    <3> QED
      BY <3>1, <3>2, <3>3
  <2>5. /\ \A q \in 1 .. l : ss[q] = Collected(a)[node.children[q]][token]
        /\ \A q \in 1 .. l : tt[q] = Collected(b)[node.children[q]][token]
    BY <2>t, <2>4 DEF OfChildren
  <2>6. ASSUME NEW q \in 1 .. (l - 1) PROVE ss[q] = tt[q]
    <3>1. q \in 1 .. l
      BY <2>4
    <3>2. node.children[q] \in 1 .. Len(a) /\ node.children[q] \notin P
      BY <2>1, <3>1, TreeNodes
    <3> QED
      BY <1>3, <2>t, <2>5, <3>1, <3>2
  <2>7. ss[l] = Collected(a)[c][token] /\ tt[l] = Collected(b)[c][token]
    BY <2>1, <2>4, <2>5
  <2>8. Weight(mu, tt[l]) = Weight(mu, ss[l]) + d
    <3>1. k + 1 # 1 /\ (k + 1) - 1 = k
      BY <1>1
    <3>2. W(b, k + 1) = W(a, k + 1) + d
      BY <1>4, <3>1
    <3> QED
      BY <2>7, <3>1, <3>2
  <2>9. ss[l] \in Seq(Moves) /\ tt[l] \in Seq(Moves)
    BY <2>3, <2>4
  <2>a. /\ Collected(a)[i][context] = own \o FlattenSeq(ss)
        /\ Collected(b)[i][context] = own \o FlattenSeq(tt)
    <3>1. /\ Collected(a)[i][context] = CollectedOf(a, i, context, Collected(a))
          /\ Collected(b)[i][context] = CollectedOf(b, i, context, Collected(b))
      BY <1>2, <1>b, <2>1, <2>t
    <3>2. ~ IsReverted(a, i) /\ ~ IsReverted(b, i)
      BY <2>2 DEF IsReverted
    <3> QED
      BY <2>2, <3>1, <3>2 DEF CollectedOf
  <2>b. W(a, k) = Weight(mu, own \o FlattenSeq(ss)) /\ W(b, k) = Weight(mu, own \o FlattenSeq(tt))
    BY <2>a
  <2> HIDE DEF ss, tt, l, own, i, node, c, W
  <2>10. PICK u \in Seq(Moves) : FlattenSeq(ss) = u \o ss[l] /\ FlattenSeq(tt) = u \o tt[l]
    <3>1. Len(ss) > 0 /\ Len(tt) = Len(ss) /\ \A e \in 1 .. (Len(ss) - 1) : ss[e] = tt[e]
      BY <2>3, <2>4, <2>6
    <3>2. ss \in Seq(Seq(Moves)) /\ tt \in Seq(Seq(Moves))
      BY <2>3
    <3>3. \E u \in Seq(Moves) : FlattenSeq(ss) = u \o ss[Len(ss)] /\ FlattenSeq(tt) = u \o tt[Len(ss)]
      BY <3>1, <3>2, FlattenLast
    <3> QED
      BY <2>3, <3>3
  <2>11. FlattenSeq(ss) \in Seq(Moves) /\ FlattenSeq(tt) \in Seq(Moves)
    BY <2>3, FlattenTypes
  <2>12. /\ Weight(mu, FlattenSeq(ss)) = Weight(mu, u) + Weight(mu, ss[l])
         /\ Weight(mu, FlattenSeq(tt)) = Weight(mu, u) + Weight(mu, tt[l])
    BY <2>9, <2>10, WeightConcat
  <2>13. /\ W(a, k) = Weight(mu, own) + Weight(mu, FlattenSeq(ss))
         /\ W(b, k) = Weight(mu, own) + Weight(mu, FlattenSeq(tt))
    BY <2>3, <2>11, <2>b, WeightConcat
  <2>14. Weight(mu, u) \in Int /\ Weight(mu, ss[l]) \in Int /\ Weight(mu, own) \in Int
    BY <2>3, <2>9, WeightNumbers
  <2> QED
    BY <2>8, <2>12, <2>13, <2>14
<1>5. ASSUME NEW k \in 1 .. m, \A j \in (k + 1) .. m : j \in Good PROVE k \in Good
  <2>1. CASE k = m
    BY <2>1
  <2>2. CASE k # m /\ k # 1
    <3>1. k + 1 \in (k + 1) .. m
      BY <1>1, <2>2
    <3>2. k + 1 \in Good
      BY <1>5, <3>1
    <3> QED
      BY <1>4, <2>2, <3>2
  <2>3. CASE k = 1
    BY <2>3
  <2> QED
    BY <2>1, <2>2, <2>3
<1>6. \A k \in 1 .. m : k \in Good
  <2> HIDE DEF Good
  <2> QED
    BY <1>1, <1>5, LaterFirst
<1>7. \A k \in 2 .. m : k \in 1 .. m /\ k # 1
  BY <1>1
<1> QED
  BY <1>6, <1>7


-----------------------------------------------------------------------------
(* The inductive invariant. *)

(* The last call of the harness: the transaction, once it is called. *)
Transaction(a) == a[1].children[Len(a[1].children)]

(* The last node below the harness is its last call. *)
HarnessCalls(a) ==
    /\ Len(a) > 0
    /\ Len(a[1].children) > 0 => LastCall(a[1]) /\ a[Transaction(a)].parent = 1
    /\ \A i \in 1 .. Len(a) : a[i].parent = 1 => Len(a[1].children) > 0 /\ i <= Transaction(a)

(* What has happened since a frame was entered is what the parser will find  *)
(* in it, and what has happened in all is what the Trace tab will show.      *)
Since(moves, mark, mu) == Weight(mu, moves) - Weight(mu, SubSeq(moves, 1, mark))
CollectedIn(a, fr, k, mu) == Weight(mu, Collected(a)[fr[k].node][fr[k - 1].context])
Balanced(a, fr, moves) ==
    \A k \in 2 .. Len(fr), mu \in Weights :
        Since(moves, fr[k].mark, mu) = CollectedIn(a, fr, k, mu)

(* The marks of the frames, from the lowest to the one on top, lie within n. *)
Marked(fr, n) ==
    /\ \A k \in 1 .. Len(fr) : fr[k].mark <= n
    /\ \A j, k \in 1 .. Len(fr) : j < k => fr[j].mark <= fr[k].mark

(* While the harness runs, *)
Runs(a, fr, begun, moves, h) ==
    /\ Path(a, fr) /\ Marked(fr, Len(moves))
    /\ fr[1].node = 1 /\ fr[1].context = Harness
    /\ ~ begun => moves = <<>> /\ h = <<>>
    /\ begun => /\ Len(fr) > 1 /\ fr[2].mark = 0
                /\ h = Rows(a)[fr[2].node]
                /\ Balanced(a, fr, moves)

(* and when it has ended. *)
Ends(a, begun, moves, h) ==
    /\ Len(a[1].children) > 0
    /\ begun => h = Rows(a)[Transaction(a)]
    /\ ~ begun => ~ a[Transaction(a)].success
    /\ a[1].success =>
          \A mu \in Weights : Weight(mu, moves) = Weight(mu, Collected(a)[Transaction(a)][Harness])
    /\ ~ a[1].success => moves = <<>>

InOrder(a) == Tree(a) /\ CallsInOrder(a) /\ HarnessCalls(a)

TraceInv ==
    /\ stage \in {"executing", "recorded", "parsed", "shown",
                  "pricing", "priced", "analyzed", "drawn"}
    /\ effects \in Seq(Moves) /\ transfers \in Seq(Moves) /\ started \in BOOLEAN
    /\ stage \in {"executing", "recorded", "parsed", "shown"} => InOrder(arena)
    /\ stage = "executing" => Runs(arena, frames, started, effects, history)
    /\ stage \in {"recorded", "parsed", "shown"} => Ends(arena, started, effects, history)
    /\ stage \notin {"executing", "recorded"} =>
         \A mu \in Weights : Weight(mu, transfers) = Weight(mu, effects)
    /\ stage = "shown" => shown = Rows(arena)[Transaction(arena)]


-----------------------------------------------------------------------------
(* What a call makes of the arena. *)
CallEntry(n) == [kind |-> "Call", index |-> n]
Enters(a, b, t, kind, address) ==
    /\ b \in Seq(Nodes) /\ Len(b) = Len(a) + 1
    /\ \A i \in 1 .. Len(a) : i # t => b[i] = a[i]
    /\ b[t].parent = a[t].parent /\ b[t].kind = a[t].kind /\ b[t].address = a[t].address
    /\ b[t].success = a[t].success /\ b[t].logs = a[t].logs
    /\ b[t].children = Append(a[t].children, Len(a) + 1)
    /\ b[t].ordering = Append(a[t].ordering, CallEntry(Len(a[t].children) + 1))
    /\ b[Len(a) + 1] = Node(t, kind, address)

(* The rows it adds: one of its own, below all that is shown of the frames. *)
ShowsCall(a, b, fr) ==
    /\ Rows(b)[Len(a) + 1] = <<<<"call", Len(a) + 1>>>>
    /\ \A k \in 1 .. Len(fr) :
         Rows(b)[fr[k].node] = Append(Rows(a)[fr[k].node], <<"call", Len(a) + 1>>)

(* It has logged nothing, and adds nothing to the frames below. *)
FindsNothing(a, b, fr, mu) ==
    /\ \A context \in Contexts : Collected(b)[Len(a) + 1][context] = <<>>
    /\ \A k \in 2 .. Len(fr) : CollectedIn(b, fr, k, mu) = CollectedIn(a, fr, k, mu)

(* This is what Enter does to the arena,                                     *)
LEMMA EntersIsEnter ==
  ASSUME NEW a, Tree(a), NEW t \in 1 .. Len(a), NEW kind \in {"CALL", "DELEGATECALL"},
         NEW address \in Contexts, NEW b,
         b = Append([a EXCEPT ![t].children = Append(@, Len(a) + 1),
                              ![t].ordering =
                                  Append(@, [kind |-> "Call", index |-> Len(a[t].children) + 1])],
                    Node(t, kind, address))
  PROVE  Enters(a, b, t, kind, address)
<1> DEFINE children == Append(a[t].children, Len(a) + 1)
           ordering == Append(a[t].ordering, CallEntry(Len(a[t].children) + 1))
           c == [a EXCEPT ![t].children = children, ![t].ordering = ordering]
           new == Node(t, kind, address)
<1>1. /\ a \in Seq(Nodes) /\ Len(a) \in Nat /\ a[t] \in Nodes /\ DOMAIN a = 1 .. Len(a)
      /\ a[t].children \in Seq(Nat) /\ Len(a[t].children) \in Nat
      /\ a[t].ordering \in Seq(Entries) /\ t \in Nat
      /\ \A i \in 1 .. Len(a) : a[i] \in Nodes
  <2>1. a \in Seq(Nodes) /\ \A i \in 1 .. Len(a) : a[i] \in Nodes
    BY DEF Tree
  <2>2. t \in Nat
    OBVIOUS
  <2> QED
    BY <2>1, <2>2, TreeNodes
<1>2. b = Append(c, new)
  BY DEF CallEntry
<1>3. children \in Seq(Nat)
  BY <1>1
<1>4. ordering \in Seq(Entries)
  <2>1. CallEntry(Len(a[t].children) + 1) \in Entries
    BY <1>1 DEF CallEntry, Entries
  <2> QED
    BY <1>1, <2>1
<1>5. new \in Nodes
  <2>1. <<>> \in Seq(Nat) /\ <<>> \in Seq(LogRecords) /\ <<>> \in Seq(Entries)
    OBVIOUS
  <2> QED
    BY <1>1, <2>1 DEF Node, Nodes
<1>c. children = Append(a[t].children, Len(a) + 1)
      /\ ordering = Append(a[t].ordering, CallEntry(Len(a[t].children) + 1))
  OBVIOUS
<1> HIDE DEF children, ordering, new
<1>6. /\ DOMAIN c = 1 .. Len(a) /\ \A i \in 1 .. Len(a) : i # t => c[i] = a[i]
      /\ c[t].parent = a[t].parent /\ c[t].kind = a[t].kind /\ c[t].address = a[t].address
      /\ c[t].success = a[t].success /\ c[t].logs = a[t].logs
      /\ c[t].children = children /\ c[t].ordering = ordering
      /\ c[t] \in Nodes
  <2>1. c[t] = [[a[t] EXCEPT !.children = children] EXCEPT !.ordering = ordering]
    BY <1>1
  <2>2. [[a[t] EXCEPT !.children = children] EXCEPT !.ordering = ordering] \in Nodes
    BY <1>1, <1>3, <1>4 DEF Nodes
  <2> QED
    BY <1>1, <2>1, <2>2 DEF Nodes
<1>7. c \in Seq(Nodes) /\ Len(c) = Len(a)
  <2>1. \A i \in 1 .. Len(a) : c[i] \in Nodes
    BY <1>1, <1>6
  <2>2. c = [i \in 1 .. Len(a) |-> c[i]]
    BY <1>1
  <2> HIDE DEF c
  <2> QED
    BY <1>1, <2>1, <2>2
<1> HIDE DEF c
<1>8. /\ b \in Seq(Nodes) /\ Len(b) = Len(a) + 1 /\ b[Len(a) + 1] = new
      /\ \A i \in 1 .. Len(a) : b[i] = c[i]
  <2> DEFINE S == Nodes
  <2>1. c \in Seq(S) /\ new \in S
    BY <1>5, <1>7
  <2> HIDE DEF S
  <2>2. /\ Append(c, new) \in Seq(S) /\ Len(Append(c, new)) = Len(c) + 1
        /\ Append(c, new)[Len(c) + 1] = new
        /\ \A i \in 1 .. Len(c) : Append(c, new)[i] = c[i]
    BY <2>1, AppendProperties
  <2> QED
    BY <1>2, <1>7, <2>2 DEF S
<1> QED
  BY <1>6, <1>8, <1>c DEF Enters, new

(* and what it makes is a tree again.                                        *)
LEMMA EntersTree ==
  ASSUME NEW a, Tree(a), CallsInOrder(a), NEW t \in 1 .. Len(a), NEW kind, NEW address, NEW b,
         Enters(a, b, t, kind, address)
  PROVE  Tree(b) /\ CallsInOrder(b)
<1> DEFINE n == Len(a)
           l == Len(a[t].ordering)
           q == Len(a[t].children)
<1>1. /\ n \in Nat /\ l \in Nat /\ q \in Nat /\ t \in 1 .. n
      /\ a[t].children \in Seq(Nat) /\ a[t].ordering \in Seq(Entries)
  BY TreeNodes
<1>2. /\ b \in Seq(Nodes) /\ Len(b) = n + 1 /\ \A i \in 1 .. n : i # t => b[i] = a[i]
      /\ b[t].children = Append(a[t].children, n + 1)
      /\ b[t].ordering = Append(a[t].ordering, CallEntry(q + 1))
      /\ b[t].logs = a[t].logs /\ b[n + 1] = Node(t, kind, address)
  BY DEF Enters
<1>3. /\ Len(b[t].children) = q + 1 /\ b[t].children[q + 1] = n + 1
      /\ \A c \in 1 .. q : b[t].children[c] = a[t].children[c]
      /\ Len(b[t].ordering) = l + 1 /\ b[t].ordering[l + 1] = CallEntry(q + 1)
      /\ \A e \in 1 .. l : b[t].ordering[e] = a[t].ordering[e]
  <2>1. CallEntry(q + 1) \in Entries /\ n + 1 \in Nat
    BY <1>1 DEF CallEntry, Entries
  <2> QED
    BY <1>1, <1>2, <2>1, AppendProperties
<1>4. /\ b[n + 1].children = <<>> /\ b[n + 1].ordering = <<>>
  BY <1>2 DEF Node
<1>a. /\ \A i \in 1 .. n : \A c \in 1 .. Len(a[i].children) : a[i].children[c] \in (i + 1) .. n
      /\ \A i \in 1 .. n : a[i].ordering \in Seq(Entries) /\ Len(a[i].ordering) \in Nat
      /\ \A i \in 1 .. n : \A e \in 1 .. Len(a[i].ordering) :
           /\ a[i].ordering[e].kind = "Log" => a[i].ordering[e].index \in 1 .. Len(a[i].logs)
           /\ a[i].ordering[e].kind # "Log" => a[i].ordering[e].index \in 1 .. Len(a[i].children)
  <2>1. ASSUME NEW i \in 1 .. n
        PROVE  /\ \A c \in 1 .. Len(a[i].children) : a[i].children[c] \in (i + 1) .. n
               /\ a[i].ordering \in Seq(Entries) /\ Len(a[i].ordering) \in Nat
    BY TreeNodes
  <2>2. ASSUME NEW i \in 1 .. n, NEW e \in 1 .. Len(a[i].ordering)
        PROVE  /\ a[i].ordering[e].kind = "Log" => a[i].ordering[e].index \in 1 .. Len(a[i].logs)
               /\ a[i].ordering[e].kind # "Log" =>
                     a[i].ordering[e].index \in 1 .. Len(a[i].children)
    BY TreeNodes
  <2> QED
    BY <2>1, <2>2
<1>b. CallEntry(q + 1).kind = "Call" /\ CallEntry(q + 1).index = q + 1
  BY DEF CallEntry
<1> HIDE DEF n, l, q
<1>5. \A i \in 1 .. (n + 1) : i \in 1 .. n \/ i = n + 1
  BY <1>1
<1>6. ASSUME NEW i \in 1 .. (n + 1), NEW c \in 1 .. Len(b[i].children)
      PROVE  b[i].children[c] \in (i + 1) .. (n + 1)
  <2>1. CASE i = n + 1
    BY <1>4, <2>1
  <2>2. CASE i = t
    <3>1. CASE c = q + 1
      BY <1>1, <1>3, <2>2, <3>1
    <3>2. CASE c # q + 1
      <4>1. c \in 1 .. q
        BY <1>1, <1>3, <2>2, <3>2
      <4>2. a[t].children[c] \in (t + 1) .. n
        BY <1>a, <4>1 DEF n, q
      <4>3. b[i].children[c] = a[t].children[c]
        BY <1>3, <2>2, <4>1
      <4>4. (t + 1) .. n \subseteq (i + 1) .. (n + 1)
        BY <1>1, <2>2
      <4> QED
        BY <4>2, <4>3, <4>4
    <3> QED
      BY <3>1, <3>2
  <2>3. CASE i # t /\ i # n + 1
    <3>1. i \in 1 .. n /\ b[i] = a[i]
      BY <1>2, <1>5, <2>3
    <3>2. b[i].children[c] \in (i + 1) .. n
      BY <1>a, <3>1
    <3> QED
      BY <1>1, <3>2
  <2> QED
    BY <2>1, <2>2, <2>3
<1>7. ASSUME NEW i \in 1 .. (n + 1), NEW e \in 1 .. Len(b[i].ordering)
      PROVE  /\ b[i].ordering[e].kind = "Log" => b[i].ordering[e].index \in 1 .. Len(b[i].logs)
             /\ b[i].ordering[e].kind # "Log" => b[i].ordering[e].index \in 1 .. Len(b[i].children)
  <2>1. CASE i = n + 1
    BY <1>4, <2>1
  <2>2. CASE i = t
    <3>1. CASE e = l + 1
      BY <1>1, <1>3, <1>b, <2>2, <3>1
    <3>2. CASE e # l + 1
      <4>1. e \in 1 .. l
        BY <1>1, <1>3, <2>2, <3>2
      <4>2. /\ a[t].ordering[e].kind = "Log" => a[t].ordering[e].index \in 1 .. Len(a[t].logs)
            /\ a[t].ordering[e].kind # "Log" => a[t].ordering[e].index \in 1 .. q
        BY <1>a, <4>1 DEF n, l, q
      <4>3. b[i].ordering[e] = a[t].ordering[e] /\ b[i].logs = a[t].logs
            /\ Len(b[i].children) = q + 1
        BY <1>2, <1>3, <2>2, <4>1
      <4>4. 1 .. q \subseteq 1 .. (q + 1)
        BY <1>1
      <4> QED
        BY <4>2, <4>3, <4>4
    <3> QED
      BY <3>1, <3>2
  <2>3. CASE i # t /\ i # n + 1
    <3>1. i \in 1 .. n /\ b[i] = a[i]
      BY <1>2, <1>5, <2>3
    <3> QED
      BY <1>a, <3>1
  <2> QED
    BY <2>1, <2>2, <2>3
<1>8. Tree(b)
  BY <1>2, <1>6, <1>7 DEF Tree
<1>9. ASSUME NEW i \in 1 .. (n + 1), NEW e \in 1 .. Len(b[i].ordering),
             NEW f \in 1 .. Len(b[i].ordering), e < f,
             b[i].ordering[e].kind = "Call", b[i].ordering[f].kind = "Call"
      PROVE  b[i].ordering[e].index < b[i].ordering[f].index
  <2>1. CASE i = n + 1
    BY <1>4, <2>1
  <2>2. CASE i = t
    <3>1. e \in 1 .. l
      BY <1>1, <1>3, <1>9, <2>2
    <3>2. CASE f = l + 1
      <4>1. a[t].ordering[e].index \in 1 .. q
        BY <1>3, <1>9, <1>a, <2>2, <3>1 DEF n, l, q
      <4>2. b[i].ordering[e] = a[t].ordering[e] /\ b[i].ordering[f] = CallEntry(q + 1)
        BY <1>3, <2>2, <3>1, <3>2
      <4>3. \A j \in 1 .. q : j < q + 1
        BY <1>1
      <4> QED
        BY <1>b, <4>1, <4>2, <4>3
    <3>3. CASE f # l + 1
      <4>1. f \in 1 .. l
        BY <1>1, <1>3, <2>2, <3>3
      <4> QED
        BY <1>3, <1>9, <2>2, <3>1, <4>1 DEF CallsInOrder, n, l
    <3> QED
      BY <3>2, <3>3
  <2>3. CASE i # t /\ i # n + 1
    <3>1. i \in 1 .. n /\ b[i] = a[i]
      BY <1>2, <1>5, <2>3
    <3> QED
      BY <1>9, <3>1 DEF CallsInOrder, n
  <2> QED
    BY <2>1, <2>2, <2>3
<1>10. CallsInOrder(b)
  BY <1>2, <1>9 DEF CallsInOrder
<1> QED
  BY <1>8, <1>10


(* The call is on top of the stack now. *)
LEMMA EntersPath ==
  ASSUME NEW a, Tree(a), NEW fr, Path(a, fr), NEW kind \in {"CALL", "DELEGATECALL"},
         NEW address \in Contexts, NEW b,
         Enters(a, b, fr[Len(fr)].node, kind, address),
         NEW new \in FrameRecords, new.node = Len(a) + 1,
         new.context = TokenContext(Node(fr[Len(fr)].node, kind, address), fr[Len(fr)].context)
  PROVE  Path(b, Append(fr, new))
<1> DEFINE n == Len(a)
           m == Len(fr)
           t == fr[m].node
           gr == Append(fr, new)
           q == Len(a[t].children)
           l == Len(a[t].ordering)
<1>1. /\ fr \in Seq(FrameRecords) /\ m \in Nat /\ m > 0 /\ n \in Nat /\ m \in 1 .. m
  BY DEF Path, Tree
<1>2. /\ gr \in Seq(FrameRecords) /\ Len(gr) = m + 1 /\ gr[m + 1] = new
      /\ \A k \in 1 .. m : gr[k] = fr[k]
  BY <1>1, AppendProperties
<1>3. /\ \A k \in 1 .. m : fr[k].node \in 1 .. n /\ a[fr[k].node].success
      /\ \A j, k \in 1 .. m : j < k => fr[j].node < fr[k].node
      /\ \A k \in 1 .. (m - 1) :
           /\ LastCall(a[fr[k].node])
           /\ a[fr[k].node].children[Len(a[fr[k].node].children)] = fr[k + 1].node
           /\ fr[k + 1].context = TokenContext(a[fr[k + 1].node], fr[k].context)
      /\ \A i \in 1 .. n : \A c \in 1 .. Len(a[i].children), k \in 1 .. m :
           a[i].children[c] = fr[k].node =>
              k > 1 /\ i = fr[k - 1].node /\ c = Len(a[i].children)
  BY DEF Path
<1>t. t \in 1 .. n /\ q \in Nat /\ l \in Nat /\ a[t].children \in Seq(Nat)
      /\ a[t].ordering \in Seq(Entries)
  BY <1>1, <1>3, TreeNodes
<1>4. /\ \A i \in 1 .. n : i # t => b[i] = a[i]
      /\ b[t].kind = a[t].kind /\ b[t].address = a[t].address /\ b[t].success = a[t].success
      /\ b[t].children = Append(a[t].children, n + 1)
      /\ b[t].ordering = Append(a[t].ordering, CallEntry(q + 1))
      /\ b[n + 1] = Node(t, kind, address) /\ Len(b) = n + 1
  BY DEF Enters
<1>5. /\ Len(b[t].children) = q + 1 /\ b[t].children[q + 1] = n + 1
      /\ \A c \in 1 .. q : b[t].children[c] = a[t].children[c]
      /\ Len(b[t].ordering) = l + 1 /\ b[t].ordering[l + 1] = CallEntry(q + 1)
  <2>1. CallEntry(q + 1) \in Entries /\ n + 1 \in Nat
    BY <1>1, <1>t DEF CallEntry, Entries
  <2> HIDE DEF n, t, q, l
  <2> DEFINE cs == a[t].children
             os == a[t].ordering
             N == Nat
  <2>2. cs \in Seq(N) /\ n + 1 \in N /\ Len(cs) = q /\ os \in Seq(Entries) /\ Len(os) = l
    BY <1>t, <2>1 DEF q, l
  <2> HIDE DEF cs, os, N
  <2>3. /\ Len(Append(cs, n + 1)) = Len(cs) + 1 /\ Append(cs, n + 1)[Len(cs) + 1] = n + 1
        /\ \A c \in 1 .. Len(cs) : Append(cs, n + 1)[c] = cs[c]
    BY <2>2, AppendProperties
  <2>4. /\ Len(Append(os, CallEntry(q + 1))) = Len(os) + 1
        /\ Append(os, CallEntry(q + 1))[Len(os) + 1] = CallEntry(q + 1)
    BY <2>1, <2>2, AppendProperties
  <2> QED
    BY <1>4, <2>2, <2>3, <2>4 DEF cs, os
<1>6. LastCall(b[t]) /\ b[t].children[Len(b[t].children)] = n + 1
  <2>1. CallEntry(q + 1).kind = "Call" /\ CallEntry(q + 1).index = q + 1
    BY DEF CallEntry
  <2> HIDE DEF n, t, q, l
  <2>2. q + 1 > 0 /\ l + 1 > 0
    BY <1>t
  <2> QED
    BY <1>5, <2>1, <2>2 DEF LastCall
<1>7. b[n + 1].success /\ b[n + 1].children = <<>>
      /\ b[n + 1].kind = Node(t, kind, address).kind
  BY <1>4 DEF Node
<1>8. \A i \in 1 .. n : \A context : TokenContext(b[i], context) = TokenContext(a[i], context)
  BY <1>4 DEF TokenContext
<1>9. \A k \in 1 .. m : k # m => fr[k].node # t
  <2>1. ASSUME NEW k \in 1 .. m, k # m PROVE fr[k].node # t
    <3>1. k < m
      BY <1>1, <2>1
    <3>2. fr[k].node < t /\ t \in Nat
      BY <1>1, <1>3, <1>t, <3>1
    <3> QED
      BY <3>2
  <2> QED
    BY <2>1
<1>p. \A k \in 1 .. (m + 1) : k \in 1 .. m \/ k = m + 1
  BY <1>1
<1>n. new.node = n + 1 /\ new.context = TokenContext(b[n + 1], fr[m].context)
  BY <1>4
<1> HIDE DEF gr, n, m, t, q, l
<1>10. ASSUME NEW k \in 1 .. (m + 1)
       PROVE  gr[k].node \in 1 .. (n + 1) /\ b[gr[k].node].success
  <2>1. CASE k = m + 1
    BY <1>1, <1>2, <1>7, <1>n, <2>1
  <2>2. CASE k # m + 1
    <3>1. k \in 1 .. m
      BY <1>p, <2>2
    <3>2. gr[k].node \in 1 .. n /\ b[gr[k].node].success
      BY <1>2, <1>3, <1>4, <3>1
    <3> QED
      BY <1>1, <3>2
  <2> QED
    BY <2>1, <2>2
<1>11. ASSUME NEW j \in 1 .. (m + 1), NEW k \in 1 .. (m + 1), j < k
       PROVE  gr[j].node < gr[k].node
  <2>0. j \in 1 .. m
    BY <1>1, <1>11
  <2>1. CASE k = m + 1
    BY <1>1, <1>2, <1>3, <1>n, <2>0, <2>1
  <2>2. CASE k # m + 1
    BY <1>2, <1>3, <1>11, <1>p, <2>0, <2>2
  <2> QED
    BY <2>1, <2>2
<1>12. ASSUME NEW k \in 1 .. m
       PROVE  /\ LastCall(b[gr[k].node])
              /\ b[gr[k].node].children[Len(b[gr[k].node].children)] = gr[k + 1].node
              /\ gr[k + 1].context = TokenContext(b[gr[k + 1].node], gr[k].context)
  <2>1. CASE k = m
    <3>1. gr[k].node = t /\ gr[k + 1] = new /\ gr[k] = fr[m]
      BY <1>2, <2>1 DEF t
    <3> QED
      BY <1>6, <1>n, <3>1
  <2>2. CASE k # m
    <3>1. k \in 1 .. (m - 1) /\ k + 1 \in 1 .. m
      BY <1>1, <2>2
    <3>2. gr[k] = fr[k] /\ gr[k + 1] = fr[k + 1] /\ fr[k].node \in 1 .. n /\ fr[k + 1].node \in 1 .. n
      BY <1>2, <1>3, <3>1
    <3>3. b[fr[k].node] = a[fr[k].node]
      BY <1>4, <1>9, <2>2, <3>2
    <3>4. TokenContext(b[fr[k + 1].node], fr[k].context) = TokenContext(a[fr[k + 1].node], fr[k].context)
      BY <1>8, <3>2
    <3>5. /\ LastCall(a[fr[k].node])
          /\ a[fr[k].node].children[Len(a[fr[k].node].children)] = fr[k + 1].node
          /\ fr[k + 1].context = TokenContext(a[fr[k + 1].node], fr[k].context)
      BY <1>3, <3>1
    <3> QED
      BY <3>2, <3>3, <3>4, <3>5
  <2> QED
    BY <2>1, <2>2
<1>13. ASSUME NEW i \in 1 .. (n + 1), NEW c \in 1 .. Len(b[i].children), NEW k \in 1 .. (m + 1),
              b[i].children[c] = gr[k].node
       PROVE  k > 1 /\ i = gr[k - 1].node /\ c = Len(b[i].children)
  <2>1. i # n + 1
    BY <1>7
  <2>2. i \in 1 .. n
    BY <1>1, <2>1
  <2>3. CASE i = t /\ c = q + 1
    <3>1. gr[k].node = n + 1
      BY <1>5, <1>13, <2>3
    <3>2. k = m + 1
      <4>1. ASSUME k # m + 1 PROVE FALSE
        <5>1. k \in 1 .. m
          BY <1>p, <4>1
        <5>2. fr[k].node = n + 1 /\ fr[k].node \in 1 .. n
          BY <1>2, <1>3, <3>1, <5>1
        <5> QED
          BY <1>1, <5>2
      <4> QED
        BY <4>1
    <3>3. k > 1 /\ k - 1 = m
      BY <1>1, <3>2
    <3> QED
      BY <1>1, <1>2, <1>5, <2>3, <3>3 DEF t
  <2>4. CASE ~ (i = t /\ c = q + 1)
    <3>1. c \in 1 .. Len(a[i].children) /\ b[i].children[c] = a[i].children[c]
      <4>1. CASE i = t
        <5>1. c \in 1 .. q
          BY <1>t, <1>5, <2>4, <4>1
        <5> QED
          BY <1>5, <4>1, <5>1 DEF q
      <4>2. CASE i # t
        BY <1>4, <2>2, <4>2
      <4> QED
        BY <4>1, <4>2
    <3>2. a[i].children[c] \in (i + 1) .. n
      BY <2>2, <3>1, TreeNodes DEF n
    <3>3. k # m + 1
      <4>1. gr[k].node \in (i + 1) .. n
        BY <1>13, <3>1, <3>2
      <4>2. gr[k].node # n + 1
        BY <1>1, <4>1
      <4> QED
        BY <1>2, <1>n, <4>2
    <3>4. k \in 1 .. m /\ a[i].children[c] = fr[k].node
      BY <1>2, <1>13, <1>p, <3>1, <3>3
    <3>5. k > 1 /\ i = fr[k - 1].node /\ c = Len(a[i].children)
      BY <1>3, <2>2, <3>1, <3>4
    <3>6. k - 1 \in 1 .. m /\ k - 1 # m
      BY <1>1, <3>4, <3>5
    <3>7. i # t
      BY <1>9, <3>5, <3>6
    <3> QED
      BY <1>2, <1>4, <2>2, <3>5, <3>6, <3>7
  <2> QED
    BY <2>3, <2>4
<1>14. gr \in Seq(FrameRecords) /\ Len(gr) > 0 /\ (m + 1) - 1 = m
  BY <1>1, <1>2
<1>15. Len(b) = n + 1 /\ Len(gr) = m + 1
  BY <1>2, <1>4
<1>16. Path(b, gr)
  <2>1. \A k \in 1 .. Len(gr) : gr[k].node \in 1 .. Len(b) /\ b[gr[k].node].success
    BY <1>10, <1>15
  <2>2. \A j, k \in 1 .. Len(gr) : j < k => gr[j].node < gr[k].node
    BY <1>11, <1>15
  <2>3. \A k \in 1 .. (Len(gr) - 1) :
           /\ LastCall(b[gr[k].node])
           /\ b[gr[k].node].children[Len(b[gr[k].node].children)] = gr[k + 1].node
           /\ gr[k + 1].context = TokenContext(b[gr[k + 1].node], gr[k].context)
    BY <1>12, <1>14, <1>15
  <2>4. \A i \in 1 .. Len(b) : \A c \in 1 .. Len(b[i].children), k \in 1 .. Len(gr) :
           b[i].children[c] = gr[k].node =>
              k > 1 /\ i = gr[k - 1].node /\ c = Len(b[i].children)
    BY <1>13, <1>15
  <2> QED
    BY <1>14, <2>1, <2>2, <2>3, <2>4 DEF Path
<1> QED
  BY <1>16 DEF gr

(* Every frame below shows the call, at its end. *)
LEMMA EntersRows ==
  ASSUME NEW a, Tree(a), CallsInOrder(a), NEW fr, Path(a, fr), NEW kind, NEW address, NEW b,
         Tree(b), Enters(a, b, fr[Len(fr)].node, kind, address)
  PROVE  ShowsCall(a, b, fr)
<1> DEFINE n == Len(a)
           m == Len(fr)
           t == fr[m].node
           new == <<<<"call", n + 1>>>>
           q == Len(a[t].children)
           l == Len(a[t].ordering)
           ss == EntryRows(a[t], Rows(a))
           tt == EntryRows(b[t], Rows(b))
           first == <<<<"call", t>>>>
<1>1. n \in Nat /\ m \in Nat /\ m > 0 /\ m \in 1 .. m /\ t \in 1 .. n
  <2>1. n \in Nat /\ m \in Nat /\ m > 0
    BY DEF Path, Tree
  <2>2. m \in 1 .. m
    BY <2>1
  <2> QED
    BY <2>1, <2>2, PathFrame
<1>2. /\ q \in Nat /\ l \in Nat /\ DOMAIN a[t].ordering = 1 .. l
      /\ a[t].ordering \in Seq(Entries) /\ a[t].children \in Seq(Nat)
  BY <1>1, TreeNodes
<1>3. /\ Len(b) = n + 1 /\ \A i \in 1 .. n : i # t => b[i] = a[i]
      /\ b[t].logs = a[t].logs /\ b[t].children = Append(a[t].children, n + 1)
      /\ b[t].ordering = Append(a[t].ordering, CallEntry(q + 1))
      /\ b[n + 1].ordering = <<>>
  BY DEF Enters, Node
<1>4. /\ b[t].children[q + 1] = n + 1
      /\ \A c \in 1 .. q : b[t].children[c] = a[t].children[c]
      /\ Len(b[t].ordering) = l + 1 /\ b[t].ordering[l + 1] = CallEntry(q + 1)
      /\ \A e \in 1 .. l : b[t].ordering[e] = a[t].ordering[e]
      /\ DOMAIN b[t].ordering = 1 .. (l + 1)
  <2>1. CallEntry(q + 1) \in Entries /\ n + 1 \in Nat
    BY <1>1, <1>2 DEF CallEntry, Entries
  <2> HIDE DEF n, t, q, l
  <2> DEFINE cs == a[t].children
             os == a[t].ordering
             N == Nat
  <2>2. cs \in Seq(N) /\ n + 1 \in N /\ Len(cs) = q /\ os \in Seq(Entries) /\ Len(os) = l
    BY <1>2, <2>1 DEF q, l
  <2> HIDE DEF cs, os, N
  <2>3. /\ Append(cs, n + 1)[Len(cs) + 1] = n + 1
        /\ \A c \in 1 .. Len(cs) : Append(cs, n + 1)[c] = cs[c]
    BY <2>2, AppendProperties
  <2>4. /\ Append(os, CallEntry(q + 1)) \in Seq(Entries)
        /\ Len(Append(os, CallEntry(q + 1))) = Len(os) + 1
        /\ Append(os, CallEntry(q + 1))[Len(os) + 1] = CallEntry(q + 1)
        /\ \A e \in 1 .. Len(os) : Append(os, CallEntry(q + 1))[e] = os[e]
    BY <2>1, <2>2, AppendProperties
  <2>5. DOMAIN Append(os, CallEntry(q + 1)) = 1 .. (l + 1)
    BY <2>2, <2>4
  <2> QED
    BY <1>3, <2>2, <2>3, <2>4, <2>5 DEF cs, os
<1>5. /\ Rows(a) \in [1 .. n -> Seq(RowsShown)] /\ Rows(a)[t] = first \o FlattenSeq(ss)
      /\ Rows(b) \in [1 .. (n + 1) -> Seq(RowsShown)] /\ Rows(b)[t] = first \o FlattenSeq(tt)
      /\ Rows(b)[n + 1] = new \o FlattenSeq(EntryRows(b[n + 1], Rows(b)))
  <2>1. /\ Rows(a) \in [1 .. n -> Seq(RowsShown)]
        /\ \A i \in 1 .. n : Rows(a)[i] = NodeRows(a, i, Rows(a))
    BY RowsRecursion
  <2>2. /\ Rows(b) \in [1 .. (n + 1) -> Seq(RowsShown)]
        /\ \A i \in 1 .. (n + 1) : Rows(b)[i] = NodeRows(b, i, Rows(b))
    BY <1>3, RowsRecursion
  <2>3. t \in 1 .. (n + 1) /\ n + 1 \in 1 .. (n + 1)
    BY <1>1
  <2> QED
    BY <1>1, <2>1, <2>2, <2>3 DEF NodeRows
<1>6. /\ ss \in Seq(Seq(RowsShown)) /\ Len(ss) = l
      /\ tt \in Seq(Seq(RowsShown)) /\ Len(tt) = l + 1
  <2>1. t \in 1 .. Len(b)
    BY <1>1, <1>3
  <2>2. ss \in Seq(Seq(RowsShown)) /\ Len(ss) = l
    BY <1>1, <1>5, NodeRowsTypes
  <2>3. tt \in Seq(Seq(RowsShown)) /\ Len(tt) = Len(b[t].ordering)
    BY <1>3, <1>5, <2>1, NodeRowsTypes
  <2> QED
    BY <1>4, <2>2, <2>3
<1>7. /\ \A e \in 1 .. l : ss[e] = EntryRow(a[t], a[t].ordering[e], Rows(a))
      /\ \A e \in 1 .. (l + 1) : tt[e] = EntryRow(b[t], b[t].ordering[e], Rows(b))
  BY <1>2, <1>4 DEF EntryRows
<1>8. new \in Seq(RowsShown) /\ first \in Seq(RowsShown)
  <2>1. <<"call", n + 1>> \in RowsShown /\ <<"call", t>> \in RowsShown
    BY <1>1 DEF RowsShown
  <2> QED
    BY <2>1
<1>9. Rows(b)[n + 1] = new
  <2>1. EntryRows(b[n + 1], Rows(b)) = <<>>
    BY <1>3 DEF EntryRows
  <2> HIDE DEF new
  <2> QED
    BY <1>5, <1>8, <2>1, FlattenNothing, ConcatEmptySeq
<1>10. \A i \in 1 .. n : i \notin OpenNodes(fr) => Rows(b)[i] = Rows(a)[i]
  <2>1. t \in OpenNodes(fr)
    BY <1>1 DEF OpenNodes
  <2>2. \A i \in 1 .. n : i \notin OpenNodes(fr) => SameCalls(a[i], b[i])
    BY <1>3, <2>1 DEF SameCalls
  <2>3. n <= Len(b)
    BY <1>1, <1>3
  <2> QED
    BY <2>2, <2>3, PathApart, SameRows
<1>11. ASSUME NEW e \in 1 .. l PROVE tt[e] = ss[e]
  <2>1. e \in 1 .. (l + 1) /\ b[t].ordering[e] = a[t].ordering[e]
    BY <1>2, <1>4
  <2>2. CASE a[t].ordering[e].kind = "Log"
    BY <1>3, <1>7, <2>1, <2>2 DEF EntryRow
  <2>3. CASE a[t].ordering[e].kind # "Log"
    <3> DEFINE c == a[t].ordering[e].index
    <3>1. c \in 1 .. q
      BY <1>1, <2>3, TreeNodes
    <3>2. a[t].children[c] \in 1 .. n
      BY <1>1, <3>1, TreeNodes
    <3>3. a[t].children[c] \notin OpenNodes(fr)
      BY <1>1, <3>1, PathFrame
    <3>4. Rows(b)[a[t].children[c]] = Rows(a)[a[t].children[c]]
      BY <1>10, <3>2, <3>3
    <3> QED
      BY <1>4, <1>7, <2>1, <2>3, <3>1, <3>4 DEF EntryRow, CallIDFromOrdering
  <2> QED
    BY <2>2, <2>3
<1>12. tt[l + 1] = new
  <2>1. l + 1 \in 1 .. (l + 1)
    BY <1>2
  <2>2. tt[l + 1] = EntryRow(b[t], CallEntry(q + 1), Rows(b))
    BY <1>4, <1>7, <2>1
  <2>3. EntryRow(b[t], CallEntry(q + 1), Rows(b)) = Rows(b)[n + 1]
    BY <1>4 DEF EntryRow, CallEntry, CallIDFromOrdering
  <2> QED
    BY <1>9, <2>2, <2>3
<1>s. n = Len(a) /\ m = Len(fr) /\ t = fr[m].node /\ new = <<<<"call", Len(a) + 1>>>>
  OBVIOUS
<1> DEFINE S == RowsShown
<1> HIDE DEF ss, tt, first, new, l, q, S, n, m, t
<1>13. Rows(b)[t] = Rows(a)[t] \o new
  <2>1. ss \in Seq(Seq(S)) /\ tt \in Seq(Seq(S)) /\ new \in Seq(S) /\ first \in Seq(S)
    BY <1>6, <1>8 DEF S
  <2>2. tt = Append(ss, new)
    <3>1. /\ Append(ss, new) \in Seq(Seq(S)) /\ Len(Append(ss, new)) = l + 1
          /\ Append(ss, new)[l + 1] = new
          /\ \A e \in 1 .. l : Append(ss, new)[e] = ss[e]
      BY <1>6, <2>1, AppendProperties
    <3>2. \A e \in 1 .. (l + 1) : e \in 1 .. l \/ e = l + 1
      BY <1>2
    <3>3. \A e \in 1 .. (l + 1) : tt[e] = Append(ss, new)[e]
      BY <1>11, <1>12, <3>1, <3>2
    <3> DEFINE R == Seq(S)
    <3>4. tt \in Seq(R) /\ Append(ss, new) \in Seq(R)
      BY <2>1, <3>1
    <3> HIDE DEF R
    <3> QED
      BY <1>6, <3>1, <3>3, <3>4, SeqEqual
  <2>3. first \o FlattenSeq(tt) = (first \o FlattenSeq(ss)) \o new
    BY <2>1, <2>2, FlattenOneLonger
  <2> QED
    BY <1>5, <2>3
<1>14. \A k \in 1 .. m : Rows(b)[fr[k].node] = Rows(a)[fr[k].node] \o new
  <2>1. CallsKept(a, b, fr[Len(fr)].node)
    BY <1>3, <1>s DEF SameCalls, CallsKept
  <2>2. Len(a) <= Len(b)
    BY <1>1, <1>3, <1>s
  <2>3. ShowsMore(a, b, fr[Len(fr)].node, new)
    BY <1>13, <1>s DEF ShowsMore
  <2>x. new \in Seq(RowsShown)
    BY <1>8
  <2>4. \A k \in 1 .. Len(fr) : ShowsMore(a, b, fr[k].node, new)
    BY <2>x, <2>1, <2>2, <2>3, RowsGrow
  <2> QED
    BY <1>s, <2>4 DEF ShowsMore
<1>15. ASSUME NEW k \in 1 .. Len(fr)
       PROVE  Rows(b)[fr[k].node] = Append(Rows(a)[fr[k].node], <<"call", Len(a) + 1>>)
  <2>1. Rows(a)[fr[k].node] \in Seq(RowsShown)
    <3>1. fr[k].node \in 1 .. Len(a)
      BY PathFrame
    <3> QED
      BY <1>5, <1>s, <3>1
  <2> DEFINE r == Rows(a)[fr[k].node]
             x == <<"call", Len(a) + 1>>
  <2>2. r \in Seq(RowsShown) /\ x \in RowsShown /\ new = <<x>>
    <3>1. x \in RowsShown
      BY <1>1, <1>s DEF RowsShown
    <3> QED
      BY <1>s, <2>1, <3>1
  <2>3. Rows(b)[fr[k].node] = r \o new
    BY <1>14, <1>s
  <2> HIDE DEF r, x
  <2>4. r \o <<x>> = Append(r, x)
    BY <2>2
  <2> QED
    BY <2>2, <2>3, <2>4 DEF r, x
<1>q. /\ Rows(b)[Len(a) + 1] = <<<<"call", Len(a) + 1>>>>
      /\ \A k \in 1 .. Len(fr) :
           Rows(b)[fr[k].node] = Append(Rows(a)[fr[k].node], <<"call", Len(a) + 1>>)
  BY <1>9, <1>15, <1>s
<1> QED
  BY <1>q DEF ShowsCall


(* It has logged nothing, and adds nothing to the frames below.  *)
LEMMA EntersWeights ==
  ASSUME NEW a, Tree(a), NEW fr, Path(a, fr), NEW kind, NEW address, NEW b,
         Tree(b), Enters(a, b, fr[Len(fr)].node, kind, address), NEW mu \in Weights
  PROVE  FindsNothing(a, b, fr, mu)
<1> DEFINE n == Len(a)
           m == Len(fr)
           t == fr[m].node
           q == Len(a[t].children)
<1>1. n \in Nat /\ m \in Nat /\ m > 0 /\ m \in 1 .. m /\ t \in 1 .. n
  <2>1. n \in Nat /\ m \in Nat /\ m > 0
    BY DEF Path, Tree
  <2>2. m \in 1 .. m
    BY <2>1
  <2> QED
    BY <2>1, <2>2, PathFrame
<1>2. /\ q \in Nat /\ DOMAIN a[t].children = 1 .. q /\ a[t].children \in Seq(Nat)
  BY <1>1, TreeNodes
<1>3. /\ Len(b) = n + 1 /\ \A i \in 1 .. n : i # t => b[i] = a[i]
      /\ b[t].logs = a[t].logs /\ b[t].children = Append(a[t].children, n + 1)
      /\ b[t].kind = a[t].kind /\ b[t].address = a[t].address /\ b[t].success = a[t].success
      /\ b[n + 1].children = <<>> /\ b[n + 1].logs = <<>> /\ b[n + 1].success
  BY DEF Enters, Node
<1>4. /\ b[t].children[q + 1] = n + 1
      /\ \A c \in 1 .. q : b[t].children[c] = a[t].children[c]
      /\ DOMAIN b[t].children = 1 .. (q + 1)
  <2> HIDE DEF n, t, q
  <2> DEFINE cs == a[t].children
             N == Nat
  <2>1. cs \in Seq(N) /\ n + 1 \in N /\ Len(cs) = q
    BY <1>1, <1>2 DEF q
  <2> HIDE DEF cs, N
  <2>2. /\ Append(cs, n + 1) \in Seq(N) /\ Len(Append(cs, n + 1)) = Len(cs) + 1
        /\ Append(cs, n + 1)[Len(cs) + 1] = n + 1
        /\ \A c \in 1 .. Len(cs) : Append(cs, n + 1)[c] = cs[c]
    BY <2>1, AppendProperties
  <2>3. DOMAIN Append(cs, n + 1) = 1 .. (q + 1)
    BY <2>1, <2>2
  <2> QED
    BY <1>3, <2>1, <2>2, <2>3 DEF cs
<1>5. /\ Collected(a) \in [1 .. n -> [Contexts -> Seq(Moves)]]
      /\ \A i \in 1 .. n, context \in Contexts :
            Collected(a)[i][context] = CollectedOf(a, i, context, Collected(a))
      /\ Collected(b) \in [1 .. (n + 1) -> [Contexts -> Seq(Moves)]]
      /\ \A i \in 1 .. (n + 1), context \in Contexts :
            Collected(b)[i][context] = CollectedOf(b, i, context, Collected(b))
  <2>1. /\ Collected(a) \in [1 .. n -> [Contexts -> Seq(Moves)]]
        /\ \A i \in 1 .. n, context \in Contexts :
              Collected(a)[i][context] = CollectedOf(a, i, context, Collected(a))
    BY CollectedRecursion
  <2>2. /\ Collected(b) \in [1 .. Len(b) -> [Contexts -> Seq(Moves)]]
        /\ \A i \in 1 .. Len(b), context \in Contexts :
              Collected(b)[i][context] = CollectedOf(b, i, context, Collected(b))
    BY CollectedRecursion
  <2> QED
    BY <1>3, <2>1, <2>2
<1>6. t \in 1 .. (n + 1) /\ n + 1 \in 1 .. (n + 1)
  BY <1>1
<1>7. ASSUME NEW context \in Contexts PROVE Collected(b)[n + 1][context] = <<>>
  <2>1. Own(b[n + 1], context) = <<>> /\ OfChildren(b[n + 1], context, Collected(b)) = <<>>
    BY <1>3 DEF Own, OfChildren
  <2>2. CollectedOf(b, n + 1, context, Collected(b)) = <<>> \o <<>>
    BY <1>3, <2>1, FlattenNothing DEF CollectedOf, IsReverted
  <2> QED
    BY <1>5, <1>6, <2>2
<1>8. \A i \in 1 .. n, context \in Contexts :
         i \notin OpenNodes(fr) => Collected(b)[i][context] = Collected(a)[i][context]
  <2>1. t \in OpenNodes(fr)
    BY <1>1 DEF OpenNodes
  <2>2. \A i \in 1 .. n : i \notin OpenNodes(fr) => a[i] = b[i]
    BY <1>3, <2>1
  <2>3. n <= Len(b)
    BY <1>1, <1>3
  <2> QED
    BY <2>2, <2>3, PathApart, SameCollected
<1>9. ASSUME NEW context \in Contexts PROVE Collected(b)[t][context] = Collected(a)[t][context]
  <2> DEFINE token == TokenContext(a[t], context)
             ss == OfChildren(a[t], context, Collected(a))
             tt == OfChildren(b[t], context, Collected(b))
  <2>1. TokenContext(b[t], context) = token /\ token \in Contexts
    <3>1. token \in Contexts
      BY <1>1, <1>5, CollectedParts
    <3> QED
      BY <1>3, <3>1 DEF TokenContext
  <2>2. Own(b[t], context) = Own(a[t], context)
    BY <1>3, <2>1 DEF Own
  <2>3. ss \in Seq(Seq(Moves)) /\ Len(ss) = q /\ tt \in Seq(Seq(Moves))
    <3> DEFINE ca == Collected(a)
               cb == Collected(b)
    <3>1. ca \in [1 .. Len(a) -> [Contexts -> Seq(Moves)]]
      BY <1>5
    <3>2. cb \in [1 .. Len(b) -> [Contexts -> Seq(Moves)]]
      BY <1>3, <1>5
    <3>3. t \in 1 .. Len(a) /\ t \in 1 .. Len(b)
      BY <1>1, <1>3, <1>6
    <3> HIDE DEF ca, cb, t
    <3>4. OfChildren(a[t], context, ca) \in Seq(Seq(Moves))
          /\ Len(OfChildren(a[t], context, ca)) = Len(a[t].children)
      BY <3>1, <3>3, CollectedParts
    <3>5. OfChildren(b[t], context, cb) \in Seq(Seq(Moves))
      BY <3>2, <3>3, CollectedParts
    <3> QED
      BY <3>4, <3>5 DEF ca, cb
  <2>4. /\ DOMAIN ss = 1 .. q /\ DOMAIN tt = 1 .. (q + 1)
        /\ \A c \in 1 .. q : ss[c] = Collected(a)[a[t].children[c]][token]
        /\ \A c \in 1 .. (q + 1) : tt[c] = Collected(b)[b[t].children[c]][token]
    BY <1>2, <1>4, <2>1 DEF OfChildren
  <2>5. ASSUME NEW c \in 1 .. q PROVE tt[c] = ss[c]
    <3>1. c \in 1 .. (q + 1)
      BY <1>2
    <3>2. a[t].children[c] \in 1 .. n /\ a[t].children[c] \notin OpenNodes(fr)
      BY <1>1, PathFrame, TreeNodes
    <3> QED
      BY <1>4, <1>8, <2>1, <2>4, <3>1, <3>2
  <2>6. tt[q + 1] = <<>>
    <3>1. q + 1 \in 1 .. (q + 1)
      BY <1>2
    <3> QED
      BY <1>4, <1>7, <2>1, <2>4, <3>1
  <2> HIDE DEF ss, tt, q
  <2>7. tt = Append(ss, <<>>)
    <3> DEFINE R == Seq(Moves)
    <3>1. ss \in Seq(R) /\ tt \in Seq(R) /\ <<>> \in R
      BY <2>3
    <3> HIDE DEF R
    <3>2. /\ Append(ss, <<>>) \in Seq(R) /\ Len(Append(ss, <<>>)) = Len(ss) + 1
          /\ Append(ss, <<>>)[Len(ss) + 1] = <<>>
          /\ \A c \in 1 .. Len(ss) : Append(ss, <<>>)[c] = ss[c]
      BY <3>1, AppendProperties
    <3>3. \A c \in 1 .. (q + 1) : c \in 1 .. q \/ c = q + 1
      BY <1>2
    <3>4. Len(tt) = q + 1
      <4>1. Len(tt) \in Nat /\ DOMAIN tt = 1 .. Len(tt)
        BY <3>1
      <4>2. q + 1 \in Nat /\ 1 .. Len(tt) = 1 .. (q + 1)
        BY <1>2, <2>4, <4>1
      <4> QED
        BY <4>1, <4>2
    <3>5. \A c \in 1 .. (q + 1) : tt[c] = Append(ss, <<>>)[c]
      BY <2>3, <2>5, <2>6, <3>2, <3>3
    <3> QED
      BY <2>3, <3>1, <3>2, <3>4, <3>5, SeqEqual
  <2>8. FlattenSeq(tt) = FlattenSeq(ss)
    <3>1. FlattenSeq(ss) \in Seq(Moves) /\ <<>> \in Seq(Moves)
      BY <2>3, FlattenTypes
    <3>2. FlattenSeq(tt) = FlattenSeq(ss) \o <<>>
      BY <2>3, <2>7, <3>1, FlattenMore
    <3> QED
      BY <3>1, <3>2
  <2>9. CollectedOf(b, t, context, Collected(b)) = CollectedOf(a, t, context, Collected(a))
    BY <1>3, <2>2, <2>8 DEF CollectedOf, IsReverted, ss, tt
  <2> QED
    BY <1>1, <1>5, <1>6, <2>9
<1>10. ASSUME NEW k \in 2 .. m PROVE CollectedIn(b, fr, k, mu) = CollectedIn(a, fr, k, mu)
  <2>1. m > 1 /\ m - 1 \in 1 .. m /\ k \in 2 .. m
    BY <1>1
  <2> DEFINE context == fr[m - 1].context
  <2>2. context \in Contexts
    BY <2>1, PathFrame
  <2>3. Collected(b)[t][context] = Collected(a)[t][context]
        /\ Collected(a)[t][context] \in Seq(Moves)
    <3>1. Collected(a)[t] \in [Contexts -> Seq(Moves)]
      BY <1>1, <1>5
    <3> QED
      BY <1>9, <2>2, <3>1
  <2>4. Weight(mu, Collected(b)[t][context]) = Weight(mu, Collected(a)[t][context]) + 0
    <3>1. Weight(mu, Collected(a)[t][context]) \in Int
      BY <2>3, WeightNumbers
    <3> QED
      BY <2>3, <3>1
  <2>5. NodesKept(a, b, fr[Len(fr)].node)
    BY <1>3 DEF NodesKept
  <2>6. Len(a) <= Len(b)
    BY <1>1, <1>3
  <2>7. CollectedIn(b, fr, k, mu) = CollectedIn(a, fr, k, mu) + 0
    BY <2>1, <2>4, <2>5, <2>6, WeightsGrow DEF CollectedIn
  <2>8. CollectedIn(a, fr, k, mu) \in Int
    <3>1. k \in 1 .. m /\ k - 1 \in 1 .. m
      BY <2>1
    <3>2. fr[k].node \in 1 .. n /\ fr[k - 1].context \in Contexts
      BY <3>1, PathFrame
    <3>3. Collected(a)[fr[k].node][fr[k - 1].context] \in Seq(Moves)
      BY <1>5, <3>2
    <3> QED
      BY <3>3, WeightNumbers DEF CollectedIn
  <2> QED
    BY <2>7, <2>8
<1>q. /\ \A context \in Contexts : Collected(b)[Len(a) + 1][context] = <<>>
      /\ \A k \in 2 .. Len(fr) : CollectedIn(b, fr, k, mu) = CollectedIn(a, fr, k, mu)
  BY <1>7, <1>10
<1> QED
  BY <1>q DEF FindsNothing


-----------------------------------------------------------------------------
(* What a log makes of the arena. *)
LogEntry(n) == [kind |-> "Log", index |-> n]
LogsIn(a, b, t, log) ==
    /\ b \in Seq(Nodes) /\ Len(b) = Len(a)
    /\ \A i \in 1 .. Len(a) : i # t => b[i] = a[i]
    /\ b[t].parent = a[t].parent /\ b[t].kind = a[t].kind /\ b[t].address = a[t].address
    /\ b[t].success = a[t].success /\ b[t].children = a[t].children
    /\ b[t].logs = Append(a[t].logs, log)
    /\ b[t].ordering = Append(a[t].ordering, LogEntry(Len(a[t].logs) + 1))

(* It is shown below all that is shown of the frames. *)
ShowsLog(a, b, fr, log) ==
    \A k \in 1 .. Len(fr) :
        Rows(b)[fr[k].node] = Append(Rows(a)[fr[k].node], <<"log", log>>)

(* It is one more transfer found in each of the frames. *)
MoveOf(log, token) == [token |-> token, from |-> log.from, to |-> log.to, amount |-> log.amount]
FindsMove(a, b, fr, log, mu) ==
    \A k \in 2 .. Len(fr) :
        CollectedIn(b, fr, k, mu)
          = CollectedIn(a, fr, k, mu) + mu[MoveOf(log, fr[Len(fr)].context)]

(* This is what EmitTransfer does to the arena,                              *)
LEMMA LogsIsEmit ==
  ASSUME NEW a, Tree(a), NEW t \in 1 .. Len(a), NEW log \in LogRecords, NEW b,
         b = [a EXCEPT ![t].logs = Append(@, log),
                       ![t].ordering = Append(@, [kind |-> "Log", index |-> Len(a[t].logs) + 1])]
  PROVE  LogsIn(a, b, t, log)
<1> DEFINE logs == Append(a[t].logs, log)
           ordering == Append(a[t].ordering, LogEntry(Len(a[t].logs) + 1))
<1>1. /\ a \in Seq(Nodes) /\ Len(a) \in Nat /\ a[t] \in Nodes /\ DOMAIN a = 1 .. Len(a)
      /\ a[t].logs \in Seq(LogRecords) /\ Len(a[t].logs) \in Nat
      /\ a[t].ordering \in Seq(Entries)
      /\ \A i \in 1 .. Len(a) : a[i] \in Nodes
  <2>1. a \in Seq(Nodes) /\ \A i \in 1 .. Len(a) : a[i] \in Nodes
    BY DEF Tree
  <2> QED
    BY <2>1, TreeNodes
<1>2. b = [a EXCEPT ![t].logs = logs, ![t].ordering = ordering]
  BY DEF LogEntry
<1>3. logs \in Seq(LogRecords)
  BY <1>1
<1>4. ordering \in Seq(Entries)
  <2>1. LogEntry(Len(a[t].logs) + 1) \in Entries
    BY <1>1 DEF LogEntry, Entries
  <2> QED
    BY <1>1, <2>1
<1>c. logs = Append(a[t].logs, log)
      /\ ordering = Append(a[t].ordering, LogEntry(Len(a[t].logs) + 1))
  OBVIOUS
<1> HIDE DEF logs, ordering
<1>6. /\ DOMAIN b = 1 .. Len(a) /\ \A i \in 1 .. Len(a) : i # t => b[i] = a[i]
      /\ b[t].parent = a[t].parent /\ b[t].kind = a[t].kind /\ b[t].address = a[t].address
      /\ b[t].success = a[t].success /\ b[t].children = a[t].children
      /\ b[t].logs = logs /\ b[t].ordering = ordering
      /\ b[t] \in Nodes
  <2>1. b[t] = [[a[t] EXCEPT !.logs = logs] EXCEPT !.ordering = ordering]
    BY <1>1, <1>2
  <2>2. [[a[t] EXCEPT !.logs = logs] EXCEPT !.ordering = ordering] \in Nodes
    BY <1>1, <1>3, <1>4 DEF Nodes
  <2> QED
    BY <1>1, <1>2, <2>1, <2>2 DEF Nodes
<1>7. b \in Seq(Nodes) /\ Len(b) = Len(a)
  <2>1. \A i \in 1 .. Len(a) : b[i] \in Nodes
    BY <1>1, <1>6
  <2>2. b = [i \in 1 .. Len(a) |-> b[i]]
    BY <1>1, <1>2
  <2> QED
    <3>1. b \in [1 .. Len(a) -> Nodes]
      BY <2>1, <2>2
    <3>2. \A c \in [1 .. Len(a) -> Nodes] : c \in Seq(Nodes) /\ Len(c) = Len(a)
      <4>1. Len(a) \in Nat
        BY <1>1
      <4> DEFINE n == Len(a)
      <4> HIDE DEF n
      <4>2. \A c \in [1 .. n -> Nodes] : c \in Seq(Nodes) /\ Len(c) = n
        BY <4>1 DEF n
      <4> QED
        BY <4>2 DEF n
    <3> QED
      BY <3>1, <3>2
<1> QED
  BY <1>6, <1>7, <1>c DEF LogsIn

(* and what it makes is a tree again.                                        *)
LEMMA LogsTree ==
  ASSUME NEW a, Tree(a), CallsInOrder(a), NEW t \in 1 .. Len(a), NEW log \in LogRecords,
         NEW b, LogsIn(a, b, t, log)
  PROVE  Tree(b) /\ CallsInOrder(b)
<1> DEFINE n == Len(a)
           l == Len(a[t].ordering)
           q == Len(a[t].logs)
<1>1. /\ n \in Nat /\ l \in Nat /\ q \in Nat /\ t \in 1 .. n
      /\ a[t].logs \in Seq(LogRecords) /\ a[t].ordering \in Seq(Entries)
  BY TreeNodes
<1>2. /\ b \in Seq(Nodes) /\ Len(b) = n /\ \A i \in 1 .. n : i # t => b[i] = a[i]
      /\ b[t].children = a[t].children
      /\ b[t].ordering = Append(a[t].ordering, LogEntry(q + 1))
      /\ b[t].logs = Append(a[t].logs, log)
  BY DEF LogsIn
<1>b. LogEntry(q + 1).kind = "Log" /\ LogEntry(q + 1).index = q + 1
  BY DEF LogEntry
<1>a. /\ \A i \in 1 .. n : \A c \in 1 .. Len(a[i].children) : a[i].children[c] \in (i + 1) .. n
      /\ \A i \in 1 .. n : \A e \in 1 .. Len(a[i].ordering) :
           /\ a[i].ordering[e].kind = "Log" => a[i].ordering[e].index \in 1 .. Len(a[i].logs)
           /\ a[i].ordering[e].kind # "Log" => a[i].ordering[e].index \in 1 .. Len(a[i].children)
  <2>1. ASSUME NEW i \in 1 .. n
        PROVE  \A c \in 1 .. Len(a[i].children) : a[i].children[c] \in (i + 1) .. n
    BY TreeNodes
  <2>2. ASSUME NEW i \in 1 .. n, NEW e \in 1 .. Len(a[i].ordering)
        PROVE  /\ a[i].ordering[e].kind = "Log" => a[i].ordering[e].index \in 1 .. Len(a[i].logs)
               /\ a[i].ordering[e].kind # "Log" =>
                     a[i].ordering[e].index \in 1 .. Len(a[i].children)
    BY TreeNodes
  <2> QED
    BY <2>1, <2>2
<1> HIDE DEF n, l, q
<1>3. /\ Len(b[t].logs) = q + 1
      /\ Len(b[t].ordering) = l + 1 /\ b[t].ordering[l + 1] = LogEntry(q + 1)
      /\ \A e \in 1 .. l : b[t].ordering[e] = a[t].ordering[e]
  <2> DEFINE os == a[t].ordering
  <2>1. LogEntry(q + 1) \in Entries
    BY <1>1 DEF LogEntry, Entries
  <2>2. os \in Seq(Entries) /\ Len(os) = l
    BY <1>1 DEF l
  <2> HIDE DEF os
  <2>3. /\ Len(Append(os, LogEntry(q + 1))) = Len(os) + 1
        /\ Append(os, LogEntry(q + 1))[Len(os) + 1] = LogEntry(q + 1)
        /\ \A e \in 1 .. Len(os) : Append(os, LogEntry(q + 1))[e] = os[e]
    BY <2>1, <2>2, AppendProperties
  <2>4. Len(Append(a[t].logs, log)) = q + 1
    BY <1>1 DEF q
  <2> QED
    BY <1>2, <2>2, <2>3, <2>4 DEF os
<1>6. ASSUME NEW i \in 1 .. n, NEW c \in 1 .. Len(b[i].children)
      PROVE  b[i].children[c] \in (i + 1) .. n
  BY <1>2, <1>a
<1>7. ASSUME NEW i \in 1 .. n, NEW e \in 1 .. Len(b[i].ordering)
      PROVE  /\ b[i].ordering[e].kind = "Log" => b[i].ordering[e].index \in 1 .. Len(b[i].logs)
             /\ b[i].ordering[e].kind # "Log" => b[i].ordering[e].index \in 1 .. Len(b[i].children)
  <2>2. CASE i = t
    <3>1. CASE e = l + 1
      BY <1>1, <1>3, <1>b, <2>2, <3>1
    <3>2. CASE e # l + 1
      <4>1. e \in 1 .. l
        BY <1>1, <1>3, <2>2, <3>2
      <4>2. /\ a[t].ordering[e].kind = "Log" => a[t].ordering[e].index \in 1 .. q
            /\ a[t].ordering[e].kind # "Log" =>
                  a[t].ordering[e].index \in 1 .. Len(a[t].children)
        BY <1>1, <1>a, <4>1 DEF l, q
      <4>3. b[i].ordering[e] = a[t].ordering[e] /\ b[i].children = a[t].children
            /\ Len(b[i].logs) = q + 1
        BY <1>2, <1>3, <2>2, <4>1
      <4>4. 1 .. q \subseteq 1 .. (q + 1)
        BY <1>1
      <4> QED
        BY <4>2, <4>3, <4>4
    <3> QED
      BY <3>1, <3>2
  <2>3. CASE i # t
    BY <1>2, <1>a, <2>3
  <2> QED
    BY <2>2, <2>3
<1>8. Tree(b)
  BY <1>2, <1>6, <1>7 DEF Tree
<1>9. ASSUME NEW i \in 1 .. n, NEW e \in 1 .. Len(b[i].ordering),
             NEW f \in 1 .. Len(b[i].ordering), e < f,
             b[i].ordering[e].kind = "Call", b[i].ordering[f].kind = "Call"
      PROVE  b[i].ordering[e].index < b[i].ordering[f].index
  <2>2. CASE i = t
    <3>1. f # l + 1
      BY <1>3, <1>9, <1>b, <2>2
    <3>2. e \in 1 .. l /\ f \in 1 .. l
      BY <1>1, <1>3, <1>9, <2>2, <3>1
    <3> QED
      BY <1>3, <1>9, <2>2, <3>2 DEF CallsInOrder, n, l
  <2>3. CASE i # t
    BY <1>2, <1>9, <2>3 DEF CallsInOrder, n
  <2> QED
    BY <2>2, <2>3
<1>10. CallsInOrder(b)
  BY <1>2, <1>9 DEF CallsInOrder
<1> QED
  BY <1>8, <1>10

(* The frame on top has no call below it that is open: its entries may end   *)
(* with a log.                                                               *)
LEMMA LogsPath ==
  ASSUME NEW a, Tree(a), NEW fr, Path(a, fr), NEW log, NEW b,
         LogsIn(a, b, fr[Len(fr)].node, log)
  PROVE  Path(b, fr)
<1> DEFINE n == Len(a)
           m == Len(fr)
           t == fr[m].node
<1>1. /\ fr \in Seq(FrameRecords) /\ m > 0
      /\ \A k \in 1 .. m : fr[k].node \in 1 .. n /\ a[fr[k].node].success
      /\ \A j, k \in 1 .. m : j < k => fr[j].node < fr[k].node
      /\ \A k \in 1 .. (m - 1) :
           /\ LastCall(a[fr[k].node])
           /\ a[fr[k].node].children[Len(a[fr[k].node].children)] = fr[k + 1].node
           /\ fr[k + 1].context = TokenContext(a[fr[k + 1].node], fr[k].context)
      /\ \A i \in 1 .. n : \A c \in 1 .. Len(a[i].children), k \in 1 .. m :
           a[i].children[c] = fr[k].node =>
              k > 1 /\ i = fr[k - 1].node /\ c = Len(a[i].children)
  BY DEF Path
<1>2. /\ \A i \in 1 .. n : i # t => b[i] = a[i]
      /\ b[t].kind = a[t].kind /\ b[t].address = a[t].address /\ b[t].success = a[t].success
      /\ b[t].children = a[t].children /\ Len(b) = n
  BY DEF LogsIn
<1>3. \A i \in 1 .. n : b[i].children = a[i].children /\ b[i].success = a[i].success
  BY <1>2
<1>4. \A i \in 1 .. n : \A context : TokenContext(b[i], context) = TokenContext(a[i], context)
  BY <1>2 DEF TokenContext
<1> HIDE DEF n, m, t
<1>5. ASSUME NEW k \in 1 .. (m - 1)
      PROVE  /\ LastCall(b[fr[k].node])
             /\ b[fr[k].node].children[Len(b[fr[k].node].children)] = fr[k + 1].node
             /\ fr[k + 1].context = TokenContext(b[fr[k + 1].node], fr[k].context)
  <2>1. k \in 1 .. m /\ k # m /\ k + 1 \in 1 .. m
    <3>1. m \in Nat
      BY <1>1 DEF m
    <3> QED
      BY <3>1
  <2>2. fr[k].node \in 1 .. n /\ fr[k + 1].node \in 1 .. n /\ fr[k].node # t
    BY <1>1, <2>1, PathFrame DEF m, t
  <2>3. b[fr[k].node] = a[fr[k].node]
    BY <1>2, <2>2
  <2>4. TokenContext(b[fr[k + 1].node], fr[k].context) = TokenContext(a[fr[k + 1].node], fr[k].context)
    BY <1>4, <2>2
  <2>5. /\ LastCall(a[fr[k].node])
        /\ a[fr[k].node].children[Len(a[fr[k].node].children)] = fr[k + 1].node
        /\ fr[k + 1].context = TokenContext(a[fr[k + 1].node], fr[k].context)
    BY <1>1
  <2> QED
    BY <2>3, <2>4, <2>5
<1>6. \A k \in 1 .. m : fr[k].node \in 1 .. n /\ b[fr[k].node].success
  BY <1>1, <1>3
<1>7. ASSUME NEW i \in 1 .. n, NEW c \in 1 .. Len(b[i].children), NEW k \in 1 .. m,
             b[i].children[c] = fr[k].node
      PROVE  k > 1 /\ i = fr[k - 1].node /\ c = Len(b[i].children)
  BY <1>1, <1>3, <1>7
<1>8. m = Len(fr) /\ n = Len(b)
  BY <1>2 DEF m
<1> QED
  BY <1>1, <1>5, <1>6, <1>7, <1>8 DEF Path


(* Every frame shows the log, at its end. *)
LEMMA LogsRows ==
  ASSUME NEW a, Tree(a), CallsInOrder(a), NEW fr, Path(a, fr), NEW log \in LogRecords, NEW b,
         Tree(b), LogsIn(a, b, fr[Len(fr)].node, log)
  PROVE  ShowsLog(a, b, fr, log)
<1> DEFINE n == Len(a)
           m == Len(fr)
           t == fr[m].node
           new == <<<<"log", log>>>>
           q == Len(a[t].logs)
           l == Len(a[t].ordering)
           ss == EntryRows(a[t], Rows(a))
           tt == EntryRows(b[t], Rows(b))
           first == <<<<"call", t>>>>
<1>1. n \in Nat /\ m \in Nat /\ m > 0 /\ m \in 1 .. m /\ t \in 1 .. n
  <2>1. n \in Nat /\ m \in Nat /\ m > 0
    BY DEF Path, Tree
  <2>2. m \in 1 .. m
    BY <2>1
  <2> QED
    BY <2>1, <2>2, PathFrame
<1>2. /\ q \in Nat /\ l \in Nat /\ DOMAIN a[t].ordering = 1 .. l
      /\ a[t].ordering \in Seq(Entries) /\ a[t].logs \in Seq(LogRecords)
  BY <1>1, TreeNodes
<1>3. /\ Len(b) = n /\ \A i \in 1 .. n : i # t => b[i] = a[i]
      /\ b[t].children = a[t].children /\ b[t].logs = Append(a[t].logs, log)
      /\ b[t].ordering = Append(a[t].ordering, LogEntry(q + 1))
  BY DEF LogsIn
<1>4. /\ b[t].logs[q + 1] = log
      /\ \A c \in 1 .. q : b[t].logs[c] = a[t].logs[c]
      /\ Len(b[t].ordering) = l + 1 /\ b[t].ordering[l + 1] = LogEntry(q + 1)
      /\ \A e \in 1 .. l : b[t].ordering[e] = a[t].ordering[e]
      /\ DOMAIN b[t].ordering = 1 .. (l + 1)
  <2>1. LogEntry(q + 1) \in Entries
    BY <1>2 DEF LogEntry, Entries
  <2> HIDE DEF n, t, q, l
  <2> DEFINE ls == a[t].logs
             os == a[t].ordering
  <2>2. ls \in Seq(LogRecords) /\ Len(ls) = q /\ os \in Seq(Entries) /\ Len(os) = l
    BY <1>2, <2>1 DEF q, l
  <2> HIDE DEF ls, os
  <2>3. /\ Append(ls, log)[Len(ls) + 1] = log
        /\ \A c \in 1 .. Len(ls) : Append(ls, log)[c] = ls[c]
    BY <2>2, AppendProperties
  <2>4. /\ Append(os, LogEntry(q + 1)) \in Seq(Entries)
        /\ Len(Append(os, LogEntry(q + 1))) = Len(os) + 1
        /\ Append(os, LogEntry(q + 1))[Len(os) + 1] = LogEntry(q + 1)
        /\ \A e \in 1 .. Len(os) : Append(os, LogEntry(q + 1))[e] = os[e]
    BY <2>1, <2>2, AppendProperties
  <2>5. DOMAIN Append(os, LogEntry(q + 1)) = 1 .. (l + 1)
    BY <2>2, <2>4
  <2> QED
    BY <1>3, <2>2, <2>3, <2>4, <2>5 DEF ls, os
<1>5. /\ Rows(a) \in [1 .. n -> Seq(RowsShown)] /\ Rows(a)[t] = first \o FlattenSeq(ss)
      /\ Rows(b) \in [1 .. n -> Seq(RowsShown)] /\ Rows(b)[t] = first \o FlattenSeq(tt)
  <2>1. /\ Rows(a) \in [1 .. n -> Seq(RowsShown)]
        /\ \A i \in 1 .. n : Rows(a)[i] = NodeRows(a, i, Rows(a))
    BY RowsRecursion
  <2>2. /\ Rows(b) \in [1 .. n -> Seq(RowsShown)]
        /\ \A i \in 1 .. n : Rows(b)[i] = NodeRows(b, i, Rows(b))
    BY <1>3, RowsRecursion
  <2> QED
    BY <1>1, <2>1, <2>2 DEF NodeRows
<1>6. /\ ss \in Seq(Seq(RowsShown)) /\ Len(ss) = l
      /\ tt \in Seq(Seq(RowsShown)) /\ Len(tt) = l + 1
  <2>1. t \in 1 .. Len(b)
    BY <1>1, <1>3
  <2>2. ss \in Seq(Seq(RowsShown)) /\ Len(ss) = l
    BY <1>1, <1>5, NodeRowsTypes
  <2>3. tt \in Seq(Seq(RowsShown)) /\ Len(tt) = Len(b[t].ordering)
    BY <1>3, <1>5, <2>1, NodeRowsTypes
  <2> QED
    BY <1>4, <2>2, <2>3
<1>7. /\ \A e \in 1 .. l : ss[e] = EntryRow(a[t], a[t].ordering[e], Rows(a))
      /\ \A e \in 1 .. (l + 1) : tt[e] = EntryRow(b[t], b[t].ordering[e], Rows(b))
  BY <1>2, <1>4 DEF EntryRows
<1>8. new \in Seq(RowsShown) /\ first \in Seq(RowsShown)
  <2>1. <<"log", log>> \in RowsShown /\ <<"call", t>> \in RowsShown
    BY <1>1 DEF RowsShown
  <2> QED
    BY <2>1
<1>10. \A i \in 1 .. n : i \notin OpenNodes(fr) => Rows(b)[i] = Rows(a)[i]
  <2>1. t \in OpenNodes(fr)
    BY <1>1 DEF OpenNodes
  <2>2. \A i \in 1 .. n : i \notin OpenNodes(fr) => SameCalls(a[i], b[i])
    BY <1>3, <2>1 DEF SameCalls
  <2>3. n <= Len(b)
    BY <1>1, <1>3
  <2> QED
    BY <2>2, <2>3, PathApart, SameRows
<1>11. ASSUME NEW e \in 1 .. l PROVE tt[e] = ss[e]
  <2>1. e \in 1 .. (l + 1) /\ b[t].ordering[e] = a[t].ordering[e]
    BY <1>2, <1>4
  <2>2. CASE a[t].ordering[e].kind = "Log"
    <3> DEFINE c == a[t].ordering[e].index
    <3>1. c \in 1 .. q
      BY <1>1, <2>2, TreeNodes
    <3>2. b[t].logs[c] = a[t].logs[c]
      BY <1>4, <3>1
    <3>3. ss[e] = EntryRow(a[t], a[t].ordering[e], Rows(a))
      BY <1>7
    <3>4. tt[e] = EntryRow(b[t], a[t].ordering[e], Rows(b))
      BY <1>7, <2>1
    <3> HIDE DEF ss, tt
    <3>5. ss[e] = <<<<"log", a[t].logs[c]>>>>
      BY <2>2, <3>3 DEF EntryRow
    <3>6. tt[e] = <<<<"log", b[t].logs[c]>>>>
      BY <2>2, <3>4 DEF EntryRow
    <3> QED
      BY <3>2, <3>5, <3>6
  <2>3. CASE a[t].ordering[e].kind # "Log"
    <3> DEFINE c == a[t].ordering[e].index
    <3>1. c \in 1 .. Len(a[t].children)
      BY <1>1, <2>3, TreeNodes
    <3>2. a[t].children[c] \in 1 .. n
      BY <1>1, <3>1, TreeNodes
    <3>3. a[t].children[c] \notin OpenNodes(fr)
      BY <1>1, <3>1, PathFrame
    <3>4. Rows(b)[a[t].children[c]] = Rows(a)[a[t].children[c]]
      BY <1>10, <3>2, <3>3
    <3> QED
      BY <1>3, <1>7, <2>1, <2>3, <3>4 DEF EntryRow, CallIDFromOrdering
  <2> QED
    BY <2>2, <2>3
<1>12. tt[l + 1] = new
  <2>1. l + 1 \in 1 .. (l + 1)
    BY <1>2
  <2>2. tt[l + 1] = EntryRow(b[t], LogEntry(q + 1), Rows(b))
    BY <1>4, <1>7, <2>1
  <2>3. EntryRow(b[t], LogEntry(q + 1), Rows(b)) = <<<<"log", log>>>>
    BY <1>4 DEF EntryRow, LogEntry
  <2> QED
    BY <2>2, <2>3
<1>s. n = Len(a) /\ m = Len(fr) /\ t = fr[m].node /\ new = <<<<"log", log>>>>
  OBVIOUS
<1> DEFINE S == RowsShown
<1> HIDE DEF ss, tt, first, new, l, q, S, n, m, t
<1>13. Rows(b)[t] = Rows(a)[t] \o new
  <2>1. ss \in Seq(Seq(S)) /\ tt \in Seq(Seq(S)) /\ new \in Seq(S) /\ first \in Seq(S)
    BY <1>6, <1>8 DEF S
  <2>2. tt = Append(ss, new)
    <3>1. /\ Append(ss, new) \in Seq(Seq(S)) /\ Len(Append(ss, new)) = l + 1
          /\ Append(ss, new)[l + 1] = new
          /\ \A e \in 1 .. l : Append(ss, new)[e] = ss[e]
      BY <1>6, <2>1, AppendProperties
    <3>2. \A e \in 1 .. (l + 1) : e \in 1 .. l \/ e = l + 1
      BY <1>2
    <3>3. \A e \in 1 .. (l + 1) : tt[e] = Append(ss, new)[e]
      BY <1>11, <1>12, <3>1, <3>2
    <3> DEFINE R == Seq(S)
    <3>4. tt \in Seq(R) /\ Append(ss, new) \in Seq(R)
      BY <2>1, <3>1
    <3> HIDE DEF R
    <3> QED
      BY <1>6, <3>1, <3>3, <3>4, SeqEqual
  <2>3. first \o FlattenSeq(tt) = (first \o FlattenSeq(ss)) \o new
    BY <2>1, <2>2, FlattenOneLonger
  <2> QED
    BY <1>5, <2>3
<1>14. \A k \in 1 .. m : Rows(b)[fr[k].node] = Rows(a)[fr[k].node] \o new
  <2>1. CallsKept(a, b, fr[Len(fr)].node)
    BY <1>3, <1>s DEF SameCalls, CallsKept
  <2>2. Len(a) <= Len(b)
    BY <1>1, <1>3, <1>s
  <2>3. ShowsMore(a, b, fr[Len(fr)].node, new)
    BY <1>13, <1>s DEF ShowsMore
  <2>x. new \in Seq(RowsShown)
    BY <1>8
  <2>4. \A k \in 1 .. Len(fr) : ShowsMore(a, b, fr[k].node, new)
    BY <2>x, <2>1, <2>2, <2>3, RowsGrow
  <2> QED
    BY <1>s, <2>4 DEF ShowsMore
<1>15. ASSUME NEW k \in 1 .. Len(fr)
       PROVE  Rows(b)[fr[k].node] = Append(Rows(a)[fr[k].node], <<"log", log>>)
  <2> DEFINE r == Rows(a)[fr[k].node]
             x == <<"log", log>>
  <2>1. fr[k].node \in 1 .. Len(a)
    BY PathFrame
  <2>2. r \in Seq(RowsShown) /\ x \in RowsShown /\ new = <<x>>
    <3>1. x \in RowsShown
      BY DEF RowsShown
    <3> QED
      BY <1>5, <1>s, <2>1, <3>1
  <2>3. Rows(b)[fr[k].node] = r \o new
    BY <1>14, <1>s
  <2> HIDE DEF r, x
  <2>4. r \o <<x>> = Append(r, x)
    BY <2>2
  <2> QED
    BY <2>2, <2>3, <2>4 DEF r, x
<1>q. \A k \in 1 .. Len(fr) :
         Rows(b)[fr[k].node] = Append(Rows(a)[fr[k].node], <<"log", log>>)
  BY <1>15
<1> QED
  BY <1>q DEF ShowsLog

(* Every open frame finds the transfer that was logged on top of them.       *)
LEMMA LogsWeights ==
  ASSUME NEW a, Tree(a), NEW fr, Path(a, fr), NEW log \in LogRecords, NEW b,
         Tree(b), LogsIn(a, b, fr[Len(fr)].node, log), NEW mu \in Weights
  PROVE  FindsMove(a, b, fr, log, mu)
<1> SUFFICES ASSUME Len(fr) > 1
             PROVE  \A k \in 2 .. Len(fr) :
                       CollectedIn(b, fr, k, mu)
                         = CollectedIn(a, fr, k, mu) + mu[MoveOf(log, fr[Len(fr)].context)]
  <2>1. Len(fr) \in Nat
    BY DEF Path
  <2> QED
    BY <2>1 DEF FindsMove
<1> DEFINE n == Len(a)
           m == Len(fr)
           t == fr[m].node
           q == Len(a[t].logs)
           token == fr[m].context
           context == fr[m - 1].context
           move == MoveOf(log, token)
           own == Own(a[t], context)
           rest == FlattenSeq(OfChildren(a[t], context, Collected(a)))
<1>1. n \in Nat /\ m \in Nat /\ m > 1 /\ m \in 1 .. m /\ m - 1 \in 1 .. m /\ (m - 1) + 1 = m
      /\ m - 1 # m
  <2>1. n \in Nat /\ m \in Nat /\ m > 1
    BY DEF Path, Tree
  <2> HIDE DEF m, n
  <2> QED
    BY <2>1
<1>t. t \in 1 .. n /\ token \in Contexts /\ context \in Contexts
      /\ TokenContext(a[t], context) = token
  <2>1. t \in 1 .. n /\ token \in Contexts
    BY <1>1, PathFrame
  <2> DEFINE j == m - 1
  <2>2. j \in 1 .. Len(fr) /\ j # Len(fr)
    BY <1>1
  <2>3. /\ fr[j].context \in Contexts
        /\ fr[j + 1].context = TokenContext(a[fr[j + 1].node], fr[j].context)
    <3> HIDE DEF j, m, n, t
    <3> QED
      BY <2>2, PathFrame
  <2>4. j + 1 = m
    BY <1>1
  <2> HIDE DEF j
  <2>5. token = TokenContext(a[t], fr[j].context)
    BY <2>3, <2>4
  <2> QED
    BY <2>1, <2>3, <2>5 DEF j
<1>2. /\ q \in Nat /\ DOMAIN a[t].logs = 1 .. q /\ a[t].logs \in Seq(LogRecords)
      /\ \A c \in DOMAIN a[t].children : a[t].children[c] \in 1 .. n
      /\ DOMAIN a[t].children = 1 .. Len(a[t].children)
  BY <1>t, TreeNodes
<1>3. /\ Len(b) = n /\ \A i \in 1 .. n : i # t => b[i] = a[i]
      /\ b[t].kind = a[t].kind /\ b[t].address = a[t].address /\ b[t].success = a[t].success
      /\ b[t].children = a[t].children /\ b[t].logs = Append(a[t].logs, log)
  BY DEF LogsIn
<1>4. /\ b[t].logs[q + 1] = log /\ \A c \in 1 .. q : b[t].logs[c] = a[t].logs[c]
      /\ DOMAIN b[t].logs = 1 .. (q + 1)
  <2> HIDE DEF n, t, q
  <2> DEFINE ls == a[t].logs
  <2>1. ls \in Seq(LogRecords) /\ Len(ls) = q
    BY <1>2 DEF q
  <2> HIDE DEF ls
  <2>2. /\ Append(ls, log) \in Seq(LogRecords) /\ Len(Append(ls, log)) = Len(ls) + 1
        /\ Append(ls, log)[Len(ls) + 1] = log
        /\ \A c \in 1 .. Len(ls) : Append(ls, log)[c] = ls[c]
    BY <2>1, AppendProperties
  <2>3. DOMAIN Append(ls, log) = 1 .. (q + 1)
    BY <2>1, <2>2
  <2> QED
    BY <1>3, <2>1, <2>2, <2>3 DEF ls
<1>5. /\ Collected(a) \in [1 .. n -> [Contexts -> Seq(Moves)]]
      /\ \A i \in 1 .. n, c \in Contexts :
            Collected(a)[i][c] = CollectedOf(a, i, c, Collected(a))
      /\ \A i \in 1 .. n, c \in Contexts :
            Collected(b)[i][c] = CollectedOf(b, i, c, Collected(b))
  <2>1. /\ Collected(a) \in [1 .. n -> [Contexts -> Seq(Moves)]]
        /\ \A i \in 1 .. n, c \in Contexts :
              Collected(a)[i][c] = CollectedOf(a, i, c, Collected(a))
    BY CollectedRecursion
  <2>2. /\ \A i \in 1 .. Len(b), c \in Contexts :
              Collected(b)[i][c] = CollectedOf(b, i, c, Collected(b))
    BY CollectedRecursion
  <2> QED
    BY <1>3, <2>1, <2>2
<1>6. own \in Seq(Moves) /\ rest \in Seq(Moves) /\ Len(own) = q
      /\ \A c \in 1 .. q : own[c] = MoveOf(a[t].logs[c], token)
  <2>1. own \in Seq(Moves) /\ OfChildren(a[t], context, Collected(a)) \in Seq(Seq(Moves))
    <3> DEFINE ca == Collected(a)
    <3>1. ca \in [1 .. Len(a) -> [Contexts -> Seq(Moves)]] /\ t \in 1 .. Len(a)
      BY <1>5, <1>t
    <3>2. context \in Contexts
      BY <1>t
    <3> HIDE DEF ca, t, context
    <3>3. Own(a[t], context) \in Seq(Moves) /\ OfChildren(a[t], context, ca) \in Seq(Seq(Moves))
      BY <3>1, <3>2, CollectedParts
    <3> QED
      BY <3>3 DEF ca
  <2>2. rest \in Seq(Moves)
    BY <2>1, FlattenTypes
  <2>3. DOMAIN own = 1 .. q /\ \A c \in 1 .. q : own[c] = MoveOf(a[t].logs[c], token)
    BY <1>2, <1>t DEF Own, MoveOf
  <2> HIDE DEF own, q
  <2>4. Len(own) = q
    <3>1. Len(own) \in Nat /\ DOMAIN own = 1 .. Len(own)
      BY <2>1
    <3> QED
      BY <1>2, <2>3, <3>1
  <2> QED
    BY <2>1, <2>2, <2>3, <2>4
<1>7. move \in Moves
  BY <1>t DEF MoveOf, Moves, LogRecords
<1>8. Own(b[t], context) = Append(own, move)
  <2>1. TokenContext(b[t], context) = token
    BY <1>3, <1>t DEF TokenContext
  <2>2. Own(b[t], context) = [c \in 1 .. (q + 1) |-> MoveOf(b[t].logs[c], token)]
    BY <1>4, <2>1 DEF Own, MoveOf
  <2>3. /\ Append(own, move) \in Seq(Moves) /\ Len(Append(own, move)) = q + 1
        /\ Append(own, move)[q + 1] = move
        /\ \A c \in 1 .. q : Append(own, move)[c] = own[c]
    <3> HIDE DEF own, move, q
    <3> QED
      BY <1>6, <1>7, AppendProperties
  <2> DEFINE more == Append(own, move)
             mine == Own(b[t], context)
  <2>4. \A c \in 1 .. (q + 1) : c \in 1 .. q \/ c = q + 1
    BY <1>2
  <2>5. \A c \in 1 .. (q + 1) : mine[c] = more[c]
    <3>1. \A c \in 1 .. (q + 1) : mine[c] = MoveOf(b[t].logs[c], token)
      BY <2>2
    <3> HIDE DEF more, mine, own, q
    <3>2. \A c \in 1 .. q : mine[c] = more[c]
      BY <1>4, <1>6, <2>3, <2>4, <3>1 DEF more
    <3>3. mine[q + 1] = more[q + 1]
      <4>1. q + 1 \in 1 .. (q + 1)
        BY <1>2
      <4> QED
        BY <1>4, <2>3, <3>1, <4>1 DEF more
    <3> QED
      BY <2>4, <3>2, <3>3
  <2>6. DOMAIN more = 1 .. (q + 1) /\ more = [c \in 1 .. (q + 1) |-> more[c]]
    <3>1. more \in Seq(Moves) /\ Len(more) = q + 1
      BY <2>3
    <3> HIDE DEF more
    <3>2. DOMAIN more = 1 .. Len(more) /\ more = [c \in DOMAIN more |-> more[c]]
      BY <3>1
    <3> QED
      BY <3>1, <3>2
  <2>7. mine = [c \in 1 .. (q + 1) |-> mine[c]]
    BY <2>2
  <2> HIDE DEF more, mine
  <2>8. mine = more
    BY <2>5, <2>6, <2>7
  <2> QED
    BY <2>8 DEF more, mine
<1>9. OfChildren(b[t], context, Collected(b)) = OfChildren(a[t], context, Collected(a))
  <2>1. \A i \in 1 .. n, c \in Contexts :
           i \notin OpenNodes(fr) => Collected(b)[i][c] = Collected(a)[i][c]
    <3>1. t \in OpenNodes(fr)
      BY <1>1 DEF OpenNodes
    <3>2. \A i \in 1 .. n : i \notin OpenNodes(fr) => a[i] = b[i]
      BY <1>3, <3>1
    <3>3. n <= Len(b)
      <4>1. Len(b) = n /\ n \in Nat
        BY <1>1, <1>3
      <4> HIDE DEF n
      <4> QED
        BY <4>1
    <3> QED
      BY <3>2, <3>3, PathApart, SameCollected
  <2>2. \A c \in DOMAIN a[t].children : a[t].children[c] \notin OpenNodes(fr)
    BY <1>1, <1>2, PathFrame
  <2>3. TokenContext(b[t], context) = token
    BY <1>3, <1>t DEF TokenContext
  <2>4. \A c \in DOMAIN a[t].children :
           Collected(b)[a[t].children[c]][token] = Collected(a)[a[t].children[c]][token]
    BY <1>2, <1>t, <2>1, <2>2
  <2> QED
    BY <1>3, <1>t, <2>3, <2>4 DEF OfChildren
<1>10. /\ Collected(a)[t][context] = own \o rest
       /\ Collected(b)[t][context] = Append(own, move) \o rest
  <2>1. a[t].success
    BY <1>1 DEF Path
  <2>2. /\ Collected(a)[t][context] = CollectedOf(a, t, context, Collected(a))
        /\ Collected(b)[t][context] = CollectedOf(b, t, context, Collected(b))
    BY <1>5, <1>t
  <2> QED
    BY <1>3, <1>8, <1>9, <2>1, <2>2 DEF CollectedOf, IsReverted
<1> HIDE DEF own, rest, move
<1>11. Weight(mu, Collected(b)[t][context]) = Weight(mu, Collected(a)[t][context]) + mu[move]
  <2>1. Append(own, move) \in Seq(Moves)
    BY <1>6, <1>7
  <2>2. Weight(mu, Append(own, move) \o rest) = Weight(mu, Append(own, move)) + Weight(mu, rest)
    BY <1>6, <2>1, WeightConcat
  <2>3. Weight(mu, Append(own, move)) = Weight(mu, own) + mu[move]
    BY <1>6, <1>7, WeightAppend
  <2>4. Weight(mu, own \o rest) = Weight(mu, own) + Weight(mu, rest)
    BY <1>6, WeightConcat
  <2>5. Weight(mu, own) \in Int /\ Weight(mu, rest) \in Int /\ mu[move] \in Int
    <3>1. mu[move] \in Int
      BY <1>7 DEF Weights
    <3> QED
      BY <1>6, <3>1, WeightNumbers
  <2> QED
    BY <1>10, <2>2, <2>3, <2>4, <2>5
<1>12. NodesKept(a, b, fr[Len(fr)].node)
  BY <1>3 DEF NodesKept
<1>13. Len(a) <= Len(b) /\ mu[move] \in Int
  <2>1. mu[move] \in Int
    BY <1>7 DEF Weights
  <2>2. n = Len(a)
    OBVIOUS
  <2>3. Len(a) <= Len(b)
    <3>1. Len(b) = n /\ n \in Nat
      BY <1>1, <1>3
    <3> HIDE DEF n
    <3> QED
      BY <2>2, <3>1
  <2> QED
    BY <2>1, <2>3
<1>14. \A k \in 2 .. Len(fr) : CollectedIn(b, fr, k, mu) = CollectedIn(a, fr, k, mu) + mu[move]
  BY <1>11, <1>12, <1>13, WeightsGrow DEF CollectedIn
<1> QED
  BY <1>14 DEF move


-----------------------------------------------------------------------------
(* The calls of the harness. *)

(* The last node below the harness is the one the parser takes for the       *)
(* transaction, and the last call of the harness the one the Trace tab shows. *)
LEMMA TransactionFound ==
  ASSUME NEW a, Tree(a), HarnessCalls(a), Len(a[1].children) > 0
  PROVE  /\ Transaction(a) \in 2 .. Len(a)
         /\ TransactionRoot(a) = Transaction(a)
         /\ MainCall(a) = Transaction(a)
<1> DEFINE x == Transaction(a)
           l == Len(a[1].ordering)
           q == Len(a[1].children)
<1>1. 1 \in 1 .. Len(a)
  BY DEF Tree, HarnessCalls
<1>2. /\ l \in Nat /\ q \in Nat /\ q > 0 /\ q \in 1 .. q
      /\ DOMAIN a = 1 .. Len(a) /\ Len(a) \in Nat
      /\ DOMAIN a[1].ordering = 1 .. l
      /\ \A e \in 1 .. l : a[1].ordering[e].kind # "Log" => a[1].ordering[e].index \in 1 .. q
  <2>1. /\ l \in Nat /\ q \in Nat /\ q > 0
        /\ DOMAIN a = 1 .. Len(a) /\ Len(a) \in Nat
        /\ DOMAIN a[1].ordering = 1 .. l
        /\ \A e \in 1 .. l : a[1].ordering[e].kind # "Log" => a[1].ordering[e].index \in 1 .. q
    BY <1>1, TreeNodes
  <2> HIDE DEF q
  <2>2. q \in 1 .. q
    BY <2>1
  <2> QED
    BY <2>1, <2>2
<1>3. x \in 2 .. Len(a) /\ x \in 1 .. Len(a)
  <2>1. x \in (1 + 1) .. Len(a) /\ x \in 1 .. Len(a)
    BY <1>1, <1>2, TreeNodes DEF Transaction
  <2> QED
    BY <1>2, <2>1
<1>4. /\ l > 0 /\ a[1].ordering[l].kind = "Call" /\ a[1].ordering[l].index = q
      /\ a[x].parent = 1
      /\ \A i \in 1 .. Len(a) : a[i].parent = 1 => i <= x
  BY DEF HarnessCalls, LastCall
<1>5. l \in 1 .. l
  BY <1>2, <1>4
<1>6. TransactionRoot(a) = x
  <2>1. ASSUME NEW i \in 1 .. Len(a), a[i].parent = 1,
               \A j \in 1 .. Len(a) : a[j].parent = 1 => j <= i
        PROVE  i = x
    <3>1. i <= x /\ x <= i
      BY <1>3, <1>4, <2>1
    <3> HIDE DEF x
    <3> QED
      BY <1>2, <1>3, <3>1
  <2> HIDE DEF x
  <2> QED
    BY <1>2, <1>3, <1>4, <2>1 DEF TransactionRoot
<1>7. MainCall(a) = x
  <2> DEFINE os == a[1].ordering
             Chosen(k) == os[k].kind = "Call" /\ \A j \in 1 .. l : os[j].kind = "Call" => j <= k
  <2>1. Chosen(l)
    BY <1>2, <1>4
  <2>2. ASSUME NEW k \in 1 .. l, Chosen(k) PROVE k = l
    <3>1. l <= k
      BY <1>4, <1>5, <2>2
    <3> QED
      BY <1>2, <3>1
  <2> DEFINE last == CHOOSE k \in 1 .. l : Chosen(k)
  <2>3. last = l
    <3> HIDE DEF Chosen, l
    <3> QED
      BY <1>5, <2>1, <2>2
  <2>4. MainCall(a) = a[1].children[os[last].index]
    BY <1>2 DEF MainCall, OrderedEntries, CallIDFromOrdering
  <2> QED
    BY <1>4, <2>3, <2>4 DEF Transaction
<1> QED
  BY <1>3, <1>6, <1>7 DEF x

(* While a call of the harness is open it is its last one. *)
LEMMA OpenTransaction ==
  ASSUME NEW a, Tree(a), NEW fr, Path(a, fr), fr[1].node = 1, Len(fr) > 1
  PROVE  Len(a[1].children) > 0 /\ Transaction(a) = fr[2].node /\ fr[Len(fr)].node # 1
<1>1. Len(fr) \in Nat /\ 1 \in 1 .. Len(fr) /\ 1 # Len(fr)
  BY DEF Path
<1>2. /\ fr[1].node # fr[Len(fr)].node
      /\ LastCall(a[fr[1].node])
      /\ a[fr[1].node].children[Len(a[fr[1].node].children)] = fr[1 + 1].node
  BY <1>1, PathFrame
<1> QED
  BY <1>2 DEF LastCall, Transaction

(* A call made by the harness becomes its last one; another leaves them.     *)
LEMMA EntersHarness ==
  ASSUME NEW a, Tree(a), HarnessCalls(a), NEW fr, Path(a, fr), fr[1].node = 1,
         NEW kind, NEW address, NEW b, Tree(b),
         Enters(a, b, fr[Len(fr)].node, kind, address)
  PROVE  HarnessCalls(b)
<1> DEFINE n == Len(a)
           t == fr[Len(fr)].node
           q == Len(a[1].children)
           l == Len(a[1].ordering)
<1>1. Len(fr) \in Nat /\ Len(fr) > 0 /\ 1 \in 1 .. n /\ n \in Nat /\ t \in 1 .. n
  <2>1. Len(fr) \in Nat /\ Len(fr) > 0 /\ 1 \in 1 .. n /\ n \in Nat
    BY DEF Path, Tree, HarnessCalls
  <2>2. Len(fr) \in 1 .. Len(fr)
    BY <2>1
  <2> QED
    BY <2>1, <2>2, PathFrame
<1>2. /\ Len(b) = n + 1
      /\ \A i \in 1 .. n : i # t => b[i] = a[i]
      /\ b[t].parent = a[t].parent
      /\ b[t].children = Append(a[t].children, n + 1)
      /\ b[t].ordering = Append(a[t].ordering, CallEntry(Len(a[t].children) + 1))
      /\ b[n + 1].parent = t
  BY DEF Enters, Node
<1>3. \A i \in 1 .. n : b[i].parent = a[i].parent
  BY <1>2
<1>4. /\ q \in Nat /\ l \in Nat /\ a[1].children \in Seq(Nat) /\ a[1].ordering \in Seq(Entries)
  BY <1>1, TreeNodes
<1>5. CASE t = 1
  <2> DEFINE cs == a[1].children
             os == a[1].ordering
             N == Nat
  <2>1. n + 1 \in Nat /\ CallEntry(q + 1) \in Entries
    BY <1>1, <1>4 DEF CallEntry, Entries
  <2>2. cs \in Seq(N) /\ Len(cs) = q /\ n + 1 \in N /\ os \in Seq(Entries) /\ Len(os) = l
    BY <1>4, <2>1
  <2> HIDE DEF cs, os, N
  <2>3. Len(Append(cs, n + 1)) = Len(cs) + 1 /\ Append(cs, n + 1)[Len(cs) + 1] = n + 1
    BY <2>2, AppendProperties
  <2>4. /\ Len(Append(os, CallEntry(q + 1))) = Len(os) + 1
        /\ Append(os, CallEntry(q + 1))[Len(os) + 1] = CallEntry(q + 1)
    BY <2>1, <2>2, AppendProperties
  <2>5. /\ Len(b[1].children) = q + 1 /\ b[1].children[q + 1] = n + 1
        /\ Len(b[1].ordering) = l + 1 /\ b[1].ordering[l + 1] = CallEntry(q + 1)
    BY <1>2, <1>5, <2>2, <2>3, <2>4 DEF cs, os
  <2>6. Transaction(b) = n + 1
    BY <2>5 DEF Transaction
  <2>7. LastCall(b[1])
    BY <1>4, <2>5 DEF LastCall, CallEntry
  <2>8. \A i \in 1 .. Len(b) : i <= n + 1
    BY <1>1, <1>2
  <2>9. Len(b) > 0 /\ Len(b[1].children) > 0
    BY <1>1, <1>2, <1>4, <2>5
  <2> QED
    BY <1>2, <1>5, <2>6, <2>7, <2>8, <2>9 DEF HarnessCalls
<1>6. CASE t # 1
  <2>1. b[1] = a[1]
    BY <1>1, <1>2, <1>6
  <2>2. Len(fr) > 1
    BY <1>1, <1>6
  <2>3. Len(a[1].children) > 0
    BY <2>2, OpenTransaction
  <2>4. Transaction(b) = Transaction(a) /\ Transaction(a) \in 1 .. n
    <3>1. Transaction(a) \in 2 .. n
      BY <2>3, TransactionFound
    <3> HIDE DEF n
    <3>2. Transaction(a) \in 1 .. n
      BY <1>1, <3>1
    <3> QED
      BY <2>1, <3>2 DEF Transaction
  <2>5. /\ LastCall(a[1]) /\ a[Transaction(a)].parent = 1
        /\ \A i \in 1 .. n : a[i].parent = 1 => i <= Transaction(a)
    BY <2>3 DEF HarnessCalls
  <2>6. \A i \in 1 .. Len(b) : i \in 1 .. n \/ i = n + 1
    BY <1>1, <1>2
  <2>7. \A i \in 1 .. Len(b) : b[i].parent = 1 => i <= Transaction(b)
    BY <1>2, <1>3, <1>6, <2>4, <2>5, <2>6
  <2>8. Len(b) > 0
    BY <1>1, <1>2
  <2> QED
    BY <1>3, <2>1, <2>3, <2>4, <2>5, <2>7, <2>8 DEF HarnessCalls
<1> QED
  BY <1>5, <1>6

(* A log leaves them. *)
LEMMA LogsHarness ==
  ASSUME NEW a, Tree(a), HarnessCalls(a), NEW t \in 1 .. Len(a), t # 1, NEW log, NEW b,
         LogsIn(a, b, t, log)
  PROVE  HarnessCalls(b)
<1> DEFINE n == Len(a)
<1>1. 1 \in 1 .. n /\ n \in Nat
  BY DEF Tree, HarnessCalls
<1>2. /\ Len(b) = n /\ \A i \in 1 .. n : i # t => b[i] = a[i]
      /\ b[t].parent = a[t].parent
  BY DEF LogsIn
<1>3. b[1] = a[1] /\ \A i \in 1 .. n : b[i].parent = a[i].parent
  BY <1>1, <1>2
<1>4. Transaction(b) = Transaction(a)
  BY <1>3 DEF Transaction
<1>5. Len(a[1].children) > 0 => Transaction(a) \in 1 .. n
  <2>1. Len(a[1].children) > 0 => Transaction(a) \in 2 .. n
    BY TransactionFound
  <2> HIDE DEF n
  <2> QED
    BY <1>1, <2>1
<1> QED
  BY <1>2, <1>3, <1>4, <1>5 DEF HarnessCalls


-----------------------------------------------------------------------------
(* What a frame that reverts makes of the arena. *)
Fails(a, b, t) ==
    /\ b \in Seq(Nodes) /\ Len(b) = Len(a)
    /\ \A i \in 1 .. Len(a) : i # t => b[i] = a[i]
    /\ b[t].parent = a[t].parent /\ b[t].kind = a[t].kind /\ b[t].address = a[t].address
    /\ SameCalls(a[t], b[t])
    /\ ~ b[t].success

(* A function on the first n numbers is a list.                              *)
LEMMA ListOf ==
  ASSUME NEW S, NEW n \in Nat, NEW f \in [1 .. n -> S]
  PROVE  f \in Seq(S) /\ Len(f) = n
OBVIOUS

(* This is what a failing Leave does to the arena.                           *)
LEMMA FailsIsRevert ==
  ASSUME NEW a, Tree(a), NEW t \in 1 .. Len(a), NEW b, b = [a EXCEPT ![t].success = FALSE]
  PROVE  Fails(a, b, t)
<1>1. /\ a \in Seq(Nodes) /\ Len(a) \in Nat /\ a[t] \in Nodes /\ DOMAIN a = 1 .. Len(a)
      /\ \A i \in 1 .. Len(a) : a[i] \in Nodes
  <2>1. a \in Seq(Nodes) /\ \A i \in 1 .. Len(a) : a[i] \in Nodes
    BY DEF Tree
  <2> QED
    BY <2>1, TreeNodes
<1>2. /\ DOMAIN b = 1 .. Len(a) /\ \A i \in 1 .. Len(a) : i # t => b[i] = a[i]
      /\ b[t] = [a[t] EXCEPT !.success = FALSE]
      /\ b = [i \in 1 .. Len(a) |-> b[i]]
  BY <1>1
<1>3. /\ b[t] \in Nodes
      /\ b[t].parent = a[t].parent /\ b[t].kind = a[t].kind /\ b[t].address = a[t].address
      /\ b[t].children = a[t].children /\ b[t].logs = a[t].logs
      /\ b[t].ordering = a[t].ordering /\ ~ b[t].success
  BY <1>1, <1>2 DEF Nodes
<1>4. b \in Seq(Nodes) /\ Len(b) = Len(a)
  <2> DEFINE n == Len(a)
             S == Nodes
  <2>1. \A i \in 1 .. n : b[i] \in S
    BY <1>1, <1>2, <1>3
  <2>2. n \in Nat /\ b = [i \in 1 .. n |-> b[i]]
    BY <1>1, <1>2
  <2> HIDE DEF n, S
  <2>3. b \in [1 .. n -> S]
    BY <2>1, <2>2
  <2>4. b \in Seq(S) /\ Len(b) = n
    BY <2>2, <2>3, ListOf
  <2> QED
    BY <2>4 DEF n, S
<1> QED
  BY <1>2, <1>3, <1>4 DEF Fails, SameCalls

(* The tree, the calls of the harness and the rows stay as they are. *)
LEMMA FailsTree ==
  ASSUME NEW a, Tree(a), CallsInOrder(a), HarnessCalls(a), NEW t \in 1 .. Len(a), NEW b,
         Fails(a, b, t)
  PROVE  /\ Tree(b) /\ CallsInOrder(b) /\ HarnessCalls(b)
         /\ Transaction(b) = Transaction(a) /\ b[1].children = a[1].children
         /\ \A i \in 1 .. Len(a) : Rows(b)[i] = Rows(a)[i]
<1> DEFINE n == Len(a)
<1>1. /\ b \in Seq(Nodes) /\ Len(b) = n
      /\ \A i \in 1 .. n : /\ b[i].children = a[i].children /\ b[i].logs = a[i].logs
                           /\ b[i].ordering = a[i].ordering /\ b[i].parent = a[i].parent
  BY DEF Fails, SameCalls
<1>2. 1 \in 1 .. n /\ n \in Nat
  BY DEF Tree, HarnessCalls
<1>3. Tree(b)
  <2> HIDE DEF n
  <2>1. \A i \in 1 .. n :
          /\ \A k \in 1 .. Len(a[i].children) : a[i].children[k] \in (i + 1) .. n
          /\ \A e \in 1 .. Len(a[i].ordering) :
               a[i].ordering[e].index \in
                 1 .. (IF a[i].ordering[e].kind = "Log" THEN Len(a[i].logs)
                       ELSE Len(a[i].children))
    BY DEF Tree, n
  <2>2. ASSUME NEW i \in 1 .. n
        PROVE  /\ \A k \in 1 .. Len(b[i].children) : b[i].children[k] \in (i + 1) .. n
               /\ \A e \in 1 .. Len(b[i].ordering) :
                    b[i].ordering[e].index \in
                      1 .. (IF b[i].ordering[e].kind = "Log" THEN Len(b[i].logs)
                            ELSE Len(b[i].children))
    BY <1>1, <2>1
  <2> QED
    BY <1>1, <2>2 DEF Tree
<1>4. CallsInOrder(b)
  BY <1>1 DEF CallsInOrder
<1>5. Transaction(b) = Transaction(a)
  BY <1>1, <1>2 DEF Transaction
<1>6. HarnessCalls(b)
  <2>1. Len(a[1].children) > 0 => Transaction(a) \in 1 .. n
    <3>1. Len(a[1].children) > 0 => Transaction(a) \in 2 .. n
      BY TransactionFound
    <3> HIDE DEF n
    <3> QED
      BY <1>2, <3>1
  <2>2. /\ Len(a[1].children) > 0 => LastCall(a[1]) /\ a[Transaction(a)].parent = 1
        /\ \A i \in 1 .. n : a[i].parent = 1 => Len(a[1].children) > 0 /\ i <= Transaction(a)
        /\ n > 0
    BY DEF HarnessCalls
  <2>3. LastCall(a[1]) => LastCall(b[1])
    BY <1>1, <1>2 DEF LastCall
  <2>4. b[1].children = a[1].children
    BY <1>1, <1>2
  <2> HIDE DEF n
  <2>5. Len(b[1].children) > 0 => LastCall(b[1]) /\ b[Transaction(b)].parent = 1
    BY <1>1, <1>5, <2>1, <2>2, <2>3, <2>4
  <2>6. \A i \in 1 .. Len(b) : b[i].parent = 1 => Len(b[1].children) > 0 /\ i <= Transaction(b)
    BY <1>1, <1>5, <2>2, <2>4
  <2> QED
    BY <1>1, <2>2, <2>5, <2>6 DEF HarnessCalls
<1>7. \A i \in 1 .. n : Rows(b)[i] = Rows(a)[i]
  <2>1. Apart(a, {})
    BY DEF Apart
  <2>2. \A i \in 1 .. n : i \notin {} => SameCalls(a[i], b[i])
    BY <1>1 DEF SameCalls
  <2>3. n <= Len(b)
    <3> HIDE DEF n
    <3> QED
      BY <1>1, <1>2
  <2>4. \A i \in 1 .. n : i \notin {} => Rows(b)[i] = Rows(a)[i]
    BY <1>3, <2>1, <2>2, <2>3, SameRows
  <2> QED
    BY <2>4
<1> QED
  BY <1>1, <1>2, <1>3, <1>4, <1>5, <1>6, <1>7

(* The stack below the frame on top. *)
LEMMA FrontOf ==
  ASSUME NEW fr \in Seq(FrameRecords), Len(fr) > 1
  PROVE  /\ Front(fr) \in Seq(FrameRecords) /\ Len(Front(fr)) = Len(fr) - 1
         /\ Len(fr) - 1 \in Nat /\ Len(fr) - 1 > 0
         /\ \A k \in 1 .. (Len(fr) - 1) : Front(fr)[k] = fr[k] /\ k \in 1 .. Len(fr) /\ k # Len(fr)
<1> DEFINE S == FrameRecords
           m == Len(fr)
<1>1. fr \in Seq(S) /\ m \in Nat /\ m > 1 /\ m - 1 \in Nat /\ m - 1 > 0
  OBVIOUS
<1>2. Front(fr) = SubSeq(fr, 1, m - 1)
  BY DEF Front
<1>3. \A k \in 1 .. (m - 1) : k \in 1 .. m /\ k # m
  BY <1>1
<1> HIDE DEF S
<1>4. SubSeq(fr, 1, m - 1) = [k \in 1 .. (m - 1) |-> fr[k]]
  BY <1>1
<1>5. \A k \in 1 .. m : fr[k] \in S
  BY <1>1
<1> HIDE DEF m
<1>6. SubSeq(fr, 1, m - 1) \in Seq(S) /\ Len(SubSeq(fr, 1, m - 1)) = m - 1
  BY <1>1, <1>3, <1>4, <1>5
<1> QED
  BY <1>1, <1>2, <1>3, <1>4, <1>6 DEF m, S

(* It is a path as well. *)
LEMMA FrontPath ==
  ASSUME NEW a, Tree(a), NEW fr, Path(a, fr), Len(fr) > 1
  PROVE  Path(a, Front(fr))
<1> DEFINE m == Len(fr)
           p == m - 1
           lower == Front(fr)
<1>1. /\ lower \in Seq(FrameRecords) /\ Len(lower) = p /\ p \in Nat /\ p > 0 /\ m \in Nat
      /\ \A k \in 1 .. p : lower[k] = fr[k] /\ k \in 1 .. m
  <2>1. fr \in Seq(FrameRecords)
    BY DEF Path
  <2>2. m \in Nat
    BY <2>1
  <2>3. /\ lower \in Seq(FrameRecords) /\ Len(lower) = p /\ p \in Nat /\ p > 0
        /\ \A k \in 1 .. p : lower[k] = fr[k] /\ k \in 1 .. m
    BY <2>1, FrontOf
  <2> QED
    BY <2>2, <2>3
<1>2. /\ \A k \in 1 .. m : fr[k].node \in 1 .. Len(a) /\ a[fr[k].node].success
      /\ \A j, k \in 1 .. m : j < k => fr[j].node < fr[k].node
      /\ \A k \in 1 .. (m - 1) :
           /\ LastCall(a[fr[k].node])
           /\ a[fr[k].node].children[Len(a[fr[k].node].children)] = fr[k + 1].node
           /\ fr[k + 1].context = TokenContext(a[fr[k + 1].node], fr[k].context)
      /\ \A i \in 1 .. Len(a) : \A c \in 1 .. Len(a[i].children), k \in 1 .. m :
           a[i].children[c] = fr[k].node =>
              k > 1 /\ i = fr[k - 1].node /\ c = Len(a[i].children)
  BY DEF Path
<1>3. \A k \in 1 .. (p - 1) : k \in 1 .. (m - 1) /\ k \in 1 .. p /\ k + 1 \in 1 .. p
  BY <1>1
<1>4. \A k \in 1 .. p : k > 1 => k - 1 \in 1 .. p
  BY <1>1
<1> HIDE DEF lower, p, m
<1>5. \A k \in 1 .. p : lower[k].node \in 1 .. Len(a) /\ a[lower[k].node].success
  BY <1>1, <1>2
<1>6. \A j, k \in 1 .. p : j < k => lower[j].node < lower[k].node
  BY <1>1, <1>2
<1>7. \A k \in 1 .. (p - 1) :
         /\ LastCall(a[lower[k].node])
         /\ a[lower[k].node].children[Len(a[lower[k].node].children)] = lower[k + 1].node
         /\ lower[k + 1].context = TokenContext(a[lower[k + 1].node], lower[k].context)
  <2> TAKE k \in 1 .. (p - 1)
  <2>1. k \in 1 .. (m - 1) /\ lower[k] = fr[k] /\ lower[k + 1] = fr[k + 1]
    BY <1>1, <1>3
  <2> QED
    BY <1>2, <2>1
<1>8. ASSUME NEW i \in 1 .. Len(a), NEW c \in 1 .. Len(a[i].children), NEW k \in 1 .. p,
             a[i].children[c] = lower[k].node
      PROVE  k > 1 /\ i = lower[k - 1].node /\ c = Len(a[i].children)
  <2>1. k \in 1 .. m /\ a[i].children[c] = fr[k].node
    BY <1>1, <1>8
  <2>2. k > 1 /\ i = fr[k - 1].node /\ c = Len(a[i].children)
    BY <1>2, <2>1
  <2> QED
    BY <1>1, <1>4, <2>2
<1> QED
  BY <1>1, <1>5, <1>6, <1>7, <1>8 DEF Path, lower

(* It stays one when the frame on top reverts. *)
LEMMA FailsPath ==
  ASSUME NEW a, Tree(a), NEW fr, Path(a, fr), Len(fr) > 1, NEW b,
         Fails(a, b, fr[Len(fr)].node)
  PROVE  Path(b, Front(fr))
<1> DEFINE m == Len(fr)
           p == m - 1
           t == fr[m].node
           lower == Front(fr)
           n == Len(a)
<1>1. /\ lower \in Seq(FrameRecords) /\ Len(lower) = p /\ p \in Nat /\ p > 0
      /\ \A k \in 1 .. p : lower[k] = fr[k] /\ k \in 1 .. m /\ k # m
  BY FrontOf DEF Path
<1>2. \A k \in 1 .. p : lower[k].node \in 1 .. n /\ lower[k].node # t
  <2> TAKE k \in 1 .. p
  <2>1. k \in 1 .. Len(fr) /\ k # Len(fr) /\ lower[k] = fr[k]
    BY <1>1
  <2>2. fr[k].node \in 1 .. Len(a) /\ fr[k].node # fr[Len(fr)].node
    <3> HIDE DEF p, lower, n, t, m
    <3> QED
      BY <2>1, PathFrame
  <2> QED
    BY <2>1, <2>2
<1>3. /\ Len(b) = n /\ \A i \in 1 .. n : i # t => b[i] = a[i]
      /\ \A i \in 1 .. n : b[i].children = a[i].children
      /\ b[t].kind = a[t].kind /\ b[t].address = a[t].address
  BY DEF Fails, SameCalls
<1>4. Path(a, lower)
  BY FrontPath
<1>5. /\ \A k \in 1 .. p : lower[k].node \in 1 .. n /\ a[lower[k].node].success
      /\ \A j, k \in 1 .. p : j < k => lower[j].node < lower[k].node
      /\ \A k \in 1 .. (p - 1) :
           /\ LastCall(a[lower[k].node])
           /\ a[lower[k].node].children[Len(a[lower[k].node].children)] = lower[k + 1].node
           /\ lower[k + 1].context = TokenContext(a[lower[k + 1].node], lower[k].context)
      /\ \A i \in 1 .. n : \A c \in 1 .. Len(a[i].children), k \in 1 .. p :
           a[i].children[c] = lower[k].node =>
              k > 1 /\ i = lower[k - 1].node /\ c = Len(a[i].children)
  BY <1>1, <1>4 DEF Path
<1>6. \A k \in 1 .. (p - 1) : k \in 1 .. p /\ k + 1 \in 1 .. p
  BY <1>1
<1> HIDE DEF lower, p, m, t, n
<1>7. \A k \in 1 .. p : b[lower[k].node] = a[lower[k].node]
  BY <1>2, <1>3
<1>8. \A k \in 1 .. (p - 1) :
         /\ LastCall(b[lower[k].node])
         /\ b[lower[k].node].children[Len(b[lower[k].node].children)] = lower[k + 1].node
         /\ lower[k + 1].context = TokenContext(b[lower[k + 1].node], lower[k].context)
  BY <1>5, <1>6, <1>7
<1>9. \A i \in 1 .. n : \A c \in 1 .. Len(b[i].children), k \in 1 .. p :
         b[i].children[c] = lower[k].node =>
              k > 1 /\ i = lower[k - 1].node /\ c = Len(b[i].children)
  BY <1>3, <1>5
<1>10. \A k \in 1 .. p : lower[k].node \in 1 .. n /\ b[lower[k].node].success
  BY <1>5, <1>7
<1> QED
  BY <1>1, <1>3, <1>5, <1>8, <1>9, <1>10 DEF Path, lower

(* The parser finds nothing in it any more, and that much less below. *)
LEMMA FailsWeights ==
  ASSUME NEW a, Tree(a), NEW fr, Path(a, fr), Len(fr) > 1, NEW b, Tree(b),
         Fails(a, b, fr[Len(fr)].node), NEW mu \in Weights
  PROVE  \A k \in 2 .. Len(fr) :
            CollectedIn(b, fr, k, mu)
              = CollectedIn(a, fr, k, mu) - CollectedIn(a, fr, Len(fr), mu)
<1> DEFINE n == Len(a)
           m == Len(fr)
           t == fr[m].node
           context == fr[m - 1].context
           old == Weight(mu, Collected(a)[t][context])
           d == 0 - old
<1>1. m \in Nat /\ m > 1 /\ m \in 1 .. m /\ m - 1 \in 1 .. m
  <2>1. m \in Nat /\ m > 1
    BY DEF Path
  <2> HIDE DEF m
  <2> QED
    BY <2>1
<1>2. t \in 1 .. n /\ context \in Contexts /\ n \in Nat
  BY <1>1, PathFrame, TreeNodes
<1>3. Len(b) = n /\ \A i \in 1 .. n : i # t => b[i] = a[i]
  BY DEF Fails
<1>4. Collected(b)[t][context] = <<>>
  <2>1. t \in 1 .. Len(b)
    BY <1>2, <1>3
  <2>2. Collected(b)[t][context] = CollectedOf(b, t, context, Collected(b))
    BY <1>2, <2>1, CollectedRecursion
  <2>3. IsReverted(b, t)
    BY DEF Fails, IsReverted
  <2> QED
    BY <2>2, <2>3 DEF CollectedOf
<1>5. old \in Int
  <2>1. Collected(a) \in [1 .. n -> [Contexts -> Seq(Moves)]]
    BY CollectedRecursion
  <2>2. Collected(a)[t][context] \in Seq(Moves)
    BY <1>2, <2>1
  <2> QED
    BY <2>2, WeightNumbers
<1>6. Weight(mu, Collected(b)[t][context]) = old + d
  <2>1. Weight(mu, Collected(b)[t][context]) = 0
    BY <1>4, WeightNothing
  <2> HIDE DEF old
  <2> QED
    BY <1>5, <2>1
<1>7. NodesKept(a, b, fr[Len(fr)].node)
  BY <1>3 DEF NodesKept
<1>8. Len(a) <= Len(b) /\ d \in Int
  <2>1. Len(a) = n
    OBVIOUS
  <2> HIDE DEF n, old
  <2> QED
    BY <1>2, <1>3, <1>5, <2>1
<1>9. ASSUME NEW k \in 2 .. m PROVE CollectedIn(b, fr, k, mu) = CollectedIn(a, fr, k, mu) + d
  <2> HIDE DEF d
  <2>1. \A j \in 2 .. Len(fr) :
            Weight(mu, Collected(b)[fr[j].node][fr[j - 1].context])
              = Weight(mu, Collected(a)[fr[j].node][fr[j - 1].context]) + d
    BY <1>6, <1>7, <1>8, WeightsGrow
  <2> QED
    BY <2>1 DEF CollectedIn
<1>10. ASSUME NEW k \in 2 .. m PROVE CollectedIn(a, fr, k, mu) \in Int
  <2>1. Collected(a) \in [1 .. n -> [Contexts -> Seq(Moves)]]
    BY CollectedRecursion
  <2>2. k \in 1 .. m /\ k - 1 \in 1 .. m
    BY <1>1
  <2>3. fr[k].node \in 1 .. n
    BY <2>2, PathFrame
  <2>4. fr[k - 1].context \in Contexts
    BY <2>2, PathFrame
  <2>5. Collected(a)[fr[k].node][fr[k - 1].context] \in Seq(Moves)
    BY <2>1, <2>3, <2>4
  <2> QED
    BY <2>5, WeightNumbers DEF CollectedIn
<1>11. CollectedIn(a, fr, Len(fr), mu) = old
  BY DEF CollectedIn
<1>12. ASSUME NEW k \in 2 .. Len(fr)
       PROVE  CollectedIn(b, fr, k, mu)
                = CollectedIn(a, fr, k, mu) - CollectedIn(a, fr, Len(fr), mu)
  <2>1. CollectedIn(b, fr, k, mu) = CollectedIn(a, fr, k, mu) + (0 - old)
    BY <1>9
  <2>2. CollectedIn(a, fr, k, mu) \in Int
    BY <1>10
  <2> HIDE DEF old
  <2> QED
    BY <1>5, <1>11, <2>1, <2>2
<1> QED
  BY <1>12



-----------------------------------------------------------------------------
(* What has happened since a mark. *)

(* The beginning of a list that has a further entry, *)
LEMMA BeginningOfMore ==
  ASSUME NEW S, NEW s \in Seq(S), NEW x \in S, NEW m \in 0 .. Len(s)
  PROVE  SubSeq(Append(s, x), 1, m) = SubSeq(s, 1, m)
<1> DEFINE n == Len(s)
           t == Append(s, x)
<1>1. n \in Nat /\ m \in Nat /\ m <= n
  OBVIOUS
<1>2. t \in Seq(S) /\ Len(t) = n + 1 /\ \A i \in 1 .. n : t[i] = s[i]
  OBVIOUS
<1>3. \A i \in 1 .. m : i \in 1 .. n
  BY <1>1
<1>4. SubSeq(s, 1, m) = [i \in 1 .. m |-> s[i]]
  BY <1>1
<1>5. SubSeq(t, 1, m) = [i \in 1 .. m |-> t[i]]
  <2>1. m <= Len(t)
    BY <1>1, <1>2
  <2> HIDE DEF t
  <2> QED
    BY <1>1, <1>2, <2>1
<1> HIDE DEF t, n
<1> QED
  BY <1>2, <1>3, <1>4, <1>5 DEF t

(* of a list that is cut later, *)
LEMMA BeginningOfLess ==
  ASSUME NEW S, NEW s \in Seq(S), NEW k \in 0 .. Len(s), NEW m \in 0 .. k
  PROVE  /\ SubSeq(s, 1, k) \in Seq(S) /\ Len(SubSeq(s, 1, k)) = k
         /\ SubSeq(SubSeq(s, 1, k), 1, m) = SubSeq(s, 1, m)
<1> DEFINE n == Len(s)
           t == SubSeq(s, 1, k)
<1>1. n \in Nat /\ m \in Nat /\ k \in Nat /\ m <= k /\ k <= n
  OBVIOUS
<1>2. /\ t = [i \in 1 .. k |-> s[i]] /\ SubSeq(s, 1, m) = [i \in 1 .. m |-> s[i]]
      /\ \A i \in 1 .. n : s[i] \in S
  BY <1>1
<1>3. \A i \in 1 .. m : i \in 1 .. k
  BY <1>1
<1>4. \A i \in 1 .. k : i \in 1 .. n
  BY <1>1
<1> HIDE DEF t, n
<1>5. t \in [1 .. k -> S]
  BY <1>2, <1>4
<1>6. t \in Seq(S) /\ Len(t) = k
  BY <1>1, <1>5, ListOf
<1>7. SubSeq(t, 1, m) = [i \in 1 .. m |-> t[i]]
  BY <1>1, <1>6
<1>8. \A i \in 1 .. m : t[i] = s[i]
  BY <1>2, <1>3
<1> QED
  BY <1>2, <1>6, <1>7, <1>8 DEF t

(* of none of a list, and the whole of it. *)
LEMMA BeginningOfAll ==
  ASSUME NEW S, NEW s \in Seq(S)
  PROVE  SubSeq(s, 1, 0) = <<>> /\ SubSeq(s, 1, Len(s)) = s
OBVIOUS

(* A transfer that happens counts for every frame, *)
LEMMA SinceMore ==
  ASSUME NEW s \in Seq(Moves), NEW x \in Moves, NEW mark \in 0 .. Len(s), NEW mu \in Weights
  PROVE  Since(Append(s, x), mark, mu) = Since(s, mark, mu) + mu[x]
<1>1. SubSeq(Append(s, x), 1, mark) = SubSeq(s, 1, mark)
  BY BeginningOfMore
<1>2. Weight(mu, Append(s, x)) = Weight(mu, s) + mu[x]
  BY WeightAppend
<1>3. SubSeq(s, 1, mark) \in Seq(Moves)
  BY BeginningOfLess, 0 \in 0 .. mark
<1>4. Weight(mu, s) \in Int /\ Weight(mu, SubSeq(s, 1, mark)) \in Int
  BY <1>3, WeightNumbers
<1>5. mu[x] \in Int
  BY DEF Weights
<1> DEFINE all == Weight(mu, s)
           old == Weight(mu, SubSeq(s, 1, mark))
           w == mu[x]
<1>6. Since(Append(s, x), mark, mu) = (all + w) - old /\ Since(s, mark, mu) = all - old
  BY <1>1, <1>2 DEF Since
<1>7. all \in Int /\ old \in Int /\ w \in Int
  BY <1>4, <1>5
<1>8. mu[x] = w
  OBVIOUS
<1> HIDE DEF all, old, w
<1> QED
  BY <1>6, <1>7, <1>8

(* and none for a frame that is entered now. *)
LEMMA SinceNow ==
  ASSUME NEW s \in Seq(Moves), NEW mu \in Weights
  PROVE  Since(s, Len(s), mu) = 0
<1>1. SubSeq(s, 1, Len(s)) = s
  BY BeginningOfAll
<1>2. Weight(mu, s) \in Int
  BY WeightNumbers
<1> DEFINE all == Weight(mu, s)
<1>3. Since(s, Len(s), mu) = all - all
  BY <1>1 DEF Since
<1>4. all \in Int
  BY <1>2
<1> HIDE DEF all
<1> QED
  BY <1>3, <1>4

(* What a frame takes with it is what has happened since it was entered. *)
LEMMA SinceLess ==
  ASSUME NEW s \in Seq(Moves), NEW top \in 0 .. Len(s), NEW mark \in 0 .. top, NEW mu \in Weights
  PROVE  Since(SubSeq(s, 1, top), mark, mu) = Since(s, mark, mu) - Since(s, top, mu)
<1>1. /\ SubSeq(s, 1, top) \in Seq(Moves)
      /\ SubSeq(SubSeq(s, 1, top), 1, mark) = SubSeq(s, 1, mark)
  BY BeginningOfLess
<1>2. SubSeq(s, 1, mark) \in Seq(Moves)
  <2>1. mark \in 0 .. Len(s) /\ 0 \in 0 .. mark
    OBVIOUS
  <2> QED
    BY <2>1, BeginningOfLess
<1>3. /\ Weight(mu, s) \in Int /\ Weight(mu, SubSeq(s, 1, top)) \in Int
      /\ Weight(mu, SubSeq(s, 1, mark)) \in Int
  BY <1>1, <1>2, WeightNumbers
<1> DEFINE all == Weight(mu, s)
           kept == Weight(mu, SubSeq(s, 1, top))
           old == Weight(mu, SubSeq(s, 1, mark))
<1>4. /\ Since(SubSeq(s, 1, top), mark, mu) = kept - old
      /\ Since(s, mark, mu) = all - old /\ Since(s, top, mu) = all - kept
  BY <1>1 DEF Since
<1>5. all \in Int /\ kept \in Int /\ old \in Int
  BY <1>3
<1> HIDE DEF all, kept, old
<1> QED
  BY <1>4, <1>5

(* Since the beginning: all of it. *)
LEMMA SinceStart ==
  ASSUME NEW s \in Seq(Moves), NEW mu \in Weights
  PROVE  Since(s, 0, mu) = Weight(mu, s)
<1>1. SubSeq(s, 1, 0) = <<>>
  BY BeginningOfAll
<1>2. Weight(mu, s) \in Int
  BY WeightNumbers
<1> DEFINE all == Weight(mu, s)
<1>3. Since(s, 0, mu) = all - 0
  <2>1. Weight(mu, <<>>) = 0
    BY WeightNothing
  <2> QED
    BY <1>1, <2>1 DEF Since
<1>4. all \in Int
  BY <1>2
<1> HIDE DEF all
<1>5. Since(s, 0, mu) = all
  BY <1>3, <1>4
<1> QED
  BY <1>5 DEF all



-----------------------------------------------------------------------------
(* A call and the run. *)

(* The marks of the frames are places in the list of effects. *)
LEMMA MarksWithin ==
  ASSUME NEW a, Tree(a), NEW fr, Path(a, fr), NEW n \in Nat, Marked(fr, n)
  PROVE  /\ \A k \in 1 .. Len(fr) : fr[k].mark \in 0 .. n
         /\ \A j, k \in 1 .. Len(fr) : j < k => fr[j].mark \in 0 .. fr[k].mark
<1>1. \A k \in 1 .. Len(fr) : fr[k].mark \in Nat
  BY PathFrame
<1>2. /\ \A k \in 1 .. Len(fr) : fr[k].mark <= n
      /\ \A j, k \in 1 .. Len(fr) : j < k => fr[j].mark <= fr[k].mark
  BY DEF Marked
<1>3. ASSUME NEW k \in 1 .. Len(fr) PROVE fr[k].mark \in 0 .. n
  <2> DEFINE x == fr[k].mark
  <2>1. x \in Nat /\ x <= n
    BY <1>1, <1>2
  <2> HIDE DEF x
  <2>2. x \in 0 .. n
    BY <2>1
  <2> QED
    BY <2>2 DEF x
<1>4. ASSUME NEW j \in 1 .. Len(fr), NEW k \in 1 .. Len(fr), j < k
      PROVE  fr[j].mark \in 0 .. fr[k].mark
  <2> DEFINE x == fr[j].mark
             y == fr[k].mark
  <2>1. x \in Nat /\ y \in Nat /\ x <= y
    BY <1>1, <1>2, <1>4
  <2> HIDE DEF x, y
  <2>2. x \in 0 .. y
    BY <2>1
  <2> QED
    BY <2>2 DEF x, y
<1> QED
  BY <1>3, <1>4

(* A frame on top of the others. *)
LEMMA FrameOnTop ==
  ASSUME NEW fr \in Seq(FrameRecords), Len(fr) > 0, NEW new \in FrameRecords
  PROVE  /\ Len(Append(fr, new)) = Len(fr) + 1 /\ Len(fr) \in Nat
         /\ 1 \in 1 .. Len(fr)
         /\ Append(fr, new)[Len(fr) + 1] = new
         /\ \A k \in 1 .. Len(fr) : Append(fr, new)[k] = fr[k]
         /\ \A k \in 1 .. (Len(fr) + 1) : k # Len(fr) + 1 => k \in 1 .. Len(fr)
         /\ \A k \in 2 .. (Len(fr) + 1) : k - 1 \in 1 .. Len(fr)
         /\ \A k \in 2 .. (Len(fr) + 1) : k # Len(fr) + 1 => k \in 2 .. Len(fr)
<1> DEFINE S == FrameRecords
           m == Len(fr)
           fs == Append(fr, new)
<1>1. fr \in Seq(S) /\ new \in S /\ m \in Nat /\ m > 0 /\ m = Len(fr)
  OBVIOUS
<1> HIDE DEF S
<1>2. Len(fs) = m + 1 /\ fs[m + 1] = new /\ \A k \in 1 .. m : fs[k] = fr[k]
  BY <1>1
<1> HIDE DEF m, fs
<1>3. /\ 1 \in 1 .. m
      /\ \A k \in 1 .. (m + 1) : k # m + 1 => k \in 1 .. m
      /\ \A k \in 2 .. (m + 1) : k - 1 \in 1 .. m
      /\ \A k \in 2 .. (m + 1) : k # m + 1 => k \in 2 .. m
  BY <1>1
<1> QED
  BY <1>1, <1>2, <1>3 DEF fs, m

(* A new frame on top keeps the marks in order.                              *)
LEMMA MarkedOnTop ==
  ASSUME NEW fr \in Seq(FrameRecords), Len(fr) > 0, NEW new \in FrameRecords,
         NEW n \in Nat, Marked(fr, n), new.mark = n
  PROVE  Marked(Append(fr, new), n)
<1> DEFINE m == Len(fr)
           fs == Append(fr, new)
<1>1. /\ Len(fs) = m + 1 /\ m \in Nat /\ fs[m + 1] = new
      /\ \A k \in 1 .. m : fs[k] = fr[k]
      /\ \A k \in 1 .. (m + 1) : k # m + 1 => k \in 1 .. m
  BY FrameOnTop
<1>2. /\ \A k \in 1 .. m : fr[k].mark <= n
      /\ \A j, k \in 1 .. m : j < k => fr[j].mark <= fr[k].mark
  BY DEF Marked
<1> HIDE DEF m, fs
<1>3. ASSUME NEW k \in 1 .. (m + 1) PROVE fs[k].mark <= n
  <2>1. CASE k = m + 1
    <3>1. n <= n
      OBVIOUS
    <3> QED
      BY <1>1, <2>1, <3>1
  <2>2. CASE k # m + 1
    BY <1>1, <1>2, <2>2
  <2> QED
    BY <2>1, <2>2
<1>4. ASSUME NEW j \in 1 .. (m + 1), NEW k \in 1 .. (m + 1), j < k
      PROVE  fs[j].mark <= fs[k].mark
  <2>1. CASE k = m + 1
    <3>1. fs[k].mark = n
      BY <1>1, <2>1
    <3> QED
      BY <1>3, <3>1
  <2>2. CASE k # m + 1
    <3>1. j \in 1 .. m /\ k \in 1 .. m
      BY <1>1, <1>4, <2>2
    <3> QED
      BY <1>1, <1>2, <1>4, <3>1
  <2> QED
    BY <2>1, <2>2
<1> QED
  BY <1>1, <1>3, <1>4 DEF Marked, fs

(* The frame a call pushes. *)
Pushed(a, fr, kind, address, moves, new) ==
    /\ new \in FrameRecords /\ new.node = Len(a) + 1 /\ new.mark = Len(moves)
    /\ new.context = TokenContext(Node(fr[Len(fr)].node, kind, address), fr[Len(fr)].context)

Continues(b, fs, moves) ==
    /\ InOrder(b) /\ Path(b, fs) /\ Marked(fs, Len(moves))
    /\ fs[1].node = 1 /\ fs[1].context = Harness

(* The arena stays in order, and the stack stays a path. *)
LEMMA EntersInOrder ==
  ASSUME NEW a, InOrder(a), NEW fr, NEW begun \in BOOLEAN, NEW moves \in Seq(Moves), NEW h,
         Runs(a, fr, begun, moves, h),
         NEW kind \in {"CALL", "DELEGATECALL"}, NEW address \in Contexts, NEW b,
         Enters(a, b, fr[Len(fr)].node, kind, address),
         NEW new, Pushed(a, fr, kind, address, moves, new)
  PROVE  Continues(b, Append(fr, new), moves)
<1>p. /\ new \in FrameRecords /\ new.node = Len(a) + 1 /\ new.mark = Len(moves)
      /\ new.context = TokenContext(Node(fr[Len(fr)].node, kind, address), fr[Len(fr)].context)
  BY DEF Pushed
<1>1. /\ Tree(a) /\ CallsInOrder(a) /\ HarnessCalls(a)
      /\ Path(a, fr) /\ Marked(fr, Len(moves)) /\ fr[1].node = 1 /\ fr[1].context = Harness
  BY DEF InOrder, Runs
<1>2. fr \in Seq(FrameRecords) /\ Len(fr) > 0
  BY <1>1 DEF Path
<1>3. 1 \in 1 .. Len(fr)
  BY <1>2, FrameOnTop
<1>4. fr[Len(fr)].node \in 1 .. Len(a)
  BY <1>1, <1>3, PathFrame
<1>5. Tree(b) /\ CallsInOrder(b)
  BY <1>1, <1>4, EntersTree
<1>6. HarnessCalls(b)
  BY <1>1, <1>5, EntersHarness
<1>7. Path(b, Append(fr, new))
  BY <1>1, <1>p, EntersPath
<1>8. Marked(Append(fr, new), Len(moves))
  <2>1. Len(moves) \in Nat
    OBVIOUS
  <2> QED
    BY <1>1, <1>2, <1>p, <2>1, MarkedOnTop
<1>9. Append(fr, new)[1] = fr[1]
  BY <1>2, <1>3, <1>p, FrameOnTop
<1> QED
  BY <1>1, <1>5, <1>6, <1>7, <1>8, <1>9 DEF InOrder, Continues

(* A call in the run, *)
LEMMA EntersRuns ==
  ASSUME NEW a, InOrder(a), NEW fr, NEW begun \in BOOLEAN, NEW moves \in Seq(Moves), NEW h,
         Runs(a, fr, begun, moves, h),
         NEW kind \in {"CALL", "DELEGATECALL"}, NEW address \in Contexts, NEW b,
         Enters(a, b, fr[Len(fr)].node, kind, address),
         NEW new, Pushed(a, fr, kind, address, moves, new)
  PROVE  /\ InOrder(b)
         /\ Runs(b, Append(fr, new), begun, moves,
                 IF begun THEN Append(h, <<"call", Len(a) + 1>>) ELSE h)
<1>1. /\ Tree(a) /\ CallsInOrder(a) /\ HarnessCalls(a) /\ Path(a, fr)
      /\ ~ begun => moves = <<>> /\ h = <<>>
  BY DEF InOrder, Runs
<1>a. Continues(b, Append(fr, new), moves)
  BY EntersInOrder
<1>5. Tree(b)
  BY <1>a DEF Continues, InOrder
<1>r. ShowsCall(a, b, fr)
  BY <1>1, <1>5, EntersRows
<1>w. ASSUME NEW mu \in Weights PROVE FindsNothing(a, b, fr, mu)
  BY <1>1, <1>5, EntersWeights
<1>p. new \in FrameRecords /\ new.node = Len(a) + 1 /\ new.mark = Len(moves)
  BY DEF Pushed
<1> DEFINE m == Len(fr)
           fs == Append(fr, new)
<1>2. /\ InOrder(b) /\ Path(b, fs) /\ Marked(fs, Len(moves))
      /\ fs[1].node = 1 /\ fs[1].context = Harness
  BY <1>a DEF Continues
<1>3. fr \in Seq(FrameRecords) /\ m > 0
  BY <1>1 DEF Path
<1>4. /\ Len(fs) = m + 1 /\ m \in Nat /\ fs[m + 1] = new
      /\ \A k \in 1 .. m : fs[k] = fr[k]
      /\ \A k \in 2 .. (m + 1) : k - 1 \in 1 .. m
      /\ \A k \in 2 .. (m + 1) : k # m + 1 => k \in 2 .. m
      /\ m + 1 > 1
  <2>1. /\ Len(fs) = m + 1 /\ m \in Nat /\ fs[m + 1] = new
        /\ \A k \in 1 .. m : fs[k] = fr[k]
        /\ \A k \in 2 .. (m + 1) : k - 1 \in 1 .. m
        /\ \A k \in 2 .. (m + 1) : k # m + 1 => k \in 2 .. m
    BY <1>3, <1>p, FrameOnTop
  <2>2. m + 1 > 1
    <3> HIDE DEF m
    <3> QED
      BY <1>3, <2>1
  <2> QED
    BY <2>1, <2>2
<1>6. ASSUME begun
      PROVE  /\ Len(fs) > 1 /\ fs[2].mark = 0
             /\ Append(h, <<"call", Len(a) + 1>>) = Rows(b)[fs[2].node]
             /\ Balanced(b, fs, moves)
  <2>1. m > 1 /\ fr[2].mark = 0 /\ h = Rows(a)[fr[2].node] /\ Balanced(a, fr, moves)
    BY <1>6 DEF Runs
  <2>2. 2 \in 1 .. m
    <3> HIDE DEF m
    <3> QED
      BY <1>4, <2>1
  <2>3. Rows(b)[fr[2].node] = Append(Rows(a)[fr[2].node], <<"call", Len(a) + 1>>)
    BY <2>2, <1>r DEF ShowsCall
  <2>4. ASSUME NEW k \in 2 .. Len(fs), NEW mu \in Weights
        PROVE  Since(moves, fs[k].mark, mu) = CollectedIn(b, fs, k, mu)
    <3>1. k - 1 \in 1 .. m /\ fs[k - 1] = fr[k - 1]
      BY <1>4
    <3>2. /\ \A context \in Contexts : Collected(b)[Len(a) + 1][context] = <<>>
          /\ \A j \in 2 .. m : CollectedIn(b, fr, j, mu) = CollectedIn(a, fr, j, mu)
      BY <1>w DEF FindsNothing
    <3>3. CASE k = m + 1
      <4>1. Since(moves, fs[k].mark, mu) = 0
        BY <1>4, <1>p, <3>3, SinceNow
      <4>2. fs[k - 1].context \in Contexts
        BY <1>1, <3>1, PathFrame
      <4>3. Collected(b)[fs[k].node][fs[k - 1].context] = <<>>
        BY <1>4, <1>p, <3>2, <3>3, <4>2
      <4>4. CollectedIn(b, fs, k, mu) = 0
        BY <4>3, WeightNothing DEF CollectedIn
      <4> QED
        BY <4>1, <4>4
    <3>4. CASE k # m + 1
      <4>1. k \in 2 .. m
        BY <1>4, <3>4
      <4>2. k \in 1 .. m
        <5> HIDE DEF m
        <5> QED
          BY <1>4, <4>1
      <4>3. fs[k] = fr[k]
        BY <1>4, <4>2
      <4>4. CollectedIn(b, fs, k, mu) = CollectedIn(b, fr, k, mu)
        BY <3>1, <4>3 DEF CollectedIn
      <4>5. Since(moves, fr[k].mark, mu) = CollectedIn(a, fr, k, mu)
        BY <2>1, <4>1 DEF Balanced
      <4> QED
        BY <3>2, <4>1, <4>3, <4>4, <4>5
    <3> QED
      BY <3>3, <3>4
  <2>5. Balanced(b, fs, moves)
    BY <2>4 DEF Balanced
  <2>6. fs[2] = fr[2]
    BY <1>4, <2>2
  <2> QED
    BY <1>4, <2>1, <2>3, <2>5, <2>6
<1> DEFINE g == IF begun THEN Append(h, <<"call", Len(a) + 1>>) ELSE h
<1>7. /\ ~ begun => moves = <<>> /\ g = <<>>
      /\ begun => Len(fs) > 1 /\ fs[2].mark = 0 /\ g = Rows(b)[fs[2].node]
                  /\ Balanced(b, fs, moves)
  BY <1>1, <1>6
<1> HIDE DEF fs, g, m
<1>8. Runs(b, fs, begun, moves, g)
  BY <1>2, <1>7 DEF Runs
<1> QED
  BY <1>2, <1>8 DEF fs, g

(* and the call that begins it. *)
LEMMA EntersTarget ==
  ASSUME NEW a, InOrder(a), NEW fr, NEW moves \in Seq(Moves), NEW h,
         Runs(a, fr, FALSE, moves, h), Len(fr) = 1,
         NEW kind \in {"CALL", "DELEGATECALL"}, NEW address \in Contexts, NEW b,
         Enters(a, b, fr[Len(fr)].node, kind, address),
         NEW new, Pushed(a, fr, kind, address, moves, new)
  PROVE  /\ InOrder(b)
         /\ Runs(b, Append(fr, new), TRUE, moves, Append(h, <<"call", Len(a) + 1>>))
<1>1. /\ Tree(a) /\ CallsInOrder(a) /\ HarnessCalls(a) /\ Path(a, fr)
      /\ moves = <<>> /\ h = <<>>
  BY DEF InOrder, Runs
<1>a. Continues(b, Append(fr, new), moves)
  BY FALSE \in BOOLEAN, EntersInOrder
<1>5. Tree(b)
  BY <1>a DEF Continues, InOrder
<1>r. ShowsCall(a, b, fr)
  BY <1>1, <1>5, EntersRows
<1>w. ASSUME NEW mu \in Weights PROVE FindsNothing(a, b, fr, mu)
  BY <1>1, <1>5, EntersWeights
<1>p. new \in FrameRecords /\ new.node = Len(a) + 1 /\ new.mark = Len(moves)
  BY DEF Pushed
<1> DEFINE fs == Append(fr, new)
<1>2. /\ InOrder(b) /\ Path(b, fs) /\ Marked(fs, Len(moves))
      /\ fs[1].node = 1 /\ fs[1].context = Harness
  BY <1>a DEF Continues
<1>3. fr \in Seq(FrameRecords) /\ Len(fr) > 0
  BY <1>1 DEF Path
<1>4. Len(fs) = 2 /\ fs[2] = new /\ fs[1] = fr[1] /\ 1 \in 1 .. Len(fr)
  <2>1. /\ Len(fs) = Len(fr) + 1 /\ fs[Len(fr) + 1] = new /\ 1 \in 1 .. Len(fr)
        /\ \A k \in 1 .. Len(fr) : fs[k] = fr[k]
    BY <1>3, <1>p, FrameOnTop
  <2> HIDE DEF fs
  <2> QED
    BY <2>1
<1>6. new.mark = 0
  BY <1>1, <1>p
<1>7. Append(h, <<"call", Len(a) + 1>>) = Rows(b)[fs[2].node]
  <2>1. Rows(b)[Len(a) + 1] = <<<<"call", Len(a) + 1>>>>
    BY <1>r DEF ShowsCall
  <2>2. Append(<<>>, <<"call", Len(a) + 1>>) = <<<<"call", Len(a) + 1>>>>
    OBVIOUS
  <2> QED
    BY <1>1, <1>4, <1>p, <2>1, <2>2
<1>8. ASSUME NEW k \in 2 .. Len(fs), NEW mu \in Weights
      PROVE  Since(moves, fs[k].mark, mu) = CollectedIn(b, fs, k, mu)
  <2>1. k = 2 /\ k - 1 = 1
    BY <1>4
  <2>2. Since(moves, fs[k].mark, mu) = 0
    BY <1>4, <1>p, <2>1, SinceNow
  <2>3. Collected(b)[Len(a) + 1][Harness] = <<>>
    <3>1. Harness \in Contexts
      BY DEF Contexts
    <3> QED
      BY <1>w, <3>1 DEF FindsNothing
  <2>4. Collected(b)[fs[k].node][fs[k - 1].context] = <<>>
    BY <1>2, <1>4, <1>p, <2>1, <2>3
  <2>5. CollectedIn(b, fs, k, mu) = 0
    BY <2>4, WeightNothing DEF CollectedIn
  <2> QED
    BY <2>2, <2>5
<1>9. Balanced(b, fs, moves)
  BY <1>8 DEF Balanced
<1> DEFINE g == Append(h, <<"call", Len(a) + 1>>)
<1>10. Len(fs) > 1 /\ fs[2].mark = 0 /\ g = Rows(b)[fs[2].node]
  BY <1>4, <1>6, <1>7
<1> HIDE DEF fs, g
<1>11. Runs(b, fs, TRUE, moves, g)
  BY <1>2, <1>9, <1>10 DEF Runs
<1> QED
  BY <1>2, <1>11 DEF fs, g



-----------------------------------------------------------------------------
(* A log and the run. *)
LEMMA LogsRuns ==
  ASSUME NEW a, InOrder(a), NEW fr, NEW begun \in BOOLEAN, NEW moves \in Seq(Moves), NEW h,
         Runs(a, fr, begun, moves, h), Len(fr) > 1, NEW log \in LogRecords, NEW b,
         LogsIn(a, b, fr[Len(fr)].node, log)
  PROVE  /\ InOrder(b)
         /\ MoveOf(log, fr[Len(fr)].context) \in Moves
         /\ Runs(b, fr, begun,
                 IF begun THEN Append(moves, MoveOf(log, fr[Len(fr)].context)) ELSE moves,
                 IF begun THEN Append(h, <<"log", log>>) ELSE h)
<1>1. /\ Tree(a) /\ CallsInOrder(a) /\ HarnessCalls(a) /\ Path(a, fr) /\ Marked(fr, Len(moves))
      /\ fr[1].node = 1 /\ fr[1].context = Harness
      /\ ~ begun => moves = <<>> /\ h = <<>>
  BY DEF InOrder, Runs
<1>2. /\ Len(fr) \in 1 .. Len(fr) /\ \A k \in 2 .. Len(fr) : k \in 1 .. Len(fr)
      /\ 2 \in 1 .. Len(fr)
  <2> DEFINE m == Len(fr)
  <2>1. m \in Nat /\ m > 1
    BY <1>1 DEF Path
  <2> HIDE DEF m
  <2>2. m \in 1 .. m /\ (\A k \in 2 .. m : k \in 1 .. m) /\ 2 \in 1 .. m
    BY <2>1
  <2> QED
    BY <2>2 DEF m
<1>3. fr[Len(fr)].node \in 1 .. Len(a) /\ fr[Len(fr)].context \in Contexts
  BY <1>1, <1>2, PathFrame
<1>4. fr[Len(fr)].node # 1
  BY <1>1, OpenTransaction
<1>5. Tree(b) /\ CallsInOrder(b)
  BY <1>1, <1>3, LogsTree
<1>6. HarnessCalls(b)
  BY <1>1, <1>3, <1>4, LogsHarness
<1>7. Path(b, fr)
  BY <1>1, LogsPath
<1>8. ShowsLog(a, b, fr, log)
  BY <1>1, <1>5, LogsRows
<1>9. ASSUME NEW mu \in Weights PROVE FindsMove(a, b, fr, log, mu)
  BY <1>1, <1>5, LogsWeights
<1> DEFINE x == MoveOf(log, fr[Len(fr)].context)
           more == Append(moves, x)
<1>10. x \in Moves
  BY <1>3 DEF MoveOf, LogRecords, Moves
<1>11. /\ \A k \in 1 .. Len(fr) : fr[k].mark \in 0 .. Len(moves)
  <2>1. Len(moves) \in Nat
    OBVIOUS
  <2> QED
    BY <1>1, <2>1, MarksWithin
<1>12. Marked(fr, Len(more))
  <2> DEFINE l == Len(moves)
  <2>1. Len(more) = l + 1 /\ l \in Nat
    BY <1>10
  <2>2. /\ \A k \in 1 .. Len(fr) : fr[k].mark \in 0 .. l
        /\ \A j, k \in 1 .. Len(fr) : j < k => fr[j].mark <= fr[k].mark
    BY <1>1, <1>11 DEF Marked
  <2> HIDE DEF l
  <2>3. ASSUME NEW k \in 1 .. Len(fr) PROVE fr[k].mark <= l + 1
    <3> DEFINE y == fr[k].mark
    <3>1. y \in 0 .. l
      BY <2>2
    <3> HIDE DEF y
    <3>2. y <= l + 1
      BY <2>1, <3>1
    <3> QED
      BY <3>2 DEF y
  <2> HIDE DEF more
  <2> QED
    BY <2>1, <2>2, <2>3 DEF Marked
<1>13. ASSUME begun
       PROVE  /\ Len(fr) > 1 /\ fr[2].mark = 0
              /\ Append(h, <<"log", log>>) = Rows(b)[fr[2].node]
              /\ Balanced(b, fr, more)
  <2>1. fr[2].mark = 0 /\ h = Rows(a)[fr[2].node] /\ Balanced(a, fr, moves)
    BY <1>13 DEF Runs
  <2>2. Rows(b)[fr[2].node] = Append(Rows(a)[fr[2].node], <<"log", log>>)
    BY <1>2, <1>8 DEF ShowsLog
  <2>3. ASSUME NEW k \in 2 .. Len(fr), NEW mu \in Weights
        PROVE  Since(more, fr[k].mark, mu) = CollectedIn(b, fr, k, mu)
    <3>1. fr[k].mark \in 0 .. Len(moves)
      BY <1>2, <1>11
    <3>2. Since(more, fr[k].mark, mu) = Since(moves, fr[k].mark, mu) + mu[x]
      <4> HIDE DEF x
      <4> QED
        BY <1>10, <3>1, SinceMore
    <3>3. CollectedIn(b, fr, k, mu) = CollectedIn(a, fr, k, mu) + mu[x]
      BY <1>9 DEF FindsMove
    <3>4. Since(moves, fr[k].mark, mu) = CollectedIn(a, fr, k, mu)
      BY <2>1 DEF Balanced
    <3> HIDE DEF x
    <3> QED
      BY <3>2, <3>3, <3>4
  <2>4. Balanced(b, fr, more)
    BY <2>3 DEF Balanced
  <2> QED
    BY <2>1, <2>2, <2>4
<1> DEFINE e == IF begun THEN more ELSE moves
           g == IF begun THEN Append(h, <<"log", log>>) ELSE h
<1>14. /\ Marked(fr, Len(e))
       /\ ~ begun => e = <<>> /\ g = <<>>
       /\ begun => Len(fr) > 1 /\ fr[2].mark = 0 /\ g = Rows(b)[fr[2].node]
                   /\ Balanced(b, fr, e)
  <2>1. CASE begun
    <3>1. e = more /\ g = Append(h, <<"log", log>>)
      BY <2>1
    <3> HIDE DEF e, g, more
    <3> QED
      BY <1>12, <1>13, <2>1, <3>1 DEF more
  <2>2. CASE ~ begun
    BY <1>1, <2>2
  <2> QED
    BY <2>1, <2>2
<1> HIDE DEF e, g
<1>15. Runs(b, fr, begun, e, g)
  BY <1>1, <1>7, <1>14 DEF Runs
<1>16. InOrder(b)
  BY <1>5, <1>6 DEF InOrder
<1> HIDE DEF x
<1> QED
  BY <1>10, <1>15, <1>16 DEF e, g, x



-----------------------------------------------------------------------------
(* The end of a frame and the run. *)

(* The marks of the frames below lie within that of the frame on top. *)
LEMMA FrontMarked ==
  ASSUME NEW fr \in Seq(FrameRecords), Len(fr) > 1, NEW n \in Nat, Marked(fr, n)
  PROVE  Marked(Front(fr), n) /\ Marked(Front(fr), fr[Len(fr)].mark)
<1> DEFINE m == Len(fr)
           p == m - 1
           lower == Front(fr)
<1>1. /\ Len(lower) = p /\ p \in Nat /\ m \in Nat
      /\ \A k \in 1 .. p : lower[k] = fr[k] /\ k \in 1 .. m
  BY FrontOf
<1>2. \A k \in 1 .. p : k < m /\ m \in 1 .. m
  <2> HIDE DEF m
  <2> QED
    BY <1>1
<1>3. /\ \A k \in 1 .. m : fr[k].mark <= n
      /\ \A j, k \in 1 .. m : j < k => fr[j].mark <= fr[k].mark
  BY DEF Marked
<1> HIDE DEF lower, p
<1>4. /\ \A k \in 1 .. p : lower[k].mark <= n /\ lower[k].mark <= fr[m].mark
      /\ \A j, k \in 1 .. p : j < k => lower[j].mark <= lower[k].mark
  <2> HIDE DEF m
  <2> QED
    BY <1>1, <1>2, <1>3
<1> QED
  BY <1>1, <1>4 DEF Marked, lower, m

(* The places of the frames below, when there are more than two. *)
LEMMA PlacesBelow ==
  ASSUME NEW m \in Nat, m > 2
  PROVE  /\ 1 \in 1 .. (m - 1) /\ m - 1 > 1 /\ 2 \in 1 .. (m - 1) /\ 2 \in 1 .. m
         /\ m \in 2 .. m /\ m \in 1 .. m
         /\ \A k \in 2 .. (m - 1) : /\ k \in 1 .. (m - 1) /\ k - 1 \in 1 .. (m - 1)
                                   /\ k \in 2 .. m /\ k \in 1 .. m /\ k < m
<1>1. /\ 1 \in 1 .. (m - 1) /\ m - 1 > 1 /\ 2 \in 1 .. (m - 1) /\ 2 \in 1 .. m
      /\ m \in 2 .. m /\ m \in 1 .. m
  OBVIOUS
<1>2. ASSUME NEW k \in 2 .. (m - 1)
      PROVE  /\ k \in 1 .. (m - 1) /\ k - 1 \in 1 .. (m - 1)
             /\ k \in 2 .. m /\ k \in 1 .. m /\ k < m
  <2>1. k \in Nat /\ k >= 2 /\ k <= m - 1
    OBVIOUS
  <2>2. k \in 1 .. (m - 1) /\ k \in 2 .. m /\ k \in 1 .. m /\ k < m
    BY <2>1
  <2>3. k - 1 \in 1 .. (m - 1)
    BY <2>1
  <2> QED
    BY <2>2, <2>3
<1> QED
  BY <1>1, <1>2

(* What is left of the run when a frame returns, *)
LEMMA ReturnsRuns ==
  ASSUME NEW a, InOrder(a), NEW fr, NEW begun \in BOOLEAN, NEW moves \in Seq(Moves), NEW h,
         Runs(a, fr, begun, moves, h), Len(fr) > 1, begun => Len(fr) > 2
  PROVE  Runs(a, Front(fr), begun, moves, h)
<1>1. /\ Tree(a) /\ Path(a, fr) /\ Marked(fr, Len(moves))
      /\ fr[1].node = 1 /\ fr[1].context = Harness
      /\ ~ begun => moves = <<>> /\ h = <<>>
  BY DEF InOrder, Runs
<1>2. fr \in Seq(FrameRecords) /\ Len(fr) \in Nat
  BY <1>1 DEF Path
<1> DEFINE m == Len(fr)
           lower == Front(fr)
<1>3. /\ Len(lower) = m - 1 /\ m - 1 \in Nat /\ m - 1 > 0
      /\ \A k \in 1 .. (m - 1) : lower[k] = fr[k] /\ k \in 1 .. m
  BY <1>2, FrontOf
<1>4. Path(a, lower)
  BY <1>1, FrontPath
<1>5. Marked(lower, Len(moves))
  <2>1. Len(moves) \in Nat
    OBVIOUS
  <2> QED
    BY <1>1, <1>2, <2>1, FrontMarked
<1>6. 1 \in 1 .. (m - 1)
  <2> HIDE DEF m
  <2> QED
    BY <1>3
<1>7. lower[1] = fr[1]
  BY <1>3, <1>6
<1>8. ASSUME begun
      PROVE  /\ Len(lower) > 1 /\ lower[2].mark = 0 /\ h = Rows(a)[lower[2].node]
             /\ Balanced(a, lower, moves)
  <2>1. fr[2].mark = 0 /\ h = Rows(a)[fr[2].node] /\ Balanced(a, fr, moves) /\ m > 2
    BY <1>8 DEF Runs
  <2>2. /\ m - 1 > 1 /\ 2 \in 1 .. (m - 1)
        /\ \A k \in 2 .. (m - 1) : k \in 1 .. (m - 1) /\ k - 1 \in 1 .. (m - 1) /\ k \in 2 .. m
    BY <1>2, <2>1, PlacesBelow
  <2>3. lower[2] = fr[2]
    BY <1>3, <2>2
  <2>4. ASSUME NEW k \in 2 .. Len(lower), NEW mu \in Weights
        PROVE  Since(moves, lower[k].mark, mu) = CollectedIn(a, lower, k, mu)
    <3>1. k \in 2 .. m /\ lower[k] = fr[k] /\ lower[k - 1] = fr[k - 1]
      BY <1>3, <2>2
    <3>2. Since(moves, fr[k].mark, mu) = CollectedIn(a, fr, k, mu)
      BY <2>1, <3>1 DEF Balanced
    <3>3. CollectedIn(a, lower, k, mu) = CollectedIn(a, fr, k, mu)
      BY <3>1 DEF CollectedIn
    <3> QED
      BY <3>1, <3>2, <3>3
  <2>5. Balanced(a, lower, moves)
    BY <2>4 DEF Balanced
  <2> QED
    BY <1>3, <2>1, <2>2, <2>3, <2>5
<1> HIDE DEF lower
<1>9. Runs(a, lower, begun, moves, h)
  BY <1>1, <1>4, <1>5, <1>7, <1>8 DEF Runs
<1> QED
  BY <1>9 DEF lower

(* when it reverts, *)
LEMMA FailsRuns ==
  ASSUME NEW a, InOrder(a), NEW fr, NEW begun \in BOOLEAN, NEW moves \in Seq(Moves), NEW h,
         Runs(a, fr, begun, moves, h), Len(fr) > 2, NEW b, Fails(a, b, fr[Len(fr)].node)
  PROVE  /\ InOrder(b)
         /\ SubSeq(moves, 1, fr[Len(fr)].mark) \in Seq(Moves)
         /\ Runs(b, Front(fr), begun, SubSeq(moves, 1, fr[Len(fr)].mark), h)
<1>1. /\ Tree(a) /\ CallsInOrder(a) /\ HarnessCalls(a)
      /\ Path(a, fr) /\ Marked(fr, Len(moves))
      /\ fr[1].node = 1 /\ fr[1].context = Harness
      /\ ~ begun => moves = <<>> /\ h = <<>>
  BY DEF InOrder, Runs
<1>2. fr \in Seq(FrameRecords) /\ Len(fr) \in Nat /\ Len(fr) > 1
  BY <1>1 DEF Path
<1>3. Len(fr) \in 1 .. Len(fr)
  BY <1>2
<1>4. fr[Len(fr)].node \in 1 .. Len(a)
  BY <1>1, <1>3, PathFrame
<1>5. /\ InOrder(b)
      /\ \A i \in 1 .. Len(a) : Rows(b)[i] = Rows(a)[i]
  <2>1. /\ Tree(b) /\ CallsInOrder(b) /\ HarnessCalls(b)
        /\ Transaction(b) = Transaction(a) /\ b[1].children = a[1].children
        /\ \A i \in 1 .. Len(a) : Rows(b)[i] = Rows(a)[i]
    BY <1>1, <1>4, FailsTree
  <2> QED
    BY <2>1 DEF InOrder
<1>6. Path(b, Front(fr))
  BY <1>1, <1>2, FailsPath
<1>7. Tree(b)
  BY <1>5 DEF InOrder
<1>8. ASSUME NEW mu \in Weights
      PROVE  \A k \in 2 .. Len(fr) :
                CollectedIn(b, fr, k, mu)
                  = CollectedIn(a, fr, k, mu) - CollectedIn(a, fr, Len(fr), mu)
  BY <1>1, <1>2, <1>7, FailsWeights
<1>9. /\ \A k \in 1 .. Len(fr) : fr[k].mark \in 0 .. Len(moves)
      /\ \A j, k \in 1 .. Len(fr) : j < k => fr[j].mark \in 0 .. fr[k].mark
  <2>1. Len(moves) \in Nat
    OBVIOUS
  <2> QED
    BY <1>1, <2>1, MarksWithin
<1>10. Marked(Front(fr), fr[Len(fr)].mark)
  <2>1. Len(moves) \in Nat
    OBVIOUS
  <2> QED
    BY <1>1, <1>2, <2>1, FrontMarked
<1> DEFINE m == Len(fr)
           lower == Front(fr)
           mark == fr[m].mark
           kept == SubSeq(moves, 1, mark)
<1>11. /\ Len(lower) = m - 1 /\ m - 1 \in Nat /\ m - 1 > 0
       /\ \A k \in 1 .. (m - 1) : lower[k] = fr[k] /\ k \in 1 .. m
  BY <1>2, FrontOf
<1>12. /\ mark \in 0 .. Len(moves) /\ 0 \in 0 .. mark
  <2>1. mark \in 0 .. Len(moves)
    BY <1>3, <1>9
  <2> HIDE DEF mark
  <2> QED
    BY <2>1
<1>13. kept \in Seq(Moves) /\ Len(kept) = mark
  <2> HIDE DEF mark
  <2> QED
    BY <1>12, BeginningOfLess
<1>14. Marked(lower, Len(kept))
  BY <1>10, <1>13
<1>15. /\ 1 \in 1 .. (m - 1) /\ m - 1 > 1 /\ 2 \in 1 .. (m - 1) /\ 2 \in 1 .. m
       /\ m \in 2 .. m /\ m \in 1 .. m
       /\ \A k \in 2 .. (m - 1) : /\ k \in 1 .. (m - 1) /\ k - 1 \in 1 .. (m - 1)
                                 /\ k \in 2 .. m /\ k \in 1 .. m /\ k < m
  BY <1>2, PlacesBelow
<1>16. lower[1] = fr[1]
  BY <1>11, <1>15
<1>17. ~ begun => kept = <<>>
  <2>1. ASSUME ~ begun PROVE kept = <<>>
    <3>1. moves = <<>> /\ mark = 0
      BY <1>1, <1>12, <2>1
    <3> HIDE DEF mark
    <3> QED
      BY <3>1, BeginningOfAll
  <2> QED
    BY <2>1
<1>18. ASSUME begun
       PROVE  /\ Len(lower) > 1 /\ lower[2].mark = 0 /\ h = Rows(b)[lower[2].node]
              /\ Balanced(b, lower, kept)
  <2>1. fr[2].mark = 0 /\ h = Rows(a)[fr[2].node] /\ Balanced(a, fr, moves)
    BY <1>18 DEF Runs
  <2>2. fr[2].node \in 1 .. Len(a)
    BY <1>1, <1>15, PathFrame
  <2>3. lower[2] = fr[2]
    BY <1>11, <1>15
  <2>4. ASSUME NEW k \in 2 .. Len(lower), NEW mu \in Weights
        PROVE  Since(kept, lower[k].mark, mu) = CollectedIn(b, lower, k, mu)
    <3>0. k \in 2 .. (m - 1)
      BY <1>11
    <3>1. k \in 2 .. m /\ k \in 1 .. m /\ k < m /\ lower[k] = fr[k] /\ lower[k - 1] = fr[k - 1]
      BY <1>11, <1>15, <3>0
    <3>2. /\ Since(moves, fr[k].mark, mu) = CollectedIn(a, fr, k, mu)
          /\ Since(moves, mark, mu) = CollectedIn(a, fr, m, mu)
      BY <1>15, <2>1, <3>1 DEF Balanced
    <3>3. CollectedIn(b, lower, k, mu) = CollectedIn(b, fr, k, mu)
      BY <3>1 DEF CollectedIn
    <3>4. fr[k].mark \in 0 .. mark
      BY <1>9, <1>15, <3>1
    <3>5. Since(kept, fr[k].mark, mu) = Since(moves, fr[k].mark, mu) - Since(moves, mark, mu)
      <4> HIDE DEF mark
      <4> QED
        BY <1>12, <3>4, SinceLess
    <3>6. CollectedIn(b, fr, k, mu) = CollectedIn(a, fr, k, mu) - CollectedIn(a, fr, m, mu)
      BY <1>8, <3>1
    <3> HIDE DEF kept, mark, m, lower
    <3> QED
      BY <3>1, <3>2, <3>3, <3>5, <3>6
  <2>5. Balanced(b, lower, kept)
    BY <2>4 DEF Balanced
  <2>6. Rows(b)[fr[2].node] = Rows(a)[fr[2].node]
    BY <1>5, <2>2
  <2> QED
    BY <1>11, <1>15, <2>1, <2>3, <2>5, <2>6
<1>19. Path(b, lower)
  BY <1>6
<1> HIDE DEF lower, kept
<1>20. Runs(b, lower, begun, kept, h)
  BY <1>1, <1>14, <1>16, <1>17, <1>18, <1>19 DEF Runs
<1> QED
  BY <1>5, <1>13, <1>20 DEF lower, kept, mark, m



-----------------------------------------------------------------------------
(* The end of the run. *)

(* The call of the target returns: what happened is what the parser finds.   *)
LEMMA ReturnsEnds ==
  ASSUME NEW a, InOrder(a), NEW fr, NEW moves \in Seq(Moves), NEW h,
         Runs(a, fr, TRUE, moves, h), Len(fr) = 2
  PROVE  Ends(a, TRUE, moves, h)
<1>1. /\ Tree(a) /\ Path(a, fr) /\ fr[1].node = 1 /\ fr[1].context = Harness
      /\ fr[2].mark = 0 /\ h = Rows(a)[fr[2].node] /\ Balanced(a, fr, moves)
  BY DEF InOrder, Runs
<1>2. Len(a[1].children) > 0 /\ Transaction(a) = fr[2].node
  <2>1. Len(fr) > 1
    OBVIOUS
  <2> QED
    BY <1>1, <2>1, OpenTransaction
<1>3. a[1].success
  <2>1. 1 \in 1 .. Len(fr)
    OBVIOUS
  <2> QED
    BY <1>1, <2>1 DEF Path
<1>4. ASSUME NEW mu \in Weights
      PROVE  Weight(mu, moves) = Weight(mu, Collected(a)[Transaction(a)][Harness])
  <2>1. 2 \in 2 .. Len(fr) /\ 2 - 1 = 1
    OBVIOUS
  <2>2. Since(moves, fr[2].mark, mu) = CollectedIn(a, fr, 2, mu)
    BY <1>1, <2>1 DEF Balanced
  <2>3. CollectedIn(a, fr, 2, mu) = Weight(mu, Collected(a)[Transaction(a)][Harness])
    BY <1>1, <1>2, <2>1 DEF CollectedIn
  <2>4. Since(moves, fr[2].mark, mu) = Weight(mu, moves)
    BY <1>1, SinceStart
  <2> QED
    BY <2>2, <2>3, <2>4
<1> QED
  BY <1>1, <1>2, <1>3, <1>4 DEF Ends

(* A call of the harness reverts, and the harness with it.                   *)
LEMMA FailsEnds ==
  ASSUME NEW a, InOrder(a), NEW fr, NEW begun \in BOOLEAN, NEW moves \in Seq(Moves), NEW h,
         Runs(a, fr, begun, moves, h), Len(fr) = 2, NEW b, Fails(a, b, fr[Len(fr)].node),
         NEW c, Fails(b, c, 1)
  PROVE  /\ InOrder(c)
         /\ SubSeq(moves, 1, fr[Len(fr)].mark) \in Seq(Moves)
         /\ Ends(c, begun, SubSeq(moves, 1, fr[Len(fr)].mark), h)
<1>1. /\ Tree(a) /\ CallsInOrder(a) /\ HarnessCalls(a)
      /\ Path(a, fr) /\ Marked(fr, Len(moves))
      /\ fr[1].node = 1
      /\ ~ begun => moves = <<>> /\ h = <<>>
      /\ begun => fr[2].mark = 0 /\ h = Rows(a)[fr[2].node]
  BY DEF InOrder, Runs
<1> DEFINE t == fr[Len(fr)].node
<1>2. /\ 2 \in 1 .. Len(fr) /\ Len(fr) > 1 /\ fr[Len(fr)] = fr[2]
  OBVIOUS
<1>3. /\ Len(a[1].children) > 0 /\ Transaction(a) = t /\ t # 1
  BY <1>1, <1>2, OpenTransaction
<1>4. t \in 1 .. Len(a) /\ Transaction(a) \in 2 .. Len(a)
  BY <1>1, <1>2, <1>3, PathFrame, TransactionFound
<1>5. /\ Tree(b) /\ CallsInOrder(b) /\ HarnessCalls(b)
      /\ Transaction(b) = Transaction(a) /\ b[1].children = a[1].children
      /\ \A i \in 1 .. Len(a) : Rows(b)[i] = Rows(a)[i]
  BY <1>1, <1>4, FailsTree
<1>6. Len(b) = Len(a) /\ ~ b[t].success /\ 1 \in 1 .. Len(b)
  <2>1. Len(b) = Len(a) /\ ~ b[t].success
    BY DEF Fails
  <2>2. Len(b) > 0 /\ Len(b) \in Nat
    BY <1>5 DEF HarnessCalls, Tree
  <2> QED
    BY <2>1, <2>2
<1>7. /\ Tree(c) /\ CallsInOrder(c) /\ HarnessCalls(c)
      /\ Transaction(c) = Transaction(b) /\ c[1].children = b[1].children
      /\ \A i \in 1 .. Len(b) : Rows(c)[i] = Rows(b)[i]
  BY <1>5, <1>6, FailsTree
<1>8. ~ c[1].success /\ c[t] = b[t]
  BY <1>3, <1>4, <1>6 DEF Fails
<1> DEFINE mark == fr[Len(fr)].mark
           kept == SubSeq(moves, 1, mark)
<1>9. mark \in 0 .. Len(moves)
  <2>1. Len(moves) \in Nat
    OBVIOUS
  <2> QED
    BY <1>1, <1>2, <2>1, MarksWithin
<1>10. mark = 0
  <2>1. CASE begun
    BY <1>1, <1>2, <2>1
  <2>2. CASE ~ begun
    <3>1. Len(moves) = 0
      BY <1>1, <2>2
    <3> HIDE DEF mark
    <3> QED
      BY <1>9, <3>1
  <2> QED
    BY <2>1, <2>2
<1>11. kept = <<>>
  <2> HIDE DEF mark
  <2> QED
    BY <1>10, BeginningOfAll
<1>12. begun => h = Rows(c)[Transaction(c)]
  BY <1>1, <1>2, <1>3, <1>4, <1>5, <1>6, <1>7
<1>13. ~ c[Transaction(c)].success
  BY <1>3, <1>5, <1>6, <1>7, <1>8
<1>14. Len(c[1].children) > 0
  BY <1>3, <1>5, <1>7
<1> HIDE DEF kept
<1>15. Ends(c, begun, kept, h)
  BY <1>8, <1>11, <1>12, <1>13, <1>14 DEF Ends
<1>16. kept \in Seq(Moves)
  BY <1>11
<1> QED
  BY <1>7, <1>15, <1>16 DEF InOrder, kept, mark



-----------------------------------------------------------------------------
(* What the parser reads. *)
LEMMA ParsesWhatHappened ==
  ASSUME NEW a, InOrder(a), NEW begun, NEW moves \in Seq(Moves), NEW h, Ends(a, begun, moves, h),
         NEW read, read = IF a[1].success THEN Collected(a)[TransactionRoot(a)][Harness] ELSE <<>>
  PROVE  /\ read \in Seq(Moves)
         /\ \A mu \in Weights : Weight(mu, read) = Weight(mu, moves)
<1>1. /\ Tree(a) /\ HarnessCalls(a) /\ Len(a[1].children) > 0
  BY DEF InOrder, Ends
<1>2. TransactionRoot(a) = Transaction(a) /\ Transaction(a) \in 2 .. Len(a)
  BY <1>1, TransactionFound
<1>3. Collected(a)[Transaction(a)][Harness] \in Seq(Moves)
  <2>1. Collected(a) \in [1 .. Len(a) -> [Contexts -> Seq(Moves)]]
    BY <1>1, CollectedRecursion
  <2>2. Transaction(a) \in 1 .. Len(a) /\ Harness \in Contexts
    <3>1. Transaction(a) \in 1 .. Len(a)
      <4> DEFINE r == Transaction(a)
      <4>1. r \in 2 .. Len(a)
        BY <1>2
      <4> HIDE DEF r
      <4>2. r \in 1 .. Len(a)
        BY <4>1
      <4> QED
        BY <4>2 DEF r
    <3> QED
      BY <3>1 DEF Contexts
  <2> QED
    BY <2>1, <2>2
<1>4. CASE a[1].success
  <2>1. read = Collected(a)[Transaction(a)][Harness]
    BY <1>2, <1>4
  <2>2. \A mu \in Weights : Weight(mu, moves) = Weight(mu, Collected(a)[Transaction(a)][Harness])
    BY <1>4 DEF Ends
  <2> QED
    BY <1>3, <2>1, <2>2
<1>5. CASE ~ a[1].success
  <2>1. read = <<>> /\ moves = <<>>
    BY <1>5 DEF Ends
  <2>2. read \in Seq(Moves)
    BY <2>1
  <2> QED
    BY <2>1, <2>2
<1> QED
  BY <1>4, <1>5

-----------------------------------------------------------------------------
(* The invariant holds initially: the harness alone, and nothing in it. *)
LEMMA TraceInvInit ==
  ASSUME InitTrace
  PROVE  TraceInv
<1> DEFINE a == <<Node(0, "CALL", Harness)>>
           fr == <<[node |-> 1, context |-> Harness, mark |-> 0]>>
<1>1. /\ arena = a /\ frames = fr /\ started = FALSE /\ effects = <<>> /\ history = <<>>
      /\ transfers = <<>> /\ stage = "executing"
  BY DEF InitTrace
<1>2. Harness \in Contexts
  BY DEF Contexts
<1>3. /\ Node(0, "CALL", Harness) \in Nodes
  <2>1. <<>> \in Seq(Nat) /\ <<>> \in Seq(LogRecords) /\ <<>> \in Seq(Entries)
    OBVIOUS
  <2> QED
    BY <1>2, <2>1 DEF Node, Nodes
<1>4. /\ a \in Seq(Nodes) /\ Len(a) = 1 /\ a[1] = Node(0, "CALL", Harness)
      /\ \A i \in 1 .. Len(a) : i = 1
  BY <1>3
<1>5. /\ a[1].children = <<>> /\ a[1].ordering = <<>> /\ a[1].logs = <<>>
      /\ a[1].success = TRUE /\ a[1].parent = 0
  BY <1>4 DEF Node
<1>6. Len(a[1].children) = 0 /\ Len(a[1].ordering) = 0
  BY <1>5
<1> HIDE DEF a
<1>7. Tree(a)
  BY <1>4, <1>6 DEF Tree
<1>8. CallsInOrder(a)
  BY <1>4, <1>6 DEF CallsInOrder
<1>9. HarnessCalls(a)
  BY <1>4, <1>5, <1>6 DEF HarnessCalls
<1>10. /\ fr \in Seq(FrameRecords) /\ Len(fr) = 1 /\ fr[1].node = 1 /\ fr[1].context = Harness
       /\ fr[1].mark = 0 /\ \A k \in 1 .. Len(fr) : k = 1
  <2>1. [node |-> 1, context |-> Harness, mark |-> 0] \in FrameRecords
    BY <1>2 DEF FrameRecords
  <2> QED
    BY <2>1
<1> HIDE DEF fr
<1>11. Path(a, fr)
  <2>1. \A k \in 1 .. (Len(fr) - 1) : FALSE
    BY <1>10
  <2>2. \A k \in 1 .. Len(fr) : fr[k].node \in 1 .. Len(a) /\ a[fr[k].node].success
    BY <1>4, <1>5, <1>10
  <2>3. \A j, k \in 1 .. Len(fr) : ~ (j < k)
    BY <1>10
  <2>4. \A i \in 1 .. Len(a) : \A c \in 1 .. Len(a[i].children) : FALSE
    BY <1>4, <1>6
  <2> QED
    BY <1>10, <2>1, <2>2, <2>3, <2>4 DEF Path
<1>12. Marked(fr, Len(<<>>))
  <2>1. Len(<<>>) = 0 /\ 0 <= 0
    OBVIOUS
  <2> QED
    BY <1>10, <2>1 DEF Marked
<1>13. Runs(a, fr, FALSE, <<>>, <<>>)
  BY <1>10, <1>11, <1>12 DEF Runs
<1>14. <<>> \in Seq(Moves)
  OBVIOUS
<1> QED
  BY <1>1, <1>7, <1>8, <1>9, <1>13, <1>14 DEF TraceInv, InOrder



-----------------------------------------------------------------------------
(* The steps of the execution. *)

(* What a call changes. *)
LEMMA EnterStep ==
  ASSUME TraceInv, NEW kind \in {"CALL", "DELEGATECALL"}, NEW address \in Contracts,
         NEW transaction, Enter(kind, address, transaction)
  PROVE  /\ Enters(arena, arena', frames[Len(frames)].node, kind, address)
         /\ \E new : frames' = Append(frames, new)
                     /\ Pushed(arena, frames, kind, address, effects, new)
<1>1. /\ stage = "executing" /\ InOrder(arena) /\ effects \in Seq(Moves)
      /\ Runs(arena, frames, started, effects, history)
  BY DEF TraceInv, Enter
<1>2. Tree(arena) /\ Path(arena, frames) /\ Len(frames) \in 1 .. Len(frames)
  <2>1. Tree(arena) /\ Path(arena, frames)
    BY <1>1 DEF InOrder, Runs
  <2> DEFINE m == Len(frames)
  <2>2. m \in Nat /\ m > 0
    BY <2>1 DEF Path
  <2> HIDE DEF m
  <2>3. m \in 1 .. m
    BY <2>2
  <2> QED
    BY <2>1, <2>3 DEF m
<1>3. /\ Top = frames[Len(frames)] /\ Top \in FrameRecords
      /\ Top.node \in 1 .. Len(arena) /\ Top.context \in Contexts
  BY <1>2, PathFrame DEF Top, Last
<1>4. address \in Contexts
  BY DEF Contexts
<1> DEFINE t == Top.node
           b == arena'
<1>5. b = Append([arena EXCEPT ![t].children = Append(@, Len(arena) + 1),
                               ![t].ordering =
                                   Append(@, [kind |-> "Call",
                                              index |-> Len(arena[t].children) + 1])],
                 Node(t, kind, address))
  BY DEF Enter
<1>6. Enters(arena, b, t, kind, address)
  <2> HIDE DEF t, b
  <2>1. t \in 1 .. Len(arena)
    BY <1>3 DEF t
  <2> QED
    BY <1>2, <1>4, <1>5, <2>1, EntersIsEnter
<1> DEFINE new == [node |-> Len(arena) + 1,
                   context |-> IF kind = "DELEGATECALL" THEN Top.context ELSE address,
                   mark |-> Len(effects)]
<1>7. frames' = Append(frames, new)
  BY DEF Enter
<1>8. new \in FrameRecords
  <2>1. Len(arena) + 1 \in Nat /\ Len(effects) \in Nat
    <3>1. Len(arena) \in Nat
      BY <1>2 DEF Tree
    <3> QED
      BY <1>1, <3>1
  <2> QED
    BY <1>3, <1>4, <2>1 DEF FrameRecords
<1>9. /\ new.node = Len(arena) + 1 /\ new.mark = Len(effects)
      /\ new.context = TokenContext(Node(frames[Len(frames)].node, kind, address),
                                    frames[Len(frames)].context)
  BY <1>3 DEF TokenContext, Node
<1>10. Pushed(arena, frames, kind, address, effects, new)
  BY <1>8, <1>9 DEF Pushed
<1> QED
  BY <1>3, <1>6, <1>7, <1>10

(* The steps, one by one: the storage override of the harness,               *)
LEMMA OverrideKeepsTrace ==
  ASSUME TraceInv, NEW address \in Contracts, Override(address)
  PROVE  TraceInv'
<1>1. /\ stage = "executing" /\ stage' = "executing" /\ ~ started
      /\ InOrder(arena) /\ effects \in Seq(Moves) /\ started \in BOOLEAN
      /\ Runs(arena, frames, started, effects, history)
      /\ started' = started /\ effects' = effects /\ transfers' = transfers /\ history' = history
      /\ Enter("CALL", address, FALSE)
  BY DEF TraceInv, Override, Enter
<1>2. PICK new : /\ frames' = Append(frames, new)
                 /\ Pushed(arena, frames, "CALL", address, effects, new)
  BY <1>1, EnterStep
<1>3. Enters(arena, arena', frames[Len(frames)].node, "CALL", address)
  BY <1>1, EnterStep
<1>4. address \in Contexts
  BY DEF Contexts
<1> DEFINE b == arena'
           g == IF started THEN Append(history, <<"call", Len(arena) + 1>>) ELSE history
<1>5. InOrder(b) /\ Runs(b, Append(frames, new), started, effects, g)
  <2> HIDE DEF b
  <2>1. Enters(arena, b, frames[Len(frames)].node, "CALL", address)
    BY <1>3 DEF b
  <2> QED
    BY <1>1, <1>2, <1>4, <2>1, EntersRuns
<1>6. g = history'
  BY <1>1
<1> QED
  BY <1>1, <1>2, <1>5, <1>6 DEF TraceInv

(* the call of the transaction,                                              *)
LEMMA CallTargetKeepsTrace ==
  ASSUME TraceInv, NEW address \in Contracts, CallTarget(address)
  PROVE  TraceInv'
<1>1. /\ stage = "executing" /\ stage' = "executing" /\ started = FALSE /\ Len(frames) = 1
      /\ InOrder(arena) /\ effects \in Seq(Moves)
      /\ Runs(arena, frames, FALSE, effects, history)
      /\ started' = TRUE /\ effects' = effects /\ transfers' = transfers
      /\ history' = Append(history, <<"call", Len(arena) + 1>>)
      /\ Enter("CALL", address, TRUE)
  <2>1. started = FALSE
    BY DEF TraceInv, CallTarget
  <2> QED
    BY <2>1 DEF TraceInv, CallTarget, Enter
<1>2. PICK new : /\ frames' = Append(frames, new)
                 /\ Pushed(arena, frames, "CALL", address, effects, new)
  BY <1>1, EnterStep
<1>3. Enters(arena, arena', frames[Len(frames)].node, "CALL", address)
  BY <1>1, EnterStep
<1>4. address \in Contexts
  BY DEF Contexts
<1> DEFINE b == arena'
<1>5. /\ InOrder(b)
      /\ Runs(b, Append(frames, new), TRUE, effects, Append(history, <<"call", Len(arena) + 1>>))
  <2> HIDE DEF b
  <2>1. Enters(arena, b, frames[Len(frames)].node, "CALL", address)
    BY <1>3 DEF b
  <2> QED
    BY <1>1, <1>2, <1>4, <2>1, EntersTarget
<1> QED
  BY <1>1, <1>2, <1>5 DEF TraceInv

(* a call made inside another,                                               *)
LEMMA CallInsideKeepsTrace ==
  ASSUME TraceInv, NEW kind \in {"CALL", "DELEGATECALL"}, NEW address \in Contracts,
         CallInside(kind, address)
  PROVE  TraceInv'
<1>1. /\ stage = "executing" /\ stage' = "executing"
      /\ InOrder(arena) /\ effects \in Seq(Moves) /\ started \in BOOLEAN
      /\ Runs(arena, frames, started, effects, history)
      /\ started' = started /\ effects' = effects /\ transfers' = transfers
      /\ history' = IF started THEN Append(history, <<"call", Len(arena) + 1>>) ELSE history
      /\ Enter(kind, address, started)
  BY DEF TraceInv, CallInside, Enter
<1>2. PICK new : /\ frames' = Append(frames, new)
                 /\ Pushed(arena, frames, kind, address, effects, new)
  BY <1>1, EnterStep
<1>3. Enters(arena, arena', frames[Len(frames)].node, kind, address)
  BY <1>1, EnterStep
<1>4. address \in Contexts
  BY DEF Contexts
<1> DEFINE b == arena'
           g == IF started THEN Append(history, <<"call", Len(arena) + 1>>) ELSE history
<1>5. InOrder(b) /\ Runs(b, Append(frames, new), started, effects, g)
  <2> HIDE DEF b
  <2>1. Enters(arena, b, frames[Len(frames)].node, kind, address)
    BY <1>3 DEF b
  <2> QED
    BY <1>1, <1>2, <1>4, <2>1, EntersRuns
<1>6. g = history'
  BY <1>1
<1> QED
  BY <1>1, <1>2, <1>5, <1>6 DEF TraceInv

(* a log of a transfer,                                                      *)
LEMMA EmitTransferKeepsTrace ==
  ASSUME TraceInv, NEW from \in Accounts, NEW to \in Accounts, NEW amount \in Amounts,
         EmitTransfer(from, to, amount)
  PROVE  TraceInv'
<1> DEFINE log == [from |-> from, to |-> to, amount |-> amount]
           t == frames[Len(frames)].node
           b == arena'
           x == MoveOf(log, frames[Len(frames)].context)
           e == IF started THEN Append(effects, x) ELSE effects
           g == IF started THEN Append(history, <<"log", log>>) ELSE history
<1>1. /\ stage = "executing" /\ stage' = "executing" /\ Len(frames) > 1
      /\ InOrder(arena) /\ effects \in Seq(Moves) /\ started \in BOOLEAN
      /\ Runs(arena, frames, started, effects, history)
      /\ started' = started /\ frames' = frames /\ transfers' = transfers
  BY DEF TraceInv, EmitTransfer
<1>2. Top = frames[Len(frames)]
  BY DEF Top, Last
<1>3. /\ b = [arena EXCEPT ![t].logs = Append(@, log),
                           ![t].ordering = Append(@, [kind |-> "Log",
                                                      index |-> Len(arena[t].logs) + 1])]
      /\ effects' = e /\ history' = g
  BY <1>2 DEF EmitTransfer, MoveOf
<1>4. log \in LogRecords
  BY DEF LogRecords
<1>5. Tree(arena) /\ Path(arena, frames) /\ t \in 1 .. Len(arena)
  <2>1. Tree(arena) /\ Path(arena, frames)
    BY <1>1 DEF InOrder, Runs
  <2>2. 1 \in 1 .. Len(frames)
    <3> DEFINE m == Len(frames)
    <3>1. m \in Nat /\ m > 0
      BY <2>1 DEF Path
    <3> HIDE DEF m
    <3>2. 1 \in 1 .. m
      BY <3>1
    <3> QED
      BY <3>2 DEF m
  <2> QED
    BY <2>1, <2>2, PathFrame
<1>6. LogsIn(arena, b, t, log)
  <2> HIDE DEF b, log, t
  <2> QED
    BY <1>3, <1>4, <1>5, LogsIsEmit
<1>7. InOrder(b) /\ x \in Moves /\ Runs(b, frames, started, e, g)
  <2> HIDE DEF b, log
  <2> QED
    BY <1>1, <1>4, <1>6, LogsRuns
<1>8. e \in Seq(Moves)
  <2> HIDE DEF x
  <2> QED
    BY <1>1, <1>7
<1> HIDE DEF e, g
<1> QED
  BY <1>1, <1>3, <1>7, <1>8 DEF TraceInv


(* the end of a call, by a return or a revert,                               *)
LEMMA LeaveKeepsTrace ==
  ASSUME TraceInv, NEW success \in BOOLEAN, Leave(success)
  PROVE  TraceInv'
<1> DEFINE m == Len(frames)
           t == frames[m].node
           failed == [arena EXCEPT ![t].success = FALSE]
           kept == SubSeq(effects, 1, frames[m].mark)
           ends == m = 2 /\ (started \/ ~ success)
<1>1. /\ stage = "executing" /\ m > 1
      /\ InOrder(arena) /\ effects \in Seq(Moves) /\ started \in BOOLEAN
      /\ Runs(arena, frames, started, effects, history)
      /\ started' = started /\ history' = history /\ transfers' = transfers
      /\ transfers \in Seq(Moves)
  BY DEF TraceInv, Leave
<1>2. Top = frames[m]
  BY DEF Top, Last
<1>3. /\ effects' = IF success THEN effects ELSE kept
      /\ frames' = IF ends THEN <<>> ELSE Front(frames)
      /\ stage' = IF ends THEN "recorded" ELSE "executing"
      /\ success => arena' = arena
      /\ ~ success /\ ~ ends => arena' = failed
      /\ ~ success /\ ends => arena' = [failed EXCEPT ![1].success = FALSE]
  BY <1>1, <1>2 DEF Leave
<1>4. /\ Tree(arena) /\ CallsInOrder(arena) /\ HarnessCalls(arena)
      /\ Path(arena, frames) /\ m \in Nat /\ t \in 1 .. Len(arena)
      /\ started => Len(frames) > 1
  <2>1. /\ Tree(arena) /\ CallsInOrder(arena) /\ HarnessCalls(arena) /\ Path(arena, frames)
        /\ started => Len(frames) > 1
    BY <1>1 DEF InOrder, Runs
  <2>2. m \in Nat
    BY <2>1 DEF Path
  <2>3. m \in 1 .. m
    <3> HIDE DEF m
    <3> QED
      BY <1>1, <2>2
  <2>4. t \in 1 .. Len(arena)
    BY <2>1, <2>3, PathFrame
  <2> QED
    BY <2>1, <2>2, <2>4
<1>5. Fails(arena, failed, t)
  <2> HIDE DEF failed, t
  <2> QED
    BY <1>4, FailsIsRevert DEF failed
<1>6. CASE success /\ ~ ends
  <2>1. started => Len(frames) > 2
    <3>1. started => m # 2
      BY <1>6
    <3> HIDE DEF m
    <3>2. started => m > 2
      BY <1>1, <1>4, <3>1
    <3> QED
      BY <3>2 DEF m
  <2>2. Runs(arena, Front(frames), started, effects, history)
    BY <1>1, <2>1, ReturnsRuns
  <2>3. /\ arena' = arena /\ effects' = effects /\ frames' = Front(frames)
        /\ stage' = "executing"
    BY <1>3, <1>6
  <2> QED
    BY <1>1, <2>2, <2>3 DEF TraceInv
<1>7. CASE success /\ ends
  <2>1. started = TRUE /\ Len(frames) = 2
    BY <1>1, <1>7
  <2>2. Ends(arena, TRUE, effects, history)
    <3>1. Runs(arena, frames, TRUE, effects, history)
      BY <1>1, <2>1
    <3> QED
      BY <1>1, <2>1, <3>1, ReturnsEnds
  <2>3. arena' = arena /\ effects' = effects /\ stage' = "recorded" /\ started' = TRUE
    BY <1>1, <1>3, <1>7, <2>1
  <2> QED
    BY <1>1, <2>2, <2>3 DEF TraceInv
<1>8. CASE ~ success /\ ~ ends
  <2>1. Len(frames) > 2
    <3>1. m # 2
      BY <1>8
    <3> HIDE DEF m
    <3>2. m > 2
      BY <1>1, <1>4, <3>1
    <3> QED
      BY <3>2 DEF m
  <2> DEFINE b == arena'
  <2>2. b = failed /\ effects' = kept /\ frames' = Front(frames) /\ stage' = "executing"
    BY <1>3, <1>8
  <2>3. InOrder(b) /\ kept \in Seq(Moves) /\ Runs(b, Front(frames), started, kept, history)
    <3>1. Fails(arena, b, frames[Len(frames)].node)
      BY <1>5, <2>2
    <3> HIDE DEF b
    <3> QED
      BY <1>1, <2>1, <3>1, FailsRuns
  <2> HIDE DEF kept
  <2> QED
    BY <1>1, <2>2, <2>3 DEF TraceInv
<1>9. CASE ~ success /\ ends
  <2> DEFINE c == arena'
  <2>1. c = [failed EXCEPT ![1].success = FALSE] /\ effects' = kept /\ stage' = "recorded"
    BY <1>3, <1>9
  <2>2. Len(frames) = 2
    BY <1>9
  <2>3. Fails(failed, c, 1)
    <3>1. Tree(failed) /\ HarnessCalls(failed)
      <4> HIDE DEF failed, t
      <4> QED
        BY <1>4, <1>5, FailsTree
    <3>2. 1 \in 1 .. Len(failed)
      <4> HIDE DEF failed
      <4> QED
        BY <3>1 DEF Tree, HarnessCalls
    <3> HIDE DEF failed, c
    <3> QED
      BY <2>1, <3>1, <3>2, FailsIsRevert
  <2>4. InOrder(c) /\ kept \in Seq(Moves) /\ Ends(c, started, kept, history)
    <3>1. Fails(arena, failed, frames[Len(frames)].node)
      BY <1>5
    <3> HIDE DEF failed, c
    <3> QED
      BY <1>1, <2>2, <2>3, <3>1, FailsEnds
  <2> HIDE DEF kept
  <2> QED
    BY <1>1, <2>1, <2>4 DEF TraceInv
<1> HIDE DEF ends
<1> QED
  BY <1>6, <1>7, <1>8, <1>9

-----------------------------------------------------------------------------
(* The steps of those who read the trace. *)
LEMMA ParseOutputKeepsTrace ==
  ASSUME TraceInv, ParseOutput
  PROVE  TraceInv'
<1>1. /\ stage = "recorded" /\ stage' = "parsed"
      /\ InOrder(arena) /\ effects \in Seq(Moves) /\ started \in BOOLEAN
      /\ Ends(arena, started, effects, history)
      /\ arena' = arena /\ started' = started /\ effects' = effects /\ history' = history
  BY DEF TraceInv, ParseOutput, traceVars
<1> DEFINE read == transfers'
<1>2. read = IF arena[1].success THEN Collected(arena)[TransactionRoot(arena)][Harness] ELSE <<>>
  BY DEF ParseOutput, CollectERC20Transfers
<1>3. /\ read \in Seq(Moves)
      /\ \A mu \in Weights : Weight(mu, read) = Weight(mu, effects)
  <2> HIDE DEF read
  <2> QED
    BY <1>1, <1>2, ParsesWhatHappened
<1> QED
  BY <1>1, <1>3 DEF TraceInv

(* the Trace tab,                                                            *)
LEMMA ShowTraceKeepsTrace ==
  ASSUME TraceInv, ShowTrace
  PROVE  TraceInv'
<1>1. /\ stage = "parsed" /\ stage' = "shown"
      /\ InOrder(arena) /\ effects \in Seq(Moves) /\ transfers \in Seq(Moves)
      /\ started \in BOOLEAN
      /\ Ends(arena, started, effects, history)
      /\ \A mu \in Weights : Weight(mu, transfers) = Weight(mu, effects)
      /\ arena' = arena /\ started' = started /\ effects' = effects /\ history' = history
      /\ transfers' = transfers /\ shown' = Rows(arena)[MainCall(arena)]
  BY DEF TraceInv, ShowTrace, traceVars
<1>2. MainCall(arena) = Transaction(arena)
  <2>1. Tree(arena) /\ HarnessCalls(arena) /\ Len(arena[1].children) > 0
    BY <1>1 DEF InOrder, Ends
  <2> QED
    BY <2>1, TransactionFound
<1> QED
  BY <1>1, <1>2 DEF TraceInv

(* and what is made of the transfers.                                        *)
LEMMA FlowKeepsTrace ==
  ASSUME TraceInv, FetchTokenPrices \/ AskProvider \/ AnalyzeBalanceChanges \/ ShowFlow
  PROVE  TraceInv'
<1>1. /\ stage \in {"parsed", "pricing", "priced", "analyzed"}
      /\ stage' \in {"pricing", "priced", "analyzed", "drawn"}
      /\ effects' = effects /\ transfers' = transfers /\ started' = started
  <2>1. CASE FetchTokenPrices
    BY <2>1 DEF FetchTokenPrices
  <2>2. CASE AskProvider
    BY <2>2 DEF AskProvider, traceVars
  <2>3. CASE AnalyzeBalanceChanges
    BY <2>3 DEF AnalyzeBalanceChanges, traceVars
  <2>4. CASE ShowFlow
    BY <2>4 DEF ShowFlow, traceVars
  <2> QED
    BY <2>1, <2>2, <2>3, <2>4
<1> QED
  BY <1>1 DEF TraceInv

(* So every step keeps the invariant,                                        *)
LEMMA TraceInvNext ==
  ASSUME TraceInv, [Next]_vars
  PROVE  TraceInv'
<1>1. CASE Next
  <2>1. CASE \E c \in Contracts : Override(c)
    BY <2>1, OverrideKeepsTrace
  <2>2. CASE \E c \in Contracts : CallTarget(c)
    BY <2>2, CallTargetKeepsTrace
  <2>3. CASE \E kind \in {"CALL", "DELEGATECALL"}, c \in Contracts : CallInside(kind, c)
    BY <2>3, CallInsideKeepsTrace
  <2>4. CASE \E from, to \in Accounts, amount \in Amounts : EmitTransfer(from, to, amount)
    BY <2>4, EmitTransferKeepsTrace
  <2>5. CASE \E success \in BOOLEAN : Leave(success)
    BY <2>5, LeaveKeepsTrace
  <2>6. CASE ParseOutput
    BY <2>6, ParseOutputKeepsTrace
  <2>7. CASE ShowTrace
    BY <2>7, ShowTraceKeepsTrace
  <2>8. CASE FetchTokenPrices \/ AskProvider \/ AnalyzeBalanceChanges \/ ShowFlow
    BY <2>8, FlowKeepsTrace
  <2> QED
    BY <1>1, <2>1, <2>2, <2>3, <2>4, <2>5, <2>6, <2>7, <2>8 DEF Next, NextTrace, Execute
<1>2. CASE UNCHANGED vars
  BY <1>2 DEF vars, traceVars, TraceInv
<1> QED
  BY <1>1, <1>2

(* and it always holds.                                                      *)
LEMMA TraceInvAlways == Spec => []TraceInv
<1>1. Init => TraceInv
  BY TraceInvInit DEF Init
<1>2. TraceInv /\ [Next]_vars => TraceInv'
  BY TraceInvNext
<1> QED
  BY <1>1, <1>2, PTL DEF Spec

-----------------------------------------------------------------------------
(* What follows from it. *)

(* Indicators are weights: they count a transfer. *)
LEMMA TimesIsWeight ==
  ASSUME NEW x \in Moves, NEW s \in Seq(Moves), NEW mu, mu = [y \in Moves |-> IF y = x THEN 1 ELSE 0]
  PROVE  mu \in Weights /\ Times(x, s) = Weight(mu, s)
<1>1. mu \in Weights
  BY DEF Weights
<1>2. \A i \in DOMAIN s : mu[s[i]] = IF s[i] = x THEN 1 ELSE 0
  <2>1. \A i \in DOMAIN s : s[i] \in Moves
    OBVIOUS
  <2> QED
    BY <2>1
<1>3. [i \in DOMAIN s |-> mu[s[i]]] = [i \in DOMAIN s |-> IF s[i] = x THEN 1 ELSE 0]
  BY <1>2
<1> QED
  BY <1>1, <1>3 DEF Times, Weight

(* Lists of the same weights hold each transfer equally often.               *)
LEMMA TraceInvTransfers == TraceInv => TransfersHappened
<1> SUFFICES ASSUME TraceInv, stage # "executing" /\ stage # "recorded"
             PROVE  SameBag(transfers, effects)
  BY DEF TransfersHappened
<1>1. /\ effects \in Seq(Moves) /\ transfers \in Seq(Moves)
      /\ \A mu \in Weights : Weight(mu, transfers) = Weight(mu, effects)
  BY DEF TraceInv
<1>2. ASSUME NEW x \in ToSet(transfers) \cup ToSet(effects)
      PROVE  Times(x, transfers) = Times(x, effects)
  <2>1. x \in Moves
    BY <1>1 DEF ToSet
  <2> DEFINE mu == [y \in Moves |-> IF y = x THEN 1 ELSE 0]
  <2>2. /\ mu \in Weights
        /\ Times(x, transfers) = Weight(mu, transfers) /\ Times(x, effects) = Weight(mu, effects)
    <3> HIDE DEF mu
    <3> QED
      BY <1>1, <2>1, TimesIsWeight DEF mu
  <2> HIDE DEF mu
  <2> QED
    BY <1>1, <2>2
<1> QED
  BY <1>2 DEF SameBag

(* What the Trace tab shows is the rows of the transaction.                  *)
LEMMA TraceInvShown == TraceInv => ShownIsExecution
<1> SUFFICES ASSUME TraceInv, stage = "shown"
             PROVE  IF started THEN shown = history ELSE ~ arena[shown[1][2]].success
  BY DEF ShownIsExecution
<1>1. /\ InOrder(arena) /\ Ends(arena, started, effects, history)
      /\ shown = Rows(arena)[Transaction(arena)] /\ started \in BOOLEAN
  BY DEF TraceInv
<1>2. CASE started
  BY <1>1, <1>2 DEF Ends
<1>3. CASE ~ started
  <2>1. Tree(arena) /\ HarnessCalls(arena) /\ Len(arena[1].children) > 0
    BY <1>1 DEF InOrder, Ends
  <2> DEFINE t == Transaction(arena)
  <2>2. t \in 1 .. Len(arena)
    <3>1. t \in 2 .. Len(arena)
      BY <2>1, TransactionFound
    <3> HIDE DEF t
    <3> QED
      BY <3>1
  <2>3. shown[1] = <<"call", t>>
    <3>1. shown = NodeRows(arena, t, Rows(arena))
      <4> HIDE DEF t
      <4>1. shown = Rows(arena)[t]
        BY <1>1 DEF t
      <4> QED
        BY <2>1, <2>2, <4>1, RowsRecursion
    <3> QED
      BY <3>1 DEF NodeRows
  <2>4. shown[1][2] = t
    BY <2>3
  <2> QED
    BY <1>1, <1>3, <2>4 DEF Ends
<1> QED
  BY <1>1, <1>2, <1>3

(* The transfers of the response are those that happened.                    *)
THEOREM TransfersAlwaysHappened == Spec => []TransfersHappened
  BY TraceInvAlways, TraceInvTransfers, PTL

(* The Trace tab always shows the transaction as it ran.                     *)
THEOREM ShownAlwaysExecution == Spec => []ShownIsExecution
  BY TraceInvAlways, TraceInvShown, PTL
=============================================================================
