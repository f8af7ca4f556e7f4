------------------------ MODULE WorkDirectoryProofs ------------------------
(***************************************************************************)
(* Proofs about WorkDirectory, for any number of handlers and kills and    *)
(* every limit of the list: every variable has its type, the record        *)
(* database loses no record once its table is of the present version, and  *)
(* the list of recent projects is what its name says.  The loop of         *)
(* Cache.Add is reasoned about by induction on its rounds (Rounds).        *)
(***************************************************************************)
EXTENDS WorkDirectory, Rounds, SequenceTheorems

-----------------------------------------------------------------------------
(* Cache.Add and the lists it makes. *)

(* How long its list may get: it sees the limit only after it has appended. *)
Cap == IF Limit = 1 THEN 2 ELSE Limit

(* One round on the list gathered so far. *)
Round(p, list, i, before) ==
    IF list[i] = p \/ (Len(before) > 1 /\ Len(before) >= Limit)
    THEN before ELSE Append(before, list[i])

(* The rounds of Add are well defined. *)
LEMMA RoundsOfAdd ==
  ASSUME NEW p \in Projects, NEW list \in Seq(Projects)
  PROVE  /\ Updates(p, list) \in [0 .. Len(list) -> Seq(Projects)]
         /\ \A i \in 0 .. Len(list) :
               Updates(p, list)[i] =
                  IF i = 0 THEN <<p>> ELSE Round(p, list, i, Updates(p, list)[i - 1])
<1> DEFINE n == Len(list)
           Lists == Seq(Projects)
           step == [q \in (1 .. n) \X Lists |-> Round(p, list, q[1], q[2])]
           Fits(f) == f = [i \in 0 .. n |-> IF i = 0 THEN <<p>>
                                            ELSE Round(p, list, i, f[i - 1])]
<1>1. /\ n \in Nat /\ <<p>> \in Lists
      /\ \A i \in 1 .. n, before \in Lists : Round(p, list, i, before) \in Lists
  BY DEF Round
<1>2. \A i \in 1 .. n, before \in Lists :
         step[<<i, before>>] = Round(p, list, i, before)
  <2> HIDE DEF n
  <2> QED
    OBVIOUS
<1>3. \A i \in 1 .. n, before \in Lists : step[<<i, before>>] \in Lists
  BY <1>1, <1>2
<1>a. n = Len(list) /\ Lists = Seq(Projects)
  OBVIOUS
<1> HIDE DEF n, step, Lists
<1>4. PICK f : AreRounds(f, n, Lists, <<p>>, step)
  BY <1>1, <1>3, RoundsExist
<1>5. ASSUME NEW i \in 0 .. n
      PROVE  f[i] = IF i = 0 THEN <<p>> ELSE Round(p, list, i, f[i - 1])
  <2>1. CASE i = 0
    BY <1>4, <2>1 DEF AreRounds
  <2>2. CASE i # 0
    <3>1. i - 1 \in 0 .. n /\ i \in 1 .. n
      BY <1>1, <2>2
    <3>2. f[i - 1] \in Lists /\ f[i] = step[<<i, f[i - 1]>>]
      BY <1>4, <2>2, <3>1 DEF AreRounds
    <3> QED
      BY <1>2, <2>2, <3>1, <3>2
  <2> QED
    BY <2>1, <2>2
<1>6. Fits(f)
  BY <1>4, <1>5 DEF AreRounds
<1>7. Updates(p, list) = CHOOSE g : Fits(g)
  BY <1>a DEF Updates, Round
<1>8. Fits(Updates(p, list))
  <2> HIDE DEF Fits
  <2> QED
    BY <1>6, <1>7
<1> DEFINE up == Updates(p, list)
           Good == {i \in 0 .. n : up[i] \in Lists}
<1>9. up = [i \in 0 .. n |-> IF i = 0 THEN <<p>> ELSE Round(p, list, i, up[i - 1])]
  BY <1>8
<1> HIDE DEF up
<1>10. \A i \in 0 .. n : up[i] = IF i = 0 THEN <<p>> ELSE Round(p, list, i, up[i - 1])
  BY <1>9
<1>11. 0 \in Good
  BY <1>1, <1>10
<1>12. ASSUME NEW i \in 1 .. n, i - 1 \in Good PROVE i \in Good
  <2>1. up[i] = Round(p, list, i, up[i - 1]) /\ i \in 0 .. n
    BY <1>10, <1>1
  <2>2. Round(p, list, i, up[i - 1]) \in Lists
    BY <1>1, <1>12
  <2> QED
    BY <2>1, <2>2
<1>13. \A i \in 0 .. n : i \in Good
  <2> HIDE DEF Good
  <2> QED
    BY <1>1, <1>11, <1>12, RoundsInduction
<1>14. up \in [0 .. n -> Lists]
  BY <1>9, <1>13
<1> QED
  BY <1>a, <1>10, <1>14 DEF up

(* A round appends its project, unless that is the first one or the list is *)
(* full.                                                                    *)
LEMMA RoundAppends ==
  ASSUME NEW p \in Projects, NEW list \in Seq(Projects), NEW i \in 1 .. Len(list),
         NEW before \in Seq(Projects), Len(before) \in 1 .. Cap
  PROVE  Round(p, list, i, before) =
            IF list[i] = p \/ Len(before) = Cap THEN before ELSE Append(before, list[i])
<1>a. /\ Limit \in Nat /\ Limit >= 1 /\ Cap = (IF Limit = 1 THEN 2 ELSE Limit)
      /\ Len(before) \in Nat /\ Len(before) >= 1 /\ Len(before) <= Cap
  BY DirectoryAssumption DEF Cap
<1>b. (Limit = 1 => Cap = 2) /\ (Limit # 1 => Cap = Limit)
  BY <1>a
<1>1. Len(before) > 1 /\ Len(before) >= Limit <=> Len(before) = Cap
  <2> DEFINE length == Len(before)
  <2>1. length \in Nat /\ length >= 1 /\ length <= Cap
    BY <1>a
  <2> HIDE DEF length
  <2>2. length > 1 /\ length >= Limit <=> length = Cap
    BY <1>a, <1>b, <2>1
  <2> QED
    BY <2>2 DEF length
<1> QED
  BY <1>1 DEF Round

(* A list that Add makes starts with the added project and ends at the cap. *)
Listing(p, u) == u \in Seq(Projects) /\ Len(u) \in 1 .. Cap /\ u[1] = p

(* So does each round of the loop over the list. *)
LEMMA RoundLists ==
  ASSUME NEW p \in Projects, NEW list \in Seq(Projects), NEW i \in 1 .. Len(list),
         NEW u, Listing(p, u)
  PROVE  Listing(p, Round(p, list, i, u))
<1>1. /\ u \in Seq(Projects) /\ Len(u) \in 1 .. Cap /\ u[1] = p
      /\ list[i] \in Projects /\ Cap \in Nat
  BY DirectoryAssumption DEF Listing, Cap
<1>2. CASE list[i] = p \/ Len(u) = Cap
  BY <1>1, <1>2, RoundAppends DEF Listing
<1>3. CASE ~ (list[i] = p \/ Len(u) = Cap)
  <2>1. Round(p, list, i, u) = Append(u, list[i])
    BY <1>1, <1>3, RoundAppends
  <2>2. /\ Append(u, list[i]) \in Seq(Projects) /\ Append(u, list[i])[1] = p
        /\ Len(Append(u, list[i])) = Len(u) + 1
    BY <1>1
  <2> QED
    BY <1>1, <1>3, <2>1, <2>2 DEF Listing
<1> QED
  BY <1>2, <1>3

(* What Add writes is such a list. *)
LEMMA AddLists ==
  ASSUME NEW p \in Projects, NEW list \in Seq(Projects)
  PROVE  /\ \A i \in 0 .. Len(list) : Listing(p, Updates(p, list)[i])
         /\ Listing(p, Added(p, list))
<1> DEFINE n == Len(list)
           up == Updates(p, list)
           Good == {i \in 0 .. n : Listing(p, up[i])}
<1>1. n \in Nat /\ n = Len(list)
  OBVIOUS
<1>a. \A i \in 0 .. n : up[i] = IF i = 0 THEN <<p>> ELSE Round(p, list, i, up[i - 1])
  BY RoundsOfAdd
<1> HIDE DEF n, up
<1>2. up[0] = <<p>> /\ \A i \in 1 .. n : up[i] = Round(p, list, i, up[i - 1])
  BY <1>a, <1>1
<1>b. Cap \in Nat /\ Cap >= 1
  BY DirectoryAssumption DEF Cap
<1>c. Listing(p, <<p>>)
  BY <1>b DEF Listing
<1>3. 0 \in Good
  BY <1>1, <1>2, <1>c
<1>4. ASSUME NEW i \in 1 .. n, i - 1 \in Good PROVE i \in Good
  <2>1. Listing(p, Round(p, list, i, up[i - 1])) /\ i \in 0 .. n
    BY <1>1, <1>4, RoundLists
  <2> QED
    BY <1>2, <2>1
<1>5. \A i \in 0 .. n : i \in Good
  <2> HIDE DEF Good
  <2> QED
    BY <1>1, <1>3, <1>4, RoundsInduction
<1> QED
  BY <1>1, <1>5 DEF Added, n, up

(* u is ordered as last tells, and of the first i projects of the list it   *)
(* leaves out only those that come after all that it holds, when it is full. *)
Ordered(p, list, last, i, u) ==
    /\ \A a, b \in 1 .. Len(u) : a < b => last[u[a]] > last[u[b]]
    /\ \A a \in 2 .. Len(u) : \E j \in 1 .. i : u[a] = list[j] /\ list[j] # p
    /\ \A j \in 1 .. i : \/ \E a \in 1 .. Len(u) : u[a] = list[j]
                         \/ Len(u) = Cap /\ \A a \in 1 .. Len(u) : last[u[a]] > last[list[j]]
    /\ \/ Len(u) = Cap
       \/ Len(u) >= i + 1
       \/ Len(u) >= i /\ \E j \in 1 .. i : list[j] = p

(* last orders the list, but for the project p, which comes before all.     *)
OrderedBefore(p, list, last) ==
    /\ last \in [Projects -> Int]
    /\ \A i, j \in 1 .. Len(list) :
          i < j /\ list[i] # p /\ list[j] # p => last[list[i]] > last[list[j]]
    /\ \A i, j \in 1 .. Len(list) : list[i] = p /\ list[j] = p => i = j
    /\ \A i \in 1 .. Len(list) : list[i] # p => last[p] > last[list[i]]

(* A round keeps the order. *)
LEMMA RoundOrders ==
  ASSUME NEW p \in Projects, NEW list \in Seq(Projects), NEW last,
         OrderedBefore(p, list, last), NEW i \in 1 .. Len(list),
         NEW u, Listing(p, u), Ordered(p, list, last, i - 1, u)
  PROVE  Ordered(p, list, last, i, Round(p, list, i, u))
<1>1. /\ u \in Seq(Projects) /\ Len(u) \in 1 .. Cap /\ u[1] = p
      /\ list[i] \in Projects /\ Cap \in Nat /\ i \in Nat /\ i >= 1
      /\ last \in [Projects -> Int]
      /\ \A a \in 1 .. Len(u) : u[a] \in Projects
      /\ \A j \in 1 .. Len(list) : list[j] \in Projects
  BY DirectoryAssumption DEF Listing, Cap, OrderedBefore
<1>2. \A j \in 1 .. (i - 1) : j \in 1 .. i
  BY <1>1
<1>3. \A j \in 1 .. i : j \in 1 .. (i - 1) \/ j = i
  BY <1>1
<1>4. ASSUME list[i] # p, NEW a \in 1 .. Len(u) PROVE last[u[a]] > last[list[i]]
  <2>1. CASE a = 1
    BY <1>1, <1>4, <2>1 DEF OrderedBefore
  <2>2. CASE a # 1
    <3>a. a \in 2 .. Len(u)
      BY <1>1, <2>2
    <3>1. PICK j \in 1 .. (i - 1) : u[a] = list[j] /\ list[j] # p
      BY <3>a DEF Ordered
    <3>2. j \in 1 .. Len(list) /\ j < i
      BY <1>1, <3>1
    <3> QED
      BY <1>4, <3>1, <3>2 DEF OrderedBefore
  <2> QED
    BY <2>1, <2>2
<1>5. CASE list[i] = p
  <2>1. Round(p, list, i, u) = u
    BY <1>1, <1>5, RoundAppends
  <2>2. \A a \in 2 .. Len(u) : \E j \in 1 .. i : u[a] = list[j] /\ list[j] # p
    BY <1>2 DEF Ordered
  <2>3. \A j \in 1 .. i : \/ \E a \in 1 .. Len(u) : u[a] = list[j]
                          \/ Len(u) = Cap /\ \A a \in 1 .. Len(u) : last[u[a]] > last[list[j]]
    <3>1. 1 \in 1 .. Len(u) /\ u[1] = list[i]
      BY <1>1, <1>5
    <3>2. \A j \in 1 .. (i - 1) :
             \/ \E a \in 1 .. Len(u) : u[a] = list[j]
             \/ Len(u) = Cap /\ \A a \in 1 .. Len(u) : last[u[a]] > last[list[j]]
      BY DEF Ordered
    <3> QED
      BY <1>3, <3>1, <3>2
  <2>4. Len(u) = Cap \/ (Len(u) >= i /\ \E j \in 1 .. i : list[j] = p)
    <3>1. \A j \in 1 .. (i - 1) : list[j] # p
      BY <1>1, <1>5 DEF OrderedBefore
    <3>2. Len(u) = Cap \/ Len(u) >= (i - 1) + 1
      BY <3>1 DEF Ordered
    <3>3. i \in 1 .. i
      BY <1>1
    <3> QED
      BY <1>1, <1>5, <3>2, <3>3
  <2> QED
    BY <2>1, <2>2, <2>3, <2>4 DEF Ordered
<1>6. CASE list[i] # p /\ Len(u) = Cap
  <2>1. Round(p, list, i, u) = u
    BY <1>1, <1>6, RoundAppends
  <2>2. \A a \in 2 .. Len(u) : \E j \in 1 .. i : u[a] = list[j] /\ list[j] # p
    BY <1>2 DEF Ordered
  <2>3. \A j \in 1 .. i : \/ \E a \in 1 .. Len(u) : u[a] = list[j]
                          \/ Len(u) = Cap /\ \A a \in 1 .. Len(u) : last[u[a]] > last[list[j]]
    BY <1>3, <1>4, <1>6 DEF Ordered
  <2> QED
    BY <1>6, <2>1, <2>2, <2>3 DEF Ordered
<1>7. CASE list[i] # p /\ Len(u) # Cap
  <2> DEFINE v == Append(u, list[i])
  <2>1. Round(p, list, i, u) = v
    BY <1>1, <1>7, RoundAppends
  <2>2. /\ Len(v) = Len(u) + 1 /\ v[Len(v)] = list[i]
        /\ \A a \in 1 .. Len(u) : a \in 1 .. Len(v) /\ v[a] = u[a]
        /\ \A a \in 1 .. Len(v) : a \in 1 .. Len(u) \/ a = Len(v)
        /\ Len(v) \in 1 .. Len(v) /\ Len(u) \in Nat /\ Len(v) \in Nat
    BY <1>1
  <2> HIDE DEF v
  <2>3. ASSUME NEW a \in 1 .. Len(v), NEW b \in 1 .. Len(v), a < b
        PROVE  last[v[a]] > last[v[b]]
    <3>1. a \in 1 .. Len(u) /\ v[a] = u[a]
      BY <2>2, <2>3
    <3>2. CASE b = Len(v)
      BY <1>4, <1>7, <2>2, <3>1, <3>2
    <3>3. CASE b \in 1 .. Len(u)
      BY <2>2, <2>3, <3>1, <3>3 DEF Ordered
    <3> QED
      BY <2>2, <3>2, <3>3
  <2>4. ASSUME NEW a \in 2 .. Len(v)
        PROVE  \E j \in 1 .. i : v[a] = list[j] /\ list[j] # p
    <3>1. CASE a = Len(v)
      <4>1. i \in 1 .. i
        BY <1>1
      <4> QED
        BY <1>7, <2>2, <3>1, <4>1
    <3>2. CASE a # Len(v)
      <4>1. a \in 2 .. Len(u) /\ v[a] = u[a]
        BY <2>2, <3>2
      <4>2. PICK j \in 1 .. (i - 1) : u[a] = list[j] /\ list[j] # p
        BY <4>1 DEF Ordered
      <4> QED
        BY <1>2, <4>1, <4>2
    <3> QED
      BY <3>1, <3>2
  <2>5. ASSUME NEW j \in 1 .. i PROVE \E a \in 1 .. Len(v) : v[a] = list[j]
    <3>1. CASE j = i
      BY <2>2, <3>1
    <3>2. CASE j \in 1 .. (i - 1)
      <4>1. PICK a \in 1 .. Len(u) : u[a] = list[j]
        BY <1>7, <3>2 DEF Ordered
      <4> QED
        BY <2>2, <4>1
    <3> QED
      BY <1>3, <3>1, <3>2
  <2>6. Len(v) >= i + 1 \/ (Len(v) >= i /\ \E j \in 1 .. i : list[j] = p)
    <3>1. Len(u) >= (i - 1) + 1 \/ (Len(u) >= i - 1 /\ \E j \in 1 .. (i - 1) : list[j] = p)
      BY <1>7 DEF Ordered
    <3> QED
      BY <1>1, <1>2, <2>2, <3>1
  <2> QED
    BY <2>1, <2>3, <2>4, <2>5, <2>6 DEF Ordered
<1> QED
  BY <1>5, <1>6, <1>7

(* The list of Add is ordered as its rounds are. *)
LEMMA AddOrders ==
  ASSUME NEW p \in Projects, NEW list \in Seq(Projects), NEW last,
         OrderedBefore(p, list, last)
  PROVE  Ordered(p, list, last, Len(list), Added(p, list))
<1> DEFINE n == Len(list)
           up == Updates(p, list)
           Good == {i \in 0 .. n : Ordered(p, list, last, i, up[i])}
<1>1. n \in Nat /\ n = Len(list)
  OBVIOUS
<1>2. \A i \in 0 .. n : up[i] = IF i = 0 THEN <<p>> ELSE Round(p, list, i, up[i - 1])
  BY RoundsOfAdd
<1>3. \A i \in 0 .. n : Listing(p, up[i])
  BY AddLists
<1> HIDE DEF n, up
<1>4. 0 \in Good
  <2>1. up[0] = <<p>>
    BY <1>1, <1>2
  <2>2. Ordered(p, list, last, 0, <<p>>)
    BY DEF Ordered
  <2> QED
    BY <1>1, <2>1, <2>2
<1>5. ASSUME NEW i \in 1 .. n, i - 1 \in Good PROVE i \in Good
  <2>1. i \in 0 .. n /\ i - 1 \in 0 .. n /\ i # 0
    BY <1>1
  <2>2. up[i] = Round(p, list, i, up[i - 1]) /\ Listing(p, up[i - 1])
    BY <1>2, <1>3, <2>1
  <2>3. Ordered(p, list, last, i, Round(p, list, i, up[i - 1]))
    BY <1>1, <1>5, <2>2, RoundOrders
  <2> QED
    BY <2>1, <2>2, <2>3
<1>6. \A i \in 0 .. n : i \in Good
  <2> HIDE DEF Good
  <2> QED
    BY <1>1, <1>4, <1>5, RoundsInduction
<1> QED
  BY <1>1, <1>6 DEF Added, n, up

(* LastUse is the last of the uses, ... *)
LEMMA LastUseIs ==
  uses \in Seq(Projects) =>
     \A p \in Used : /\ LastUse(p) \in 1 .. Len(uses) /\ uses[LastUse(p)] = p
                     /\ \A j \in 1 .. Len(uses) : uses[j] = p => j <= LastUse(p)
<1> SUFFICES ASSUME uses \in Seq(Projects), NEW p \in Used
             PROVE  /\ LastUse(p) \in 1 .. Len(uses) /\ uses[LastUse(p)] = p
                    /\ \A j \in 1 .. Len(uses) : uses[j] = p => j <= LastUse(p)
  OBVIOUS
<1> DEFINE n == Len(uses)
           Later == {k \in 0 .. n : \E i \in 1 .. n : uses[i] = p /\ k = n - i}
<1>1. n \in Nat /\ n = Len(uses) /\ DOMAIN uses = 1 .. n
  OBVIOUS
<1> HIDE DEF n
<1>2. PICK i \in 1 .. n : uses[i] = p
  BY <1>1 DEF Used
<1>3. n - i \in Later /\ Later \in SUBSET Nat
  BY <1>1, <1>2
<1>4. PICK k \in Later : \A m \in Later : k <= m
  <2> HIDE DEF Later
  <2> QED
    BY <1>3, LeastNatural
<1>5. PICK l \in 1 .. n : uses[l] = p /\ k = n - l
  BY <1>4
<1>6. ASSUME NEW j \in 1 .. n, uses[j] = p PROVE j <= l
  <2>1. n - j \in Later
    BY <1>1, <1>6
  <2>2. n - l <= n - j
    BY <1>4, <1>5, <2>1
  <2> QED
    BY <1>1, <1>5, <2>2
<1> QED
  BY <1>1, <1>5, <1>6 DEF LastUse

(* ... before a step and after it. *)
LEMMA LastUseIsNext ==
  (uses \in Seq(Projects) =>
     \A p \in Used : /\ LastUse(p) \in 1 .. Len(uses) /\ uses[LastUse(p)] = p
                     /\ \A j \in 1 .. Len(uses) : uses[j] = p => j <= LastUse(p))'
  BY LastUseIs, PTL

(* A use of p is its last one and leaves those of the other projects alone. *)
LEMMA UsedAgain ==
  ASSUME uses \in Seq(Projects), NEW p \in Projects, uses' = Append(uses, p)
  PROVE  /\ uses' \in Seq(Projects)
         /\ Used' = Used \cup {p}
         /\ LastUse(p)' = Len(uses) + 1
         /\ \A q \in Used : LastUse(q) \in 1 .. Len(uses)
         /\ \A q \in Used \ {p} : LastUse(q)' = LastUse(q)
<1> DEFINE n == Len(uses)
<1>1. /\ n \in Nat /\ n = Len(uses) /\ Len(uses') = n + 1 /\ uses' \in Seq(Projects)
      /\ DOMAIN uses = 1 .. n /\ DOMAIN uses' = 1 .. (n + 1)
      /\ uses'[n + 1] = p /\ \A i \in 1 .. n : uses'[i] = uses[i]
  OBVIOUS
<1> HIDE DEF n
<1>2. \A i \in 1 .. (n + 1) : i \in 1 .. n \/ i = n + 1
  BY <1>1
<1>3. \A i \in 1 .. n : i \in 1 .. (n + 1)
  BY <1>1
<1>4. n + 1 \in 1 .. (n + 1)
  BY <1>1
<1>5. Used' = Used \cup {p}
  BY <1>1, <1>2, <1>3, <1>4 DEF Used
<1>6. /\ LastUse(p)' \in 1 .. (n + 1)
      /\ \A j \in 1 .. (n + 1) : uses'[j] = p => j <= LastUse(p)'
  BY <1>1, <1>5, LastUseIsNext
<1>7. LastUse(p)' = n + 1
  BY <1>1, <1>4, <1>6
<1>8. ASSUME NEW q \in Used
      PROVE  LastUse(q) \in 1 .. n /\ (q # p => LastUse(q)' = LastUse(q))
  <2>1. /\ LastUse(q) \in 1 .. n /\ uses[LastUse(q)] = q
        /\ \A j \in 1 .. n : uses[j] = q => j <= LastUse(q)
    BY <1>1, LastUseIs
  <2>2. /\ LastUse(q)' \in 1 .. (n + 1) /\ uses'[LastUse(q)'] = q
        /\ \A j \in 1 .. (n + 1) : uses'[j] = q => j <= LastUse(q)'
    BY <1>1, <1>5, LastUseIsNext
  <2> DEFINE before == LastUse(q)
             after == LastUse(q)'
  <2>3. /\ before \in 1 .. n /\ uses[before] = q /\ \A j \in 1 .. n : uses[j] = q => j <= before
        /\ after \in 1 .. (n + 1) /\ uses'[after] = q
        /\ \A j \in 1 .. (n + 1) : uses'[j] = q => j <= after
    BY <2>1, <2>2
  <2> HIDE DEF before, after
  <2>4. ASSUME q # p PROVE after = before
    <3>1. after \in 1 .. n /\ uses[after] = q
      BY <1>1, <1>2, <2>3, <2>4
    <3>2. after <= before /\ before <= after
      BY <1>1, <1>3, <2>3, <3>1
    <3> QED
      BY <1>1, <2>3, <3>2
  <2> QED
    BY <2>1, <2>4 DEF before, after
<1> QED
  BY <1>1, <1>5, <1>7, <1>8

(* Adding a project to a list of the most recent ones gives such a list.    *)
LEMMA AddKeepsRecent ==
  ASSUME uses \in Seq(Projects), NEW p \in Projects, uses' = Append(uses, p),
         NEW list \in Seq(Projects), Len(list) <= Limit, MostRecent(list)
  PROVE  MostRecent(Truncated(Added(p, list)))'
<1> DEFINE made == Added(p, list)
           shown == Truncated(made)
           last == [q \in Projects |-> IF q \in Used' THEN LastUse(q)' ELSE 0]
           listed == {list[i] : i \in DOMAIN list}
<1>1. /\ Used' = Used \cup {p} /\ LastUse(p)' = Len(uses) + 1 /\ Len(uses) \in Nat
      /\ \A q \in Used : LastUse(q) \in 1 .. Len(uses)
      /\ \A q \in Used \ {p} : LastUse(q)' = LastUse(q)
  BY UsedAgain
<1>2. Used \in SUBSET Projects
  BY DEF Used
<1>3. /\ listed \in SUBSET Used /\ DOMAIN list = 1 .. Len(list) /\ Len(list) \in Nat
      /\ \A i, j \in 1 .. Len(list) : i < j => LastUse(list[i]) > LastUse(list[j])
      /\ \A q \in Used \ listed : Len(list) = Limit
                                  /\ \A x \in listed : LastUse(x) > LastUse(q)
      /\ \A i \in 1 .. Len(list) : list[i] \in listed
  BY DEF MostRecent
<1>4. /\ last \in [Projects -> Int] /\ last[p] = Len(uses) + 1
      /\ \A q \in Used : last[q] \in Int /\ (q # p => last[q] = LastUse(q) /\ last[p] > last[q])
  BY <1>1, <1>2
<1>5. \A q \in Used' : last[q] = LastUse(q)'
  BY <1>1, <1>2
<1> HIDE DEF last, listed
<1>6. OrderedBefore(p, list, last)
  <2>1. \A i, j \in 1 .. Len(list) :
          i < j /\ list[i] # p /\ list[j] # p => last[list[i]] > last[list[j]]
    BY <1>3, <1>4
  <2>2. ASSUME NEW i \in 1 .. Len(list), NEW j \in 1 .. Len(list), list[i] = list[j]
        PROVE  i = j
    <3>1. ~ (i < j) /\ ~ (j < i)
      BY <1>1, <1>3, <2>2
    <3> QED
      BY <1>3, <3>1
  <2>3. \A i \in 1 .. Len(list) : list[i] # p => last[p] > last[list[i]]
    BY <1>3, <1>4
  <2> QED
    BY <1>4, <2>1, <2>2, <2>3 DEF OrderedBefore
<1>7. Ordered(p, list, last, Len(list), made) /\ Listing(p, made)
  BY <1>6, AddOrders, AddLists
<1> HIDE DEF made
<1>8. /\ made \in Seq(Projects) /\ Len(made) \in 1 .. Cap /\ made[1] = p
      /\ \A a \in 2 .. Len(made) : \E j \in 1 .. Len(list) : made[a] = list[j] /\ list[j] # p
      /\ \A a, b \in 1 .. Len(made) : a < b => last[made[a]] > last[made[b]]
      /\ \A j \in 1 .. Len(list) :
            \/ \E a \in 1 .. Len(made) : made[a] = list[j]
            \/ Len(made) = Cap /\ \A a \in 1 .. Len(made) : last[made[a]] > last[list[j]]
      /\ Len(made) = Cap \/ Len(made) >= Len(list)
  BY <1>3, <1>7 DEF Ordered, Listing
<1>9. /\ Limit \in Nat /\ Limit >= 1
      /\ (Limit = 1 => Cap = 2) /\ (Limit # 1 => Cap = Limit)
  BY DirectoryAssumption DEF Cap
<1>10. /\ shown \in Seq(Projects) /\ Len(shown) = (IF Len(made) > Limit THEN Limit ELSE Len(made))
       /\ Len(shown) \in 1 .. Len(made) /\ DOMAIN shown = 1 .. Len(shown)
       /\ \A a \in 1 .. Len(shown) : shown[a] = made[a] /\ a \in 1 .. Len(made)
  BY <1>8, <1>9 DEF Truncated
<1> HIDE DEF shown
<1> DEFINE has == {shown[i] : i \in DOMAIN shown}
<1>11. p \in has /\ \A a \in 1 .. Len(shown) : shown[a] \in has
  <2>1. 1 \in 1 .. Len(shown) /\ shown[1] = p
    BY <1>8, <1>10
  <2> QED
    BY <1>10, <2>1
<1>12. \A x \in has : \E a \in 1 .. Len(shown) : x = shown[a] /\ x = made[a]
  BY <1>10
<1> HIDE DEF has
<1>13. ASSUME NEW x \in has PROVE x \in Used' /\ (x # p => x \in listed)
  <2>1. PICK a \in 1 .. Len(made) : x = made[a]
    BY <1>10, <1>12
  <2>2. CASE a = 1
    BY <1>1, <1>8, <2>1, <2>2
  <2>3. CASE a # 1
    <3>1. a \in 2 .. Len(made)
      BY <1>8, <2>3
    <3>2. PICK j \in 1 .. Len(list) : made[a] = list[j]
      BY <1>8, <3>1
    <3> QED
      BY <1>1, <1>3, <2>1, <3>2
  <2> QED
    BY <2>2, <2>3
<1>14. ASSUME NEW i \in 1 .. Len(shown), NEW j \in 1 .. Len(shown), i < j
       PROVE  LastUse(shown[i])' > LastUse(shown[j])'
  <2>1. last[shown[i]] > last[shown[j]]
    BY <1>8, <1>10, <1>14
  <2> QED
    BY <1>5, <1>11, <1>13, <2>1
<1>15. ASSUME NEW q \in Used', q \notin has
       PROVE  Len(shown) = Limit /\ \A x \in has : last[x] > last[q]
  <2>1. q \in Used /\ q # p
    BY <1>1, <1>11, <1>15
  <2>2. CASE q \notin listed
    <3>1. Len(list) = Limit /\ \A x \in listed : LastUse(x) > LastUse(q)
      BY <1>3, <2>1, <2>2
    <3>2. Len(shown) = Limit
      BY <1>8, <1>9, <1>10, <3>1
    <3>3. ASSUME NEW x \in has PROVE last[x] > last[q]
      BY <1>3, <1>4, <1>13, <2>1, <3>1
    <3> QED
      BY <3>2, <3>3
  <2>3. CASE \E a \in 1 .. Len(made) : made[a] = q
    <3>1. PICK a \in 1 .. Len(made) : made[a] = q
      BY <2>3
    <3>2. a \notin 1 .. Len(shown)
      BY <1>10, <1>11, <1>15, <3>1
    <3>3. Len(shown) = Limit /\ Limit = 1
      BY <1>8, <1>9, <1>10, <3>1, <3>2
    <3>4. \A x \in has : x = p
      BY <1>8, <1>12, <3>3
    <3> QED
      BY <1>4, <2>1, <3>3, <3>4
  <2>4. CASE q \in listed /\ ~ \E a \in 1 .. Len(made) : made[a] = q
    <3>1. PICK j \in 1 .. Len(list) : list[j] = q
      BY <1>3, <2>4 DEF listed
    <3>2. Len(made) = Cap /\ \A a \in 1 .. Len(made) : last[made[a]] > last[q]
      BY <1>8, <2>4, <3>1
    <3>3. Len(shown) = Limit
      BY <1>8, <1>9, <1>10, <3>2
    <3>4. ASSUME NEW x \in has PROVE last[x] > last[q]
      BY <1>10, <1>12, <3>2
    <3> QED
      BY <3>3, <3>4
  <2> QED
    BY <2>2, <2>3, <2>4
<1>16. \A q \in Used' \ has :
          Len(shown) = Limit /\ \A x \in has : LastUse(x)' > LastUse(q)'
  BY <1>5, <1>13, <1>15
<1>17. has \in SUBSET Used'
  BY <1>13
<1>18. \A i, j \in DOMAIN shown : i < j => LastUse(shown[i])' > LastUse(shown[j])'
  BY <1>10, <1>14
<1>19. MostRecent(shown)'
  BY <1>16, <1>17, <1>18 DEF MostRecent, has
<1> QED
  BY <1>19 DEF shown, made

-----------------------------------------------------------------------------
(* Types. *)

(* The types of the variables that TypeOK leaves out, and a run on its way  *)
(* to the list has a project to add.                                        *)
TypeInv ==
    /\ TypeOK
    /\ DOMAIN answer = Handlers
    /\ projects \in Seq(Projects) /\ uses \in Seq(Projects)
    /\ state \in [Runs \cup Listings -> Seq(Projects)]
    /\ \A r \in Runs : pc[r] \in {"lock", "read", "write", "rename"} => project[r] \in Projects

(* A truncated list is a list, no longer than the limit. *)
LEMMA TruncatedIsList ==
  ASSUME NEW list \in Seq(Projects)
  PROVE  Truncated(list) \in Seq(Projects) /\ Len(Truncated(list)) <= Limit
<1>1. Limit \in Nat /\ Limit >= 1 /\ Len(list) \in Nat
  BY DirectoryAssumption
<1> QED
  BY <1>1 DEF Truncated

(* Every step keeps the types. *)
LEMMA TypeStep == TypeInv /\ [Next]_vars => TypeInv'
<1> SUFFICES ASSUME TypeInv, [Next]_vars PROVE TypeInv'
  OBVIOUS
<1> USE DirectoryAssumption DEF TypeInv, TypeOK, Handlers, recordVars, cacheVars
<1>1. CASE UNCHANGED vars
  BY <1>1 DEF vars
<1>2. ASSUME NEW h \in Runs \cup Lookups,
             EnsureRecordSchema(h) \/ InspectColumns(h) \/ AddKindColumn(h)
      PROVE  TypeInv'
  <2>1. CASE EnsureRecordSchema(h)
    BY <2>1 DEF EnsureRecordSchema, Go
  <2>2. CASE InspectColumns(h)
    BY <2>2 DEF InspectColumns, Go
  <2>3. CASE AddKindColumn(h)
    BY <2>3 DEF AddKindColumn, Go, GoWith
  <2> QED
    BY <1>2, <2>1, <2>2, <2>3
<1>3. ASSUME NEW r \in Runs, OpenToSave(r) \/ InsertRecord(r) PROVE TypeInv'
  <2>1. CASE OpenToSave(r)
    BY <2>1 DEF OpenToSave, Go
  <2>2. CASE InsertRecord(r)
    BY <2>2 DEF InsertRecord, Go, GoWith
  <2> QED
    BY <1>3, <2>1, <2>2
<1>a. ASSUME NEW l \in Lookups, OpenToLoad(l) \/ SelectRecord(l) PROVE TypeInv'
  <2>1. CASE OpenToLoad(l)
    BY <2>1 DEF OpenToLoad, Go, GoWith
  <2>2. CASE SelectRecord(l)
    BY <2>2 DEF SelectRecord, Go, GoWith
  <2> QED
    BY <1>a, <2>1, <2>2
<1>4. ASSUME NEW r \in Runs, RememberProjectPath(r) PROVE TypeInv'
  <2>1. ASSUME NEW p \in Projects, Go(r, "saved", "lock"),
               project' = [project EXCEPT ![r] = p]
        PROVE  TypeInv'
    BY <1>4, <2>1 DEF RememberProjectPath, Go
  <2>2. ASSUME Go(r, "saved", "done"), UNCHANGED project PROVE TypeInv'
    BY <1>4, <2>2 DEF RememberProjectPath, Go
  <2> QED
    BY <1>4, <2>1, <2>2 DEF RememberProjectPath
<1>5. ASSUME NEW h \in Runs \cup Listings, Lock(h) PROVE TypeInv'
  BY <1>5 DEF Lock, Go
<1>6. ASSUME NEW r \in Runs, ReadForAdd(r) PROVE TypeInv'
  BY <1>6, TruncatedIsList DEF ReadForAdd, Go
<1>7. ASSUME NEW r \in Runs, WriteTemp(r) PROVE TypeInv'
  BY <1>7 DEF WriteTemp, Go, Unlock
<1>8. ASSUME NEW r \in Runs, Rename(r) PROVE TypeInv'
  <2>1. project[r] \in Projects /\ state[r] \in Seq(Projects)
    BY <1>8 DEF Rename, Go
  <2>2. Listing(project[r], Added(project[r], state[r]))
    BY <2>1, AddLists
  <2>3. projects' \in Seq(Projects) /\ Len(projects') <= (IF Limit = 1 THEN 2 ELSE Limit)
    BY <1>8, <2>2 DEF Rename, Listing, Cap
  <2>4. uses' \in Seq(Projects)
    <3>1. uses' = Append(uses, project[r]) \/ uses' = uses
      BY <1>8 DEF Rename
    <3>2. uses \in Seq(Projects)
      OBVIOUS
    <3>3. Append(uses, project[r]) \in Seq(Projects)
      BY <2>1, <3>2
    <3> QED
      BY <3>1, <3>2, <3>3
  <2> QED
    BY <1>8, <2>3, <2>4 DEF Rename, Go, Unlock
<1>9. ASSUME NEW g \in Listings, ReadForList(g) PROVE TypeInv'
  BY <1>9 DEF ReadForList, Go, GoWith, Unlock
<1>10. CASE Kill
  BY <1>10 DEF Kill
<1> QED
  BY <1>1, <1>2, <1>3, <1>a, <1>4, <1>5, <1>6, <1>7, <1>8, <1>9, <1>10 DEF Next

(* Before the server starts everything has its type. *)
LEMMA TypeInit == Init => TypeInv
  BY DirectoryAssumption DEF Init, TypeInv, TypeOK, Handlers

(* Every variable of the work directory has its type and projects.json does *)
(* not outgrow its limit, however many handlers add to it.                  *)
THEOREM DirectoryTypeCorrect == Spec => []TypeOK
<1>1. TypeInv => TypeOK
  BY DEF TypeInv
<1> QED
  BY <1>1, TypeInit, TypeStep, PTL DEF Spec

-----------------------------------------------------------------------------
(* The record database. *)

(* Where a handler is tells what the table is; a record stays, an answer of *)
(* "kept" has one, and neither a run that found the present table nor a     *)
(* lookup of a kept record ever comes to add a column.                      *)
RecordInv ==
    /\ \A h \in Runs \cup Lookups :
          /\ pc[h] = "create" => table # "nofile"
          /\ pc[h] \in {"inspect", "alter"} => table \in {"legacy", "current"}
          /\ pc[h] \in {"insert", "select"} => table = "current"
    /\ rows # {} => table = "current"
    /\ \A r \in Runs : answer[r] = "kept" => r \in rows
    /\ \A r \in modern : table # "legacy" /\ pc[r] \notin {"new", "alter"}
    /\ ModernRunsKept
    /\ \A l \in known : Wanted[l] \in rows /\ pc[l] \notin {"new", "alter"}
    /\ KnownIsFound

(* Every step keeps that. *)
LEMMA RecordStep == TypeInv /\ RecordInv /\ [Next]_vars => RecordInv'
<1> SUFFICES ASSUME TypeInv, RecordInv, [Next]_vars PROVE RecordInv'
  OBVIOUS
<1> USE DirectoryAssumption
    DEF RecordInv, ModernRunsKept, KnownIsFound, Saved, Handlers, recordVars, cacheVars
<1>0. /\ pc \in [Handlers -> {"new", "create", "inspect", "alter", "insert", "select", "saved",
                              "lock", "read", "write", "rename", "done", "dropped"}]
      /\ DOMAIN answer = Handlers /\ known \subseteq Lookups /\ modern \subseteq Runs
      /\ table \in {"nofile", "notable", "legacy", "current"} /\ rows \subseteq Runs
  BY DEF TypeInv, TypeOK
<1>1. CASE UNCHANGED vars
  BY <1>1 DEF vars
<1>2. ASSUME NEW r \in Runs, OpenToSave(r) PROVE RecordInv'
  BY <1>0, <1>2 DEF OpenToSave, Go
<1>3. ASSUME NEW l \in Lookups, OpenToLoad(l) PROVE RecordInv'
  BY <1>0, <1>3 DEF OpenToLoad, Go, GoWith
<1>4. ASSUME NEW h \in Runs \cup Lookups, EnsureRecordSchema(h) PROVE RecordInv'
  BY <1>0, <1>4 DEF EnsureRecordSchema, Go
<1>5. ASSUME NEW h \in Runs \cup Lookups, InspectColumns(h) PROVE RecordInv'
  BY <1>0, <1>5 DEF InspectColumns, Go
<1>6. ASSUME NEW h \in Runs \cup Lookups, AddKindColumn(h) PROVE RecordInv'
  BY <1>0, <1>6 DEF AddKindColumn, Go, GoWith
<1>7. ASSUME NEW r \in Runs, InsertRecord(r) PROVE RecordInv'
  BY <1>0, <1>7 DEF InsertRecord, Go, GoWith
<1>8. ASSUME NEW l \in Lookups, SelectRecord(l) PROVE RecordInv'
  BY <1>0, <1>8 DEF SelectRecord, Go, GoWith
<1>9. ASSUME NEW r \in Runs, RememberProjectPath(r) \/ ReadForAdd(r) \/ WriteTemp(r) \/ Rename(r)
      PROVE  RecordInv'
  BY <1>0, <1>9 DEF RememberProjectPath, ReadForAdd, WriteTemp, Rename, Go
<1>10. ASSUME NEW h \in Runs \cup Listings, Lock(h) PROVE RecordInv'
  BY <1>0, <1>10 DEF Lock, Go
<1>11. ASSUME NEW g \in Listings, ReadForList(g) PROVE RecordInv'
  BY <1>0, <1>11 DEF ReadForList, Go, GoWith
<1>12. CASE Kill
  BY <1>0, <1>12 DEF Kill
<1> QED
  BY <1>1, <1>2, <1>3, <1>4, <1>5, <1>6, <1>7, <1>8, <1>9, <1>10, <1>11, <1>12 DEF Next

(* Before the server starts no handler has begun. *)
LEMMA RecordInit == Init => RecordInv
  BY DirectoryAssumption
     DEF Init, RecordInv, ModernRunsKept, KnownIsFound, Saved, Handlers

(* Those facts hold always. *)
LEMMA RecordAlways == Spec => []RecordInv
  BY TypeInit, TypeStep, RecordInit, RecordStep, PTL DEF Spec

(* A run that did not find a table of an earlier version has its record in  *)
(* the database once it is answered, whatever other handlers did to the     *)
(* table meanwhile and whether or not the server was killed since.          *)
THEOREM ModernRunsAlwaysKept == Spec => []ModernRunsKept
<1>1. RecordInv => ModernRunsKept
  BY DEF RecordInv
<1> QED
  BY <1>1, RecordAlways, PTL

(* Whoever has been told an id finds its record, on every later request:    *)
(* also when other runs open the database at the same time, and after the   *)
(* server was killed.                                                       *)
THEOREM KnownAlwaysFound == Spec => []KnownIsFound
<1>1. RecordInv => KnownIsFound
  BY DEF RecordInv
<1> QED
  BY <1>1, RecordAlways, PTL

-----------------------------------------------------------------------------
(* The list of recent projects. *)

(* The mutex is held by whoever is at the list; what an adding run has read *)
(* is still what the file holds; and the list is what GET /projects shows.  *)
ListInv ==
    /\ \A h \in Runs \cup Listings : pc[h] \in {"read", "write", "rename"} => mu = h
    /\ \A r \in Runs : pc[r] \in {"write", "rename"} => state[r] = Truncated(projects)
    /\ ListIsRecent
    /\ TempsRemoved

(* Without another use the list stays the most recent one. *)
LEMMA RecentUntouched ==
  ASSUME uses \in Seq(Projects), ListIsRecent, UNCHANGED <<uses, projects>>
  PROVE  ListIsRecent'
<1>1. Used' = Used /\ Truncated(projects)' = Truncated(projects)
  BY DEF Used, Truncated
<1>2. ASSUME NEW q \in Used PROVE LastUse(q)' = LastUse(q)
  <2> DEFINE n == Len(uses)
             before == LastUse(q)
             after == LastUse(q)'
  <2>1. /\ before \in 1 .. n /\ uses[before] = q
        /\ \A j \in 1 .. n : uses[j] = q => j <= before
    BY LastUseIs
  <2>2. /\ after \in 1 .. n /\ uses[after] = q
        /\ \A j \in 1 .. n : uses[j] = q => j <= after
    BY <1>1, LastUseIsNext
  <2>3. n \in Nat
    OBVIOUS
  <2> HIDE DEF n, before, after
  <2>4. before = after
    BY <2>1, <2>2, <2>3
  <2> QED
    BY <2>4 DEF before, after
<1> DEFINE list == Truncated(projects)
           listed == {list[i] : i \in DOMAIN list}
<1>3. listed \in SUBSET Used
  BY DEF ListIsRecent, MostRecent
<1> QED
  BY <1>1, <1>2, <1>3 DEF ListIsRecent, MostRecent

(* Steps outside the cache keep that. *)
LEMMA ListUntouched ==
  ASSUME TypeInv, ListInv, UNCHANGED <<mu, state, projects, temps, uses>>,
         NEW h \in Handlers, NEW to \in {"create", "inspect", "alter", "insert", "select",
                                         "saved", "lock", "done"},
         pc[h] \notin {"rename", "dropped"}, pc' = [pc EXCEPT ![h] = to]
  PROVE  ListInv'
<1>1. pc \in [Handlers -> {"new", "create", "inspect", "alter", "insert", "select", "saved",
                           "lock", "read", "write", "rename", "done", "dropped"}]
      /\ temps \subseteq Runs
  BY DEF TypeInv, TypeOK
<1>2. ListIsRecent'
  BY RecentUntouched DEF ListInv, TypeInv
<1>3. TempsRemoved'
  BY <1>1 DEF ListInv, TempsRemoved, Handlers
<1> QED
  BY <1>1, <1>2, <1>3 DEF ListInv, Handlers

(* Every step keeps that. *)
LEMMA ListStep == TypeInv /\ ListInv /\ [Next]_vars => ListInv'
<1> SUFFICES ASSUME TypeInv, ListInv, [Next]_vars PROVE ListInv'
  OBVIOUS
<1> USE DirectoryAssumption DEF Handlers, recordVars, cacheVars
<1>0. /\ pc \in [Handlers -> {"new", "create", "inspect", "alter", "insert", "select", "saved",
                              "lock", "read", "write", "rename", "done", "dropped"}]
      /\ temps \subseteq Runs /\ mu \in Handlers \cup {None}
      /\ state \in [Runs \cup Listings -> Seq(Projects)] /\ projects \in Seq(Projects)
  BY DEF TypeInv, TypeOK
<1>a. ASSUME UNCHANGED <<uses, projects>> PROVE ListIsRecent'
  BY <1>a, RecentUntouched DEF ListInv, TypeInv
<1>1. CASE UNCHANGED vars
  BY <1>1, <1>a DEF vars, ListInv, TempsRemoved
<1>2. ASSUME NEW h \in Runs \cup Lookups,
             EnsureRecordSchema(h) \/ InspectColumns(h) \/ AddKindColumn(h)
      PROVE  ListInv'
  BY <1>2, ListUntouched DEF EnsureRecordSchema, InspectColumns, AddKindColumn, Go, GoWith
<1>3. ASSUME NEW r \in Runs, OpenToSave(r) \/ InsertRecord(r) \/ RememberProjectPath(r)
      PROVE  ListInv'
  BY <1>3, ListUntouched DEF OpenToSave, InsertRecord, RememberProjectPath, Go, GoWith
<1>4. ASSUME NEW l \in Lookups, OpenToLoad(l) \/ SelectRecord(l) PROVE ListInv'
  BY <1>4, ListUntouched DEF OpenToLoad, SelectRecord, Go, GoWith
<1>5. ASSUME NEW h \in Runs \cup Listings, Lock(h) PROVE ListInv'
  BY <1>0, <1>5, <1>a DEF Lock, Go, ListInv, TempsRemoved
<1>6. ASSUME NEW r \in Runs, ReadForAdd(r) PROVE ListInv'
  BY <1>0, <1>6, <1>a DEF ReadForAdd, Go, ListInv, TempsRemoved
<1>7. ASSUME NEW r \in Runs, WriteTemp(r) PROVE ListInv'
  BY <1>0, <1>7, <1>a DEF WriteTemp, Go, Unlock, ListInv, TempsRemoved
<1>8. ASSUME NEW r \in Runs, Rename(r) PROVE ListInv'
  <2>1. /\ pc[r] = "rename" /\ pc' = [pc EXCEPT ![r] = "done"] /\ mu = r /\ mu' = None
        /\ temps' = temps \ {r} /\ state' = state
    BY <1>0, <1>8 DEF Rename, Go, Unlock, ListInv
  <2>2. \A h \in Runs \cup Listings : h # r => pc'[h] \notin {"read", "write", "rename"}
    BY <1>0, <2>1 DEF ListInv
  <2>3. TempsRemoved'
    BY <1>0, <2>1 DEF ListInv, TempsRemoved
  <2>4. ListIsRecent'
    <3>1. CASE UNCHANGED <<projects, uses>>
      BY <1>a, <3>1
    <3>2. CASE projects' = Added(project[r], state[r]) /\ uses' = Append(uses, project[r])
      <4> DEFINE p == project[r]
                 list == state[r]
      <4>1. /\ p \in Projects /\ list = Truncated(projects) /\ uses \in Seq(Projects)
            /\ list \in Seq(Projects)
        BY <1>0, <2>1 DEF TypeInv, ListInv
      <4>2. Len(list) <= Limit /\ MostRecent(list)
        BY <1>0, <4>1, TruncatedIsList DEF ListInv, ListIsRecent
      <4> HIDE DEF p, list
      <4>3. ASSUME NEW q, NEW l, q = p, l = list PROVE MostRecent(Truncated(Added(q, l)))'
        BY <3>2, <4>1, <4>2, <4>3, AddKeepsRecent DEF p, list
      <4>4. PICK q, l : q = p /\ l = list /\ projects' = Added(q, l)
        BY <3>2 DEF p, list
      <4> QED
        BY <4>3, <4>4 DEF ListIsRecent, MostRecent
    <3> QED
      BY <1>8, <3>1, <3>2 DEF Rename
  <2> QED
    BY <1>0, <2>1, <2>2, <2>3, <2>4 DEF ListInv
<1>9. ASSUME NEW g \in Listings, ReadForList(g) PROVE ListInv'
  BY <1>0, <1>9, <1>a DEF ReadForList, Go, GoWith, Unlock, ListInv, TempsRemoved
<1>10. CASE Kill
  BY <1>0, <1>10, <1>a DEF Kill, ListInv, TempsRemoved
<1> QED
  BY <1>1, <1>2, <1>3, <1>4, <1>5, <1>6, <1>7, <1>8, <1>9, <1>10 DEF Next

(* The list is empty before anything was used. *)
LEMMA ListInit == Init => ListInv
<1> SUFFICES ASSUME Init PROVE ListInv
  OBVIOUS
<1>1. projects = <<>> /\ uses = <<>> /\ temps = {} /\ pc = [h \in Handlers |-> "new"]
  BY DEF Init
<1>2. Truncated(projects) = <<>>
  BY <1>1, DirectoryAssumption DEF Truncated
<1>3. MostRecent(<<>>)
  BY <1>1 DEF MostRecent, Used
<1> QED
  BY <1>1, <1>2, <1>3 DEF ListInv, ListIsRecent, TempsRemoved, Handlers

(* Those facts hold always. *)
LEMMA ListAlways == Spec => []ListInv
  BY TypeInit, TypeStep, ListInit, ListStep, PTL DEF Spec

(* GET /projects shows the most recently used projects, each once and the   *)
(* latest first, and leaves one out only for later ones, although any       *)
(* number of handlers add to the list at the same time, may be refused by   *)
(* the disk and are killed in the middle of it.                             *)
THEOREM ListAlwaysRecent == Spec => []ListIsRecent
<1>1. ListInv => ListIsRecent
  BY DEF ListInv
<1> QED
  BY <1>1, ListAlways, PTL

(* Only a kill leaves a temporary file of the list behind. *)
THEOREM TempsAlwaysRemoved == Spec => []TempsRemoved
<1>1. ListInv => TempsRemoved
  BY DEF ListInv
<1> QED
  BY <1>1, ListAlways, PTL
=============================================================================
