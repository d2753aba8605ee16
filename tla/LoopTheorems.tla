---------------------------- MODULE LoopTheorems ----------------------------
(***************************************************************************)
(* Induction over the steps of a loop, in the form the proofs about loops  *)
(* need it: over sets of numbers, and for the folds of the community       *)
(* modules, which recur over the subsets of the indices.                   *)
(***************************************************************************)
EXTENDS Lists, WellFoundedInduction, TLAPS

Below == {p \in Nat \X Nat : p[1] < p[2]}

LEMMA BelowWellFounded == IsWellFoundedOn(Below, Nat)
<1>1. OpToRel(<, Nat) = Below
  BY Zenon DEF OpToRel, Below
<1>2. QED
  BY <1>1, NatLessThanWellFounded, Zenon

(* A set of natural numbers with a member has a least one.                 *)
LEMMA LeastMember ==
  ASSUME NEW S \in SUBSET Nat, S # {}
  PROVE  \E m \in S : \A k \in S : m <= k
<1>1. PICK m \in S : \A k \in S : <<k, m>> \notin Below
  BY WFMin, BelowWellFounded
<1>2. \A k, n \in Nat : k < n => <<k, n>> \in Below
  BY DEF Below
<1>3. \A k \in S : ~(k < m)
  BY <1>1, <1>2
<1>4. QED
  BY <1>3

(* Min finds it.                                                           *)
LEMMA MinMember ==
  ASSUME NEW S \in SUBSET Nat, S # {}
  PROVE  Min(S) \in S /\ \A k \in S : Min(S) <= k
BY LeastMember DEF Min

(* A bounded one has a greatest, and Max finds it.                         *)
LEMMA MaxMember ==
  ASSUME NEW n \in Nat, NEW S \in SUBSET (0 .. n), S # {}
  PROVE  Max(S) \in S /\ \A k \in S : k <= Max(S)
<1> DEFINE Mirror == {n - k : k \in S}
<1>1. Mirror \in SUBSET Nat /\ Mirror # {}
  <2>1. ASSUME NEW k \in S PROVE n - k \in Nat
    <3>1. k \in 0 .. n
      OBVIOUS
    <3>2. QED
      BY <3>1
  <2>2. QED
    BY <2>1
<1>2. PICK d \in Mirror : \A e \in Mirror : d <= e
  BY <1>1, LeastMember
<1>3. PICK m \in S : d = n - m
  BY <1>2
<1>4. \A k \in S : k <= m
  <2>1. ASSUME NEW k \in S PROVE k <= m
    <3>1. n - k \in Mirror
      OBVIOUS
    <3>2. n - m <= n - k
      BY <1>2, <1>3, <3>1
    <3>3. QED
      BY <3>2
  <2>2. QED
    BY <2>1
<1>5. \E x \in S : \A y \in S : x >= y
  BY <1>4
<1>6. QED
  BY <1>5 DEF Max

(* What holds before a loop and is kept by each of its n steps holds after *)
(* every step.                                                             *)
LEMMA LoopInduction ==
  ASSUME NEW n \in Nat, NEW P, 0 \in P, \A i \in 1 .. n : i - 1 \in P => i \in P
  PROVE  \A i \in 0 .. n : i \in P
<1> DEFINE Bad == {i \in 0 .. n : i \notin P}
<1> SUFFICES ASSUME Bad # {} PROVE FALSE
  OBVIOUS
<1>0. Bad \in SUBSET Nat
  OBVIOUS
<1>1. PICK m \in Bad : \A k \in Bad : m <= k
  <2> HIDE DEF Bad
  <2>1. QED
    BY <1>0, LeastMember
<1>2. m \in 1 .. n /\ m - 1 \in 0 .. n
  OBVIOUS
<1>3. m - 1 \notin Bad
  BY <1>1, <1>2
<1>4. QED
  BY <1>2, <1>3

(* The last index of the first i.                                          *)
LEMMA LastOfFirst ==
  ASSUME NEW n \in Nat, NEW i \in 1 .. n
  PROVE  /\ Max(1 .. i) = i
         /\ (1 .. i) \ {i} = 1 .. (i - 1)
         /\ 1 .. i # {}
<1>1. i \in Nat /\ 1 .. i \in SUBSET (0 .. i) /\ i \in 1 .. i
  OBVIOUS
<1>2. Max(1 .. i) \in 1 .. i /\ \A k \in 1 .. i : k <= Max(1 .. i)
  BY <1>1, MaxMember
<1>3. QED
  BY <1>1, <1>2

(* A loop over the indices 1 .. n of a list, on values in S: step[<<i, x>>] *)
(* is what its body makes of x for index i.                                *)
IsBody(n, S, base, step) == n \in Nat /\ base \in S /\ step \in [(1 .. n) \X S -> S]

(* The recursion of MapThenFoldSet when it takes the greatest index first, *)
(* as FoldLeft does.                                                       *)
IsFold(iter, n, S, base, step) ==
  /\ iter[{}] = base
  /\ \A s \in SUBSET (1 .. n) :
        s # {} /\ iter[s \ {Max(s)}] \in S => iter[s] = step[<<Max(s), iter[s \ {Max(s)}]>>]

(* What the loop has made of base after each step.                         *)
IsLoop(after, n, S, base, step) ==
  /\ after \in [0 .. n -> S]
  /\ after[0] = base
  /\ \A i \in 1 .. n : after[i] = step[<<i, after[i - 1]>>]

(* The recursion defines a function.                                       *)
LEMMA FoldExists ==
  ASSUME NEW n, NEW S, NEW base, NEW step, IsBody(n, S, base, step)
  PROVE  \E iter \in [SUBSET (1 .. n) -> S] : IsFold(iter, n, S, base, step)
<1>0. n \in Nat /\ base \in S /\ step \in [(1 .. n) \X S -> S]
  BY DEF IsBody
<1> USE <1>0
<1> DEFINE Folds(iter, k) ==
      /\ iter \in [SUBSET (1 .. k) -> S]
      /\ \A s \in SUBSET (1 .. k) :
            iter[s] = IF s = {} THEN base ELSE step[<<Max(s), iter[s \ {Max(s)}]>>]
    P == {k \in 0 .. n : \E iter : Folds(iter, k)}
<1>1. 0 \in P
  <2>1. SUBSET (1 .. 0) = {{}}
    OBVIOUS
  <2>2. \E iter : Folds(iter, 0)
    <3>1. Folds([s \in {{}} |-> base], 0)
      BY <2>1
    <3> HIDE DEF Folds
    <3>2. QED
      BY <3>1
  <2> HIDE DEF Folds
  <2>3. QED
    BY <2>2
<1>2. ASSUME NEW k \in 1 .. n, k - 1 \in P PROVE k \in P
  <2>1. PICK iter : Folds(iter, k - 1)
    BY <1>2
  <2> DEFINE next == [s \in SUBSET (1 .. k) |->
                        IF k \in s THEN step[<<k, iter[s \ {k}]>>] ELSE iter[s]]
  <2>2. ASSUME NEW s \in SUBSET (1 .. k), k \in s
        PROVE  Max(s) = k /\ s \ {k} \in SUBSET (1 .. (k - 1))
    <3>1. k \in Nat /\ s \in SUBSET (0 .. k) /\ s # {}
      BY <2>2
    <3>2. Max(s) \in s /\ \A j \in s : j <= Max(s)
      BY <3>1, MaxMember
    <3>3. Max(s) = k
      <4>1. Max(s) \in 1 .. k /\ k <= Max(s)
        BY <2>2, <3>2
      <4>2. QED
        BY <4>1
    <3>4. s \ {k} \in SUBSET (1 .. (k - 1))
      <4>1. \A j \in s \ {k} : j \in 1 .. (k - 1)
        OBVIOUS
      <4>2. QED
        BY <4>1
    <3>5. QED
      BY <3>3, <3>4
  <2>3. ASSUME NEW s \in SUBSET (1 .. k), k \notin s
        PROVE  /\ s \in SUBSET (1 .. (k - 1))
               /\ s # {} => Max(s) \in s
    <3>1. k \in Nat /\ s \in SUBSET (0 .. k)
      OBVIOUS
    <3>2. s # {} => Max(s) \in s
      BY <3>1, MaxMember
    <3>3. \A j \in s : j \in 1 .. (k - 1)
      BY <2>3
    <3>4. QED
      BY <3>2, <3>3
  <2>4. next \in [SUBSET (1 .. k) -> S]
    <3>1. ASSUME NEW s \in SUBSET (1 .. k) PROVE next[s] \in S
      <4>1. CASE k \in s
        BY <2>1, <2>2, <4>1
      <4>2. CASE k \notin s
        BY <2>1, <2>3, <4>2
      <4>3. QED
        BY <4>1, <4>2
    <3>2. QED
      BY <3>1
  <2>5. ASSUME NEW s \in SUBSET (1 .. k)
        PROVE  next[s] = IF s = {} THEN base ELSE step[<<Max(s), next[s \ {Max(s)}]>>]
    <3>1. CASE k \in s
      <4>1. next[s] = step[<<k, iter[s \ {k}]>>]
        BY <3>1
      <4>2. next[s \ {k}] = iter[s \ {k}]
        BY <3>1, <2>2
      <4>3. QED
        BY <3>1, <4>1, <4>2, <2>2
    <3>2. CASE k \notin s
      <4>1. next[s] = iter[s]
        BY <3>2
      <4>2. s # {} => next[s \ {Max(s)}] = iter[s \ {Max(s)}]
        BY <3>2, <2>3
      <4>3. QED
        BY <2>1, <2>3, <3>2, <4>1, <4>2
    <3>3. QED
      BY <3>1, <3>2
  <2>6. Folds(next, k)
    BY <2>4, <2>5
  <2>7. QED
    <3> HIDE DEF Folds
    <3>1. QED
      BY <2>6
<1>3. n \in P
  <2>1. \A i \in 0 .. n : i \in P
    <3> HIDE DEF P
    <3>1. QED
      BY <1>1, <1>2, LoopInduction
  <2>2. QED
    <3> HIDE DEF P
    <3>1. QED
      BY <2>1
<1>4. PICK iter : Folds(iter, n)
  BY <1>3
<1>5. QED
  BY <1>4 DEF IsFold

(* That function goes over the indices one after the other.                *)
LEMMA FoldIsLoop ==
  ASSUME NEW n, NEW S, NEW base, NEW step, NEW iter,
         IsBody(n, S, base, step), IsFold(iter, n, S, base, step)
  PROVE  \E after : IsLoop(after, n, S, base, step) /\ after[n] = iter[1 .. n]
<1>0. /\ n \in Nat /\ base \in S /\ step \in [(1 .. n) \X S -> S]
      /\ iter[{}] = base
      /\ \A s \in SUBSET (1 .. n) :
            s # {} /\ iter[s \ {Max(s)}] \in S => iter[s] = step[<<Max(s), iter[s \ {Max(s)}]>>]
  BY DEF IsBody, IsFold
<1> USE <1>0
<1> DEFINE after == [i \in 0 .. n |-> iter[1 .. i]]
           P == {i \in 0 .. n : after[i] \in S}
<1>1. after[0] = base
  BY SMT
<1>2. ASSUME NEW i \in 1 .. n, after[i - 1] \in S PROVE after[i] = step[<<i, after[i - 1]>>]
  <2>1. /\ Max(1 .. i) = i /\ (1 .. i) \ {i} = 1 .. (i - 1) /\ 1 .. i # {}
    BY LastOfFirst
  <2>2. 1 .. i \in SUBSET (1 .. n) /\ i \in 0 .. n /\ i - 1 \in 0 .. n
    OBVIOUS
  <2>3. after[i] = iter[1 .. i] /\ after[i - 1] = iter[1 .. (i - 1)]
    BY <2>2
  <2> HIDE DEF after
  <2>4. QED
    BY <1>2, <2>1, <2>2, <2>3
<1>3. \A i \in 0 .. n : after[i] \in S
  <2>1. 0 \in P
    BY <1>1
  <2>2. ASSUME NEW i \in 1 .. n, i - 1 \in P PROVE i \in P
    <3>1. i \in 0 .. n /\ after[i - 1] \in S
      BY <2>2
    <3> HIDE DEF after
    <3>2. after[i] = step[<<i, after[i - 1]>>]
      BY <1>2, <3>1
    <3>3. QED
      BY <3>1, <3>2
  <2> HIDE DEF P
  <2>3. \A i \in 0 .. n : i \in P
    BY <2>1, <2>2, LoopInduction
  <2> USE DEF P
  <2> HIDE DEF after
  <2>4. QED
    BY <2>3
<1>4. \A i \in 1 .. n : after[i] = step[<<i, after[i - 1]>>]
  <2>1. ASSUME NEW i \in 1 .. n PROVE after[i] = step[<<i, after[i - 1]>>]
    <3>1. i - 1 \in 0 .. n
      OBVIOUS
    <3> HIDE DEF after
    <3>2. QED
      BY <1>2, <1>3, <3>1
  <2> HIDE DEF after
  <2>2. QED
    BY <2>1
<1>5. after \in [0 .. n -> S] /\ after[n] = iter[1 .. n]
  BY <1>3
<1> HIDE DEF after
<1>6. QED
  BY <1>1, <1>4, <1>5 DEF IsLoop

(* What the loop of Kept has kept after each item.                         *)
Keeps(after, list, T, S) ==
  /\ after \in [0 .. Len(list) -> Seq(T)]
  /\ after[0] = <<>>
  /\ \A i \in 1 .. Len(list) :
        after[i] = IF list[i] \in S THEN Append(after[i - 1], list[i]) ELSE after[i - 1]

(* Kept is that loop.                                                      *)
LEMMA KeptLoop ==
  ASSUME NEW T, NEW list \in Seq(T), NEW S
  PROVE  \E after : Keeps(after, list, T, S) /\ Kept(list, S) = after[Len(list)]
<1> DEFINE n == Len(list)
           Step(i, kept) == IF list[i] \in S THEN Append(kept, list[i]) ELSE kept
           step == [p \in (1 .. n) \X Seq(T) |-> Step(p[1], p[2])]
           Folds(iter) == iter = [s \in SUBSET (1 .. n) |->
                                    IF s = {} THEN <<>> ELSE Step(Max(s), iter[s \ {Max(s)}])]
           iter == CHOOSE it : Folds(it)
<1>0. n \in Nat /\ DOMAIN list = 1 .. n
  OBVIOUS
<1>1. \A i \in 1 .. n, kept \in Seq(T) : Step(i, kept) \in Seq(T) /\ step[<<i, kept>>] = Step(i, kept)
  OBVIOUS
<1>2. IsBody(n, Seq(T), <<>>, step)
  BY <1>1 DEF IsBody
<1>3. Kept(list, S) = iter[1 .. n]
  BY <1>0 DEF Kept, FoldLeft, MapThenFoldSet
<1>4. Folds(iter)
  <2>1. PICK it \in [SUBSET (1 .. n) -> Seq(T)] : IsFold(it, n, Seq(T), <<>>, step)
    BY <1>2, FoldExists
  <2>2. ASSUME NEW s \in SUBSET (1 .. n), s # {}
        PROVE  Max(s) \in 1 .. n /\ it[s \ {Max(s)}] \in Seq(T)
    <3>1. s \in SUBSET (0 .. n)
      BY <1>0
    <3>2. Max(s) \in s
      BY <1>0, <2>2, <3>1, MaxMember
    <3>3. QED
      BY <3>2
  <2>3. Folds(it)
    <3> HIDE DEF n, step, Step
    <3>1. \A s \in SUBSET (1 .. n) : s # {} => it[s] = Step(Max(s), it[s \ {Max(s)}])
      BY <1>1, <2>1, <2>2 DEF IsFold
    <3>2. it[{}] = <<>>
      BY <2>1 DEF IsFold
    <3>3. QED
      BY <2>1, <3>1, <3>2
  <2> HIDE DEF Folds
  <2>4. QED
    BY <2>3
<1> HIDE DEF n, step, Step, iter
<1>5. IsFold(iter, n, Seq(T), <<>>, step)
  <2>1. ASSUME NEW s \in SUBSET (1 .. n), s # {}, iter[s \ {Max(s)}] \in Seq(T)
        PROVE  iter[s] = step[<<Max(s), iter[s \ {Max(s)}]>>]
    <3>1. s \in SUBSET (0 .. n)
      BY <1>0
    <3>2. Max(s) \in 1 .. n
      BY <1>0, <2>1, <3>1, MaxMember
    <3>3. QED
      BY <1>1, <1>4, <2>1, <3>2
  <2>2. iter[{}] = <<>>
    BY <1>4
  <2>3. QED
    BY <2>1, <2>2 DEF IsFold
<1>7. PICK after : IsLoop(after, n, Seq(T), <<>>, step) /\ after[n] = iter[1 .. n]
  BY <1>2, <1>5, FoldIsLoop
<1>8. \A i \in 1 .. n : after[i] = Step(i, after[i - 1])
  <2>1. \A i \in 1 .. n : i - 1 \in 0 .. n
    BY <1>0
  <2>2. QED
    BY <1>1, <1>7, <2>1 DEF IsLoop
<1>9. QED
  BY <1>3, <1>7, <1>8 DEF n, Step, IsLoop, Keeps

-----------------------------------------------------------------------------
(* What holds of the empty list and is kept when an item is appended holds *)
(* of every list.                                                          *)
LEMMA ListInduction ==
  ASSUME NEW T, NEW P, <<>> \in P, \A s \in Seq(T), x \in T : s \in P => Append(s, x) \in P
  PROVE  \A s \in Seq(T) : s \in P
<1> SUFFICES ASSUME NEW s \in Seq(T) PROVE s \in P
  OBVIOUS
<1> DEFINE First(i) == [j \in 1 .. i |-> s[j]]
           Q == {i \in 0 .. Len(s) : First(i) \in P}
<1>0. Len(s) \in Nat
  OBVIOUS
<1>1. 0 \in Q
  <2>1. First(0) = <<>>
    OBVIOUS
  <2>2. QED
    BY <1>0, <2>1
<1>2. ASSUME NEW i \in 1 .. Len(s), i - 1 \in Q PROVE i \in Q
  <2>1. First(i - 1) \in Seq(T) /\ Len(First(i - 1)) = i - 1 /\ s[i] \in T
    OBVIOUS
  <2>2. First(i) = Append(First(i - 1), s[i])
    OBVIOUS
  <2>3. First(i - 1) \in P
    BY <1>2
  <2> HIDE DEF First
  <2>4. First(i) \in P
    BY <2>1, <2>2, <2>3
  <2>5. QED
    BY <2>4
<1>3. \A i \in 0 .. Len(s) : i \in Q
  <2> HIDE DEF Q
  <2>1. QED
    BY <1>0, <1>1, <1>2, LoopInduction
<1>4. First(Len(s)) \in P
  <2>1. Len(s) \in Q
    <3> HIDE DEF Q
    <3>1. QED
      BY <1>0, <1>3
  <2>2. QED
    BY <2>1
<1>5. First(Len(s)) = s
  OBVIOUS
<1>6. QED
  BY <1>4, <1>5

LEMMA ToSetOfAppend ==
  ASSUME NEW T, NEW list \in Seq(T), NEW x \in T
  PROVE  ToSet(Append(list, x)) = ToSet(list) \cup {x}
<1> DEFINE n == Len(list)
<1>1. /\ n \in Nat /\ DOMAIN list = 1 .. n /\ DOMAIN Append(list, x) = 1 .. n + 1
      /\ Append(list, x)[n + 1] = x /\ \A i \in 1 .. n : Append(list, x)[i] = list[i]
  OBVIOUS
<1> HIDE DEF n
<1>2. \A i \in 1 .. n + 1 : i \in 1 .. n \/ i = n + 1
  BY <1>1
<1>3. \A i \in 1 .. n : i \in 1 .. n + 1
  BY <1>1
<1>4. n + 1 \in 1 .. n + 1
  BY <1>1
<1>5. QED
  BY <1>1, <1>2, <1>3, <1>4 DEF ToSet

(* Kept is made of items of the list.                                      *)
LEMMA KeptIsList ==
  ASSUME NEW T, NEW list \in Seq(T), NEW S
  PROVE  Kept(list, S) \in Seq(T)
<1>1. PICK after : Keeps(after, list, T, S) /\ Kept(list, S) = after[Len(list)]
  BY KeptLoop
<1>2. Len(list) \in 0 .. Len(list)
  OBVIOUS
<1>3. QED
  BY <1>1, <1>2 DEF Keeps

LEMMA KeptOfEmpty ==
  ASSUME NEW S
  PROVE  Kept(<<>>, S) = <<>>
<1>1. <<>> \in Seq({}) /\ Len(<<>>) = 0
  OBVIOUS
<1>2. PICK after : Keeps(after, <<>>, {}, S) /\ Kept(<<>>, S) = after[Len(<<>>)]
  BY <1>1, KeptLoop
<1>3. QED
  BY <1>1, <1>2 DEF Keeps

(* An item at the end is kept at the end.                                  *)
LEMMA KeptOfAppend ==
  ASSUME NEW T, NEW list \in Seq(T), NEW x \in T, NEW S
  PROVE  Kept(Append(list, x), S) =
           IF x \in S THEN Append(Kept(list, S), x) ELSE Kept(list, S)
<1> DEFINE n == Len(list)
           longer == Append(list, x)
<1>0. /\ n \in Nat /\ longer \in Seq(T) /\ Len(longer) = n + 1
      /\ longer[n + 1] = x /\ \A i \in 1 .. n : longer[i] = list[i]
  OBVIOUS
<1>1. PICK short : Keeps(short, list, T, S) /\ Kept(list, S) = short[n]
  BY KeptLoop
<1>2. PICK long : Keeps(long, longer, T, S) /\ Kept(longer, S) = long[n + 1]
  <2> HIDE DEF longer, n
  <2>1. QED
    BY <1>0, KeptLoop
<1>a. /\ short[0] = <<>>
      /\ \A i \in 1 .. n :
            short[i] = IF list[i] \in S THEN Append(short[i - 1], list[i]) ELSE short[i - 1]
  BY <1>1 DEF Keeps
<1> HIDE DEF n, longer
<1>b. /\ long[0] = <<>>
      /\ \A i \in 1 .. n + 1 :
            long[i] = IF longer[i] \in S THEN Append(long[i - 1], longer[i]) ELSE long[i - 1]
  BY <1>0, <1>2 DEF Keeps
<1> DEFINE P == {i \in 0 .. n : long[i] = short[i]}
<1>3. \A i \in 0 .. n : i \in P
  <2>1. 0 \in P
    BY <1>0, <1>a, <1>b
  <2>2. ASSUME NEW i \in 1 .. n, i - 1 \in P PROVE i \in P
    <3>1. i \in 1 .. n + 1 /\ i \in 0 .. n /\ longer[i] = list[i] /\ long[i - 1] = short[i - 1]
      BY <1>0, <2>2
    <3>2. long[i] = short[i]
      BY <1>a, <1>b, <3>1
    <3>3. QED
      BY <3>1, <3>2
  <2> HIDE DEF P
  <2>3. QED
    BY <1>0, <2>1, <2>2, LoopInduction
<1>4. long[n] = short[n]
  <2>1. n \in P
    <3> HIDE DEF P
    <3>1. QED
      BY <1>0, <1>3
  <2>2. QED
    BY <2>1
<1>5. n + 1 \in 1 .. n + 1 /\ (n + 1) - 1 = n
  BY <1>0
<1>6. long[n + 1] = IF x \in S THEN Append(long[n], x) ELSE long[n]
  BY <1>0, <1>b, <1>5
<1>7. QED
  BY <1>1, <1>2, <1>4, <1>6 DEF longer

(* The places of list that Kept takes its items from, in their order.      *)
Embeds(e, list, S) ==
  /\ e \in [1 .. Len(Kept(list, S)) -> 1 .. Len(list)]
  /\ \A j, k \in DOMAIN e : j < k => e[j] < e[k]
  /\ \A k \in DOMAIN e : Kept(list, S)[k] = list[e[k]]
  /\ \A i \in 1 .. Len(list) : list[i] \in S <=> \E k \in DOMAIN e : e[k] = i

LEMMA KeptEmbeds ==
  ASSUME NEW T, NEW list \in Seq(T), NEW S
  PROVE  \E e : Embeds(e, list, S)
<1> DEFINE P == {s \in Seq(T) : \E e : Embeds(e, s, S)}
<1>1. <<>> \in P
  <2>1. Kept(<<>>, S) = <<>> /\ <<>> \in Seq(T)
    BY KeptOfEmpty
  <2>2. Embeds([k \in 1 .. 0 |-> 0], <<>>, S)
    BY <2>1 DEF Embeds
  <2>3. QED
    BY <2>1, <2>2
<1>2. ASSUME NEW s \in Seq(T), NEW x \in T, s \in P PROVE Append(s, x) \in P
  <2>1. PICK e : Embeds(e, s, S)
    BY <1>2
  <2> DEFINE n == Len(s)
             m == Len(Kept(s, S))
             longer == Append(s, x)
  <2>2. /\ n \in Nat /\ longer \in Seq(T) /\ Len(longer) = n + 1
        /\ longer[n + 1] = x /\ \A i \in 1 .. n : longer[i] = s[i]
    OBVIOUS
  <2>3. Kept(s, S) \in Seq(T) /\ m \in Nat
    BY KeptIsList
  <2>4. Kept(longer, S) = IF x \in S THEN Append(Kept(s, S), x) ELSE Kept(s, S)
    BY KeptOfAppend
  <2>5. /\ e \in [1 .. m -> 1 .. n]
        /\ \A j, k \in 1 .. m : j < k => e[j] < e[k]
        /\ \A k \in 1 .. m : Kept(s, S)[k] = s[e[k]]
        /\ \A i \in 1 .. n : s[i] \in S <=> \E k \in 1 .. m : e[k] = i
    BY <2>1 DEF Embeds
  <2> HIDE DEF n, m, longer
  <2>6. CASE x \notin S
    <3>1. Kept(longer, S) = Kept(s, S)
      BY <2>4, <2>6
    <3>2. e \in [1 .. m -> 1 .. n + 1] /\ DOMAIN e = 1 .. m
      BY <2>2, <2>5
    <3>3. \A k \in 1 .. m : Kept(s, S)[k] = longer[e[k]]
      BY <2>2, <2>5
    <3>4. \A i \in 1 .. n + 1 : longer[i] \in S <=> \E k \in 1 .. m : e[k] = i
      <4>1. ASSUME NEW i \in 1 .. n PROVE longer[i] \in S <=> \E k \in 1 .. m : e[k] = i
        BY <2>2, <2>5
      <4>2. ~ \E k \in 1 .. m : e[k] = n + 1
        BY <2>2, <2>5, SMTT(30)
      <4>3. \A i \in 1 .. n + 1 : i \in 1 .. n \/ i = n + 1
        BY <2>2
      <4>4. QED
        BY <2>2, <2>6, <4>1, <4>2, <4>3
    <3>5. Embeds(e, longer, S)
      BY <2>2, <2>5, <3>1, <3>2, <3>3, <3>4 DEF Embeds, m
    <3>6. QED
      BY <2>2, <3>5 DEF longer
  <2>7. CASE x \in S
    <3> DEFINE f == [k \in 1 .. m + 1 |-> IF k = m + 1 THEN n + 1 ELSE e[k]]
    <3>1. /\ Kept(longer, S) = Append(Kept(s, S), x)
          /\ Len(Kept(longer, S)) = m + 1
          /\ Kept(longer, S)[m + 1] = x
          /\ \A k \in 1 .. m : Kept(longer, S)[k] = Kept(s, S)[k]
      BY <2>3, <2>4, <2>7 DEF m
    <3>2. \A k \in 1 .. m + 1 : k \in 1 .. m \/ k = m + 1
      BY <2>3
    <3>3. f \in [1 .. m + 1 -> 1 .. n + 1] /\ DOMAIN f = 1 .. m + 1
      BY <2>2, <2>3, <2>5, <3>2
    <3>4. /\ f[m + 1] = n + 1
          /\ \A k \in 1 .. m : f[k] = e[k] /\ e[k] \in 1 .. n
      <4>1. ASSUME NEW k \in 1 .. m PROVE f[k] = e[k] /\ e[k] \in 1 .. n
        <5>1. k \in 1 .. m + 1 /\ k # m + 1
          BY <2>3
        <5>2. QED
          BY <2>5, <5>1
      <4>2. m + 1 \in 1 .. m + 1
        BY <2>3
      <4>3. QED
        BY <4>1, <4>2
    <3> HIDE DEF f
    <3>5. ASSUME NEW j \in 1 .. m + 1, NEW k \in 1 .. m + 1, j < k PROVE f[j] < f[k]
      <4>1. j \in 1 .. m
        BY <2>3, <3>5
      <4>2. CASE k \in 1 .. m
        BY <2>5, <3>4, <3>5, <4>1, <4>2
      <4>3. CASE k = m + 1
        <5>1. f[j] \in 1 .. n /\ f[k] = n + 1
          BY <3>4, <4>1, <4>3
        <5>2. QED
          BY <2>2, <5>1
      <4>4. QED
        BY <3>2, <4>2, <4>3
    <3>6. ASSUME NEW k \in 1 .. m + 1 PROVE Kept(longer, S)[k] = longer[f[k]]
      <4>1. CASE k \in 1 .. m
        <5>1. /\ Kept(longer, S)[k] = s[e[k]]
              /\ f[k] = e[k] /\ longer[e[k]] = s[e[k]]
          BY <2>2, <2>5, <3>1, <3>4, <4>1
        <5>2. QED
          BY <5>1
      <4>2. CASE k = m + 1
        BY <2>2, <3>1, <3>4, <4>2
      <4>3. QED
        BY <3>2, <4>1, <4>2
    <3>7. \A i \in 1 .. n + 1 : longer[i] \in S <=> \E k \in 1 .. m + 1 : f[k] = i
      <4>1. ASSUME NEW i \in 1 .. n
            PROVE  longer[i] \in S <=> \E k \in 1 .. m + 1 : f[k] = i
        <5>1. longer[i] \in S <=> \E k \in 1 .. m : e[k] = i
          BY <2>2, <2>5
        <5>2. i # n + 1 /\ \A k \in 1 .. m : k \in 1 .. m + 1
          BY <2>2, <2>3
        <5>3. QED
          BY <3>2, <3>4, <5>1, <5>2
      <4>2. \E k \in 1 .. m + 1 : f[k] = n + 1
        BY <2>3, <3>4
      <4>3. \A i \in 1 .. n + 1 : i \in 1 .. n \/ i = n + 1
        BY <2>2
      <4>4. QED
        BY <2>2, <2>7, <4>1, <4>2, <4>3
    <3>8. Embeds(f, longer, S)
      BY <2>2, <3>1, <3>3, <3>5, <3>6, <3>7 DEF Embeds
    <3>9. QED
      BY <2>2, <3>8 DEF longer
  <2>8. QED
    BY <2>6, <2>7
<1>3. \A s \in Seq(T) : s \in P
  <2> HIDE DEF P
  <2>1. QED
    BY <1>1, <1>2, ListInduction
<1>4. list \in P
  <2> HIDE DEF P
  <2>1. QED
    BY <1>3
<1>5. QED
  BY <1>4
(* Kept has the items of the list that are in S,                           *)
LEMMA KeptItems ==
  ASSUME NEW T, NEW list \in Seq(T), NEW S
  PROVE  ToSet(Kept(list, S)) = ToSet(list) \cap S
<1>1. PICK e : Embeds(e, list, S)
  BY KeptEmbeds
<1>2. Kept(list, S) \in Seq(T)
  BY KeptIsList
<1>3. DOMAIN Kept(list, S) = 1 .. Len(Kept(list, S)) /\ DOMAIN list = 1 .. Len(list)
  BY <1>2
<1>4. ASSUME NEW k \in 1 .. Len(Kept(list, S))
      PROVE  Kept(list, S)[k] \in ToSet(list) \cap S
  <2>1. e[k] \in 1 .. Len(list) /\ Kept(list, S)[k] = list[e[k]] /\ k \in DOMAIN e
    BY <1>1 DEF Embeds
  <2>2. list[e[k]] \in S
    BY <1>1, <2>1 DEF Embeds
  <2>3. QED
    BY <1>3, <2>1, <2>2 DEF ToSet
<1>5. ASSUME NEW i \in 1 .. Len(list), list[i] \in S
      PROVE  list[i] \in ToSet(Kept(list, S))
  <2>1. PICK k \in DOMAIN e : e[k] = i
    BY <1>1, <1>5 DEF Embeds
  <2>2. k \in 1 .. Len(Kept(list, S)) /\ Kept(list, S)[k] = list[i]
    BY <1>1, <2>1 DEF Embeds
  <2>3. QED
    BY <1>3, <2>2 DEF ToSet
<1>6. QED
  BY <1>3, <1>4, <1>5 DEF ToSet

(* each as often as the list does.                                         *)
LEMMA KeptInjective ==
  ASSUME NEW T, NEW list \in Seq(T), NEW S, IsInjective(list)
  PROVE  IsInjective(Kept(list, S))
<1>1. PICK e : Embeds(e, list, S)
  BY KeptEmbeds
<1>2. Kept(list, S) \in Seq(T)
  BY KeptIsList
<1> DEFINE m == Len(Kept(list, S))
<1>3. DOMAIN Kept(list, S) = 1 .. m /\ DOMAIN list = 1 .. Len(list) /\ m \in Nat
  BY <1>2
<1>4. /\ e \in [1 .. m -> 1 .. Len(list)]
      /\ \A j, k \in 1 .. m : j < k => e[j] < e[k]
      /\ \A k \in 1 .. m : Kept(list, S)[k] = list[e[k]]
  BY <1>1 DEF Embeds
<1>5. ASSUME NEW j \in 1 .. m, NEW k \in 1 .. m, Kept(list, S)[j] = Kept(list, S)[k]
      PROVE  j = k
  <2>1. e[j] \in 1 .. Len(list) /\ e[k] \in 1 .. Len(list) /\ list[e[j]] = list[e[k]]
    BY <1>4, <1>5
  <2>2. e[j] = e[k]
    BY <1>3, <2>1 DEF IsInjective
  <2>3. QED
    BY <1>3, <1>4, <2>1, <2>2
<1> HIDE DEF m
<1>6. QED
  BY <1>3, <1>5 DEF IsInjective

(* and it is not longer.                                                   *)
LEMMA KeptLength ==
  ASSUME NEW T, NEW list \in Seq(T), NEW S
  PROVE  Len(Kept(list, S)) <= Len(list)
<1> DEFINE P == {s \in Seq(T) : Kept(s, S) \in Seq(T) /\ Len(Kept(s, S)) <= Len(s)}
<1>1. <<>> \in P
  <2>1. Kept(<<>>, S) = <<>> /\ <<>> \in Seq(T)
    BY KeptOfEmpty
  <2>2. Len(<<>>) <= Len(<<>>)
    OBVIOUS
  <2>3. Kept(<<>>, S) \in Seq(T) /\ Len(Kept(<<>>, S)) <= Len(<<>>)
    <3>1. Len(Kept(<<>>, S)) <= Len(<<>>)
      BY ONLY <2>1, <2>2
    <3>2. QED
      BY <2>1, <3>1
  <2>4. QED
    BY <2>1, <2>3
<1>2. ASSUME NEW s \in Seq(T), NEW x \in T, s \in P PROVE Append(s, x) \in P
  <2>1. /\ Kept(s, S) \in Seq(T) /\ Len(Kept(s, S)) <= Len(s)
        /\ Append(s, x) \in Seq(T) /\ Len(Append(s, x)) = Len(s) + 1
        /\ Len(Append(Kept(s, S), x)) = Len(Kept(s, S)) + 1
        /\ Append(Kept(s, S), x) \in Seq(T)
    BY <1>2
  <2>2. Kept(Append(s, x), S) = IF x \in S THEN Append(Kept(s, S), x) ELSE Kept(s, S)
    BY KeptOfAppend
  <2>3. /\ Kept(Append(s, x), S) \in Seq(T)
        /\ Len(Kept(Append(s, x), S)) <= Len(Append(s, x))
    <3>1. CASE x \in S
      BY <2>1, <2>2, <3>1
    <3>2. CASE x \notin S
      <4>1. Len(s) \in Nat /\ Len(Kept(s, S)) \in Nat
        BY <2>1
      <4>2. QED
        BY <2>1, <2>2, <3>2, <4>1
    <3>3. QED
      BY <3>1, <3>2
  <2>4. QED
    BY <2>1, <2>3
<1>3. \A s \in Seq(T) : s \in P
  <2> HIDE DEF P
  <2>1. QED
    BY <1>1, <1>2, ListInduction
<1>4. list \in P
  <2> HIDE DEF P
  <2>1. QED
    BY <1>3
<1>5. QED
  BY <1>4

(* It is determined by which items of the list are in S,                   *)
LEMMA KeptSame ==
  ASSUME NEW T, NEW list \in Seq(T), NEW S, NEW R,
         ToSet(list) \cap S = ToSet(list) \cap R
  PROVE  Kept(list, S) = Kept(list, R)
<1> DEFINE P == {s \in Seq(T) : ToSet(s) \cap S = ToSet(s) \cap R => Kept(s, S) = Kept(s, R)}
<1>1. <<>> \in P
  <2>1. Kept(<<>>, S) = <<>> /\ Kept(<<>>, R) = <<>> /\ <<>> \in Seq(T)
    BY KeptOfEmpty
  <2>2. QED
    BY <2>1
<1>2. ASSUME NEW s \in Seq(T), NEW x \in T, s \in P PROVE Append(s, x) \in P
  <2>1. SUFFICES ASSUME ToSet(Append(s, x)) \cap S = ToSet(Append(s, x)) \cap R
                 PROVE  Kept(Append(s, x), S) = Kept(Append(s, x), R)
    OBVIOUS
  <2>2. ToSet(Append(s, x)) = ToSet(s) \cup {x}
    BY ToSetOfAppend
  <2>3. Kept(s, S) = Kept(s, R)
    BY <1>2, <2>1, <2>2
  <2>4. x \in S <=> x \in R
    BY <2>1, <2>2
  <2>5. Kept(Append(s, x), S) = IF x \in S THEN Append(Kept(s, S), x) ELSE Kept(s, S)
    BY KeptOfAppend
  <2>6. Kept(Append(s, x), R) = IF x \in R THEN Append(Kept(s, R), x) ELSE Kept(s, R)
    BY KeptOfAppend
  <2>7. QED
    BY <2>3, <2>4, <2>5, <2>6
<1>3. list \in P
  <2> HIDE DEF P
  <2>1. \A s \in Seq(T) : s \in P
    BY <1>1, <1>2, ListInduction
  <2>2. QED
    BY <2>1
<1>4. QED
  BY <1>3

(* so that it is the list when all are.                                    *)
LEMMA KeptAll ==
  ASSUME NEW T, NEW list \in Seq(T), NEW S, ToSet(list) \subseteq S
  PROVE  Kept(list, S) = list
<1> DEFINE P == {s \in Seq(T) : ToSet(s) \subseteq S => Kept(s, S) = s}
<1>1. <<>> \in P
  <2>1. Kept(<<>>, S) = <<>> /\ <<>> \in Seq(T)
    BY KeptOfEmpty
  <2>2. QED
    BY <2>1
<1>2. ASSUME NEW s \in Seq(T), NEW x \in T, s \in P PROVE Append(s, x) \in P
  <2>1. SUFFICES ASSUME ToSet(Append(s, x)) \subseteq S PROVE Kept(Append(s, x), S) = Append(s, x)
    OBVIOUS
  <2>2. ToSet(Append(s, x)) = ToSet(s) \cup {x}
    BY ToSetOfAppend
  <2>3. Kept(s, S) = s /\ x \in S
    BY <1>2, <2>1, <2>2
  <2>4. Kept(Append(s, x), S) = IF x \in S THEN Append(Kept(s, S), x) ELSE Kept(s, S)
    BY KeptOfAppend
  <2>5. QED
    BY <2>3, <2>4
<1>3. list \in P
  <2> HIDE DEF P
  <2>1. \A s \in Seq(T) : s \in P
    BY <1>1, <1>2, ListInduction
  <2>2. QED
    BY <2>1
<1>4. QED
  BY <1>3

(* What is kept of what is kept,                                           *)
LEMMA KeptOfKept ==
  ASSUME NEW T, NEW list \in Seq(T), NEW S, NEW R
  PROVE  Kept(Kept(list, S), R) = Kept(list, S \cap R)
<1> DEFINE P == {s \in Seq(T) : Kept(Kept(s, S), R) = Kept(s, S \cap R)}
<1>1. <<>> \in P
  <2>1. /\ Kept(<<>>, S) = <<>> /\ Kept(<<>>, R) = <<>> /\ Kept(<<>>, S \cap R) = <<>>
        /\ <<>> \in Seq(T)
    BY KeptOfEmpty
  <2>2. QED
    BY <2>1
<1>2. ASSUME NEW s \in Seq(T), NEW x \in T, s \in P PROVE Append(s, x) \in P
  <2>1. Kept(s, S) \in Seq(T) /\ Kept(Kept(s, S), R) = Kept(s, S \cap R)
    BY <1>2, KeptIsList
  <2>2. Kept(Append(s, x), S) = IF x \in S THEN Append(Kept(s, S), x) ELSE Kept(s, S)
    BY KeptOfAppend
  <2>3. Kept(Append(s, x), S \cap R) =
          IF x \in S \cap R THEN Append(Kept(s, S \cap R), x) ELSE Kept(s, S \cap R)
    BY KeptOfAppend
  <2>4. Kept(Append(Kept(s, S), x), R) =
          IF x \in R THEN Append(Kept(Kept(s, S), R), x) ELSE Kept(Kept(s, S), R)
    BY <2>1, KeptOfAppend, ZenonT(40)
  <2>5. Kept(Kept(Append(s, x), S), R) = Kept(Append(s, x), S \cap R)
    <3>1. CASE x \in S /\ x \in R
      BY <2>1, <2>2, <2>3, <2>4, <3>1
    <3>2. CASE x \in S /\ x \notin R
      BY <2>1, <2>2, <2>3, <2>4, <3>2
    <3>3. CASE x \notin S
      BY <2>1, <2>2, <2>3, <3>3
    <3>4. QED
      BY <3>1, <3>2, <3>3
  <2>6. QED
    BY <2>5
<1>3. list \in P
  <2> HIDE DEF P
  <2>1. \A s \in Seq(T) : s \in P
    BY <1>1, <1>2, ListInduction
  <2>2. QED
    BY <2>1
<1>4. QED
  BY <1>3

LEMMA ConcatOfAppend ==
  ASSUME NEW T, NEW first \in Seq(T), NEW list \in Seq(T), NEW x \in T
  PROVE  first \o Append(list, x) = Append(first \o list, x) /\ first \o list \in Seq(T)
OBVIOUS

(* and of two lists one after the other.                                   *)
LEMMA KeptOfConcat ==
  ASSUME NEW T, NEW first \in Seq(T), NEW list \in Seq(T), NEW S
  PROVE  Kept(first \o list, S) = Kept(first, S) \o Kept(list, S)
<1> DEFINE P == {s \in Seq(T) : Kept(first \o s, S) = Kept(first, S) \o Kept(s, S)}
<1>0. Kept(first, S) \in Seq(T)
  BY KeptIsList
<1>1. <<>> \in P
  <2>1. Kept(<<>>, S) = <<>> /\ <<>> \in Seq(T)
    BY KeptOfEmpty
  <2>2. first \o <<>> = first /\ Kept(first, S) \o <<>> = Kept(first, S)
    BY <1>0
  <2>3. QED
    BY <2>1, <2>2
<1>2. ASSUME NEW s \in Seq(T), NEW x \in T, s \in P PROVE Append(s, x) \in P
  <2>1. Kept(s, S) \in Seq(T) /\ Kept(first \o s, S) = Kept(first, S) \o Kept(s, S)
    BY <1>2, KeptIsList
  <2>2. Kept(Append(s, x), S) = IF x \in S THEN Append(Kept(s, S), x) ELSE Kept(s, S)
    BY KeptOfAppend
  <2>3. first \o Append(s, x) = Append(first \o s, x) /\ first \o s \in Seq(T)
    OBVIOUS
  <2>4. Kept(Append(first \o s, x), S) =
          IF x \in S THEN Append(Kept(first \o s, S), x) ELSE Kept(first \o s, S)
    BY <2>3, KeptOfAppend
  <2>5. Append(Kept(first, S) \o Kept(s, S), x) = Kept(first, S) \o Append(Kept(s, S), x)
    <3> DEFINE A == Kept(first, S)
               B == Kept(s, S)
    <3>1. A \in Seq(T) /\ B \in Seq(T)
      BY <1>0, <2>1
    <3> HIDE DEF A, B
    <3>2. A \o Append(B, x) = Append(A \o B, x)
      BY <3>1, ConcatOfAppend
    <3>3. QED
      BY <3>2 DEF A, B
  <2>6. Kept(first \o Append(s, x), S) = Kept(first, S) \o Kept(Append(s, x), S)
    <3>1. CASE x \in S
      BY <2>1, <2>2, <2>3, <2>4, <2>5, <3>1
    <3>2. CASE x \notin S
      BY <2>1, <2>2, <2>3, <2>4, <3>2
    <3>3. QED
      BY <3>1, <3>2
  <2>7. QED
    BY <2>6
<1>3. list \in P
  <2> HIDE DEF P
  <2>1. \A s \in Seq(T) : s \in P
    BY <1>1, <1>2, ListInduction
  <2>2. QED
    BY <2>1
<1>4. QED
  BY <1>3

-----------------------------------------------------------------------------
(* Sums.                                                                   *)
Totals(after, list) ==
  /\ after \in [0 .. Len(list) -> Int] /\ after[0] = 0
  /\ \A i \in 1 .. Len(list) : after[i] = after[i - 1] + list[i]

LEMMA TotalLoop ==
  ASSUME NEW list \in Seq(Int)
  PROVE  \E after : Totals(after, list) /\ Total(list) = after[Len(list)]
<1> DEFINE n == Len(list)
           Step(i, x) == x + list[i]
           step == [p \in (1 .. n) \X Int |-> Step(p[1], p[2])]
           Folds(iter) == iter = [s \in SUBSET (1 .. n) |->
                                    IF s = {} THEN 0 ELSE Step(Max(s), iter[s \ {Max(s)}])]
           iter == CHOOSE it : Folds(it)
<1>0. n \in Nat /\ DOMAIN list = 1 .. n
  OBVIOUS
<1>1. \A i \in 1 .. n, x \in Int : Step(i, x) \in Int /\ step[<<i, x>>] = Step(i, x)
  OBVIOUS
<1>2. IsBody(n, Int, 0, step)
  BY <1>0, <1>1 DEF IsBody
<1>3. Total(list) = iter[1 .. n]
  BY <1>0 DEF Total, FoldLeft, MapThenFoldSet
<1> HIDE DEF Step
<1>4. Folds(iter)
  <2>1. PICK it \in [SUBSET (1 .. n) -> Int] : IsFold(it, n, Int, 0, step)
    BY <1>2, FoldExists
  <2>2. ASSUME NEW s \in SUBSET (1 .. n), s # {}
        PROVE  Max(s) \in 1 .. n /\ it[s \ {Max(s)}] \in Int
    <3>1. s \in SUBSET (0 .. n)
      BY <1>0
    <3>2. Max(s) \in s
      BY <1>0, <2>2, <3>1, MaxMember
    <3>3. QED
      BY <3>2
  <2>3. Folds(it)
    <3> HIDE DEF n, step
    <3>1. \A s \in SUBSET (1 .. n) : s # {} => it[s] = Step(Max(s), it[s \ {Max(s)}])
      BY <1>1, <2>1, <2>2 DEF IsFold
    <3>2. it[{}] = 0
      BY <2>1 DEF IsFold
    <3>3. QED
      BY <2>1, <3>1, <3>2
  <2> HIDE DEF Folds
  <2>4. QED
    BY <2>3
<1> HIDE DEF n, step, iter
<1>5. IsFold(iter, n, Int, 0, step)
  <2>1. ASSUME NEW s \in SUBSET (1 .. n), s # {}, iter[s \ {Max(s)}] \in Int
        PROVE  iter[s] = step[<<Max(s), iter[s \ {Max(s)}]>>]
    <3>1. s \in SUBSET (0 .. n)
      BY <1>0
    <3>2. Max(s) \in 1 .. n
      BY <1>0, <2>1, <3>1, MaxMember
    <3>3. QED
      BY <1>1, <1>4, <2>1, <3>2
  <2>2. iter[{}] = 0
    BY <1>4
  <2>3. QED
    BY <2>1, <2>2 DEF IsFold
<1>6. PICK after : IsLoop(after, n, Int, 0, step) /\ after[n] = iter[1 .. n]
  BY <1>2, <1>5, FoldIsLoop
<1>7. \A i \in 1 .. n : after[i] = Step(i, after[i - 1])
  <2>1. \A i \in 1 .. n : i - 1 \in 0 .. n
    BY <1>0
  <2>2. QED
    BY <1>1, <1>6, <2>1 DEF IsLoop
<1>8. QED
  BY <1>3, <1>6, <1>7 DEF n, Step, IsLoop, Totals

LEMMA TotalOfEmpty == Total(<<>>) = 0
<1>1. <<>> \in Seq(Int) /\ Len(<<>>) = 0
  OBVIOUS
<1>2. PICK after : Totals(after, <<>>) /\ Total(<<>>) = after[Len(<<>>)]
  BY <1>1, TotalLoop
<1>3. QED
  BY <1>1, <1>2 DEF Totals

LEMMA TotalInt ==
  ASSUME NEW list \in Seq(Int)
  PROVE  Total(list) \in Int
<1>1. PICK after : Totals(after, list) /\ Total(list) = after[Len(list)]
  BY TotalLoop
<1>2. Len(list) \in 0 .. Len(list)
  OBVIOUS
<1>3. QED
  BY <1>1, <1>2 DEF Totals

LEMMA SumOfAppend ==
  ASSUME NEW list \in Seq(Int), NEW x \in Int
  PROVE  /\ Total(list) \in Int
         /\ Total(Append(list, x)) = Total(list) + x
<1> DEFINE n == Len(list)
           longer == Append(list, x)
<1>0. /\ n \in Nat /\ longer \in Seq(Int) /\ Len(longer) = n + 1
      /\ longer[n + 1] = x /\ \A i \in 1 .. n : longer[i] = list[i]
  OBVIOUS
<1>1. PICK short : Totals(short, list) /\ Total(list) = short[n]
  BY TotalLoop
<1>2. PICK long : Totals(long, longer) /\ Total(longer) = long[n + 1]
  <2> HIDE DEF longer, n
  <2>1. QED
    BY <1>0, TotalLoop
<1>3. /\ short \in [0 .. n -> Int] /\ short[0] = 0
      /\ \A i \in 1 .. n : short[i] = short[i - 1] + list[i]
  BY <1>1 DEF Totals
<1> HIDE DEF n, longer
<1>4. /\ long[0] = 0
      /\ \A i \in 1 .. n + 1 : long[i] = long[i - 1] + longer[i]
  BY <1>0, <1>2 DEF Totals
<1> DEFINE P == {i \in 0 .. n : long[i] = short[i]}
<1>5. \A i \in 0 .. n : i \in P
  <2>1. 0 \in P
    BY <1>0, <1>3, <1>4
  <2>2. ASSUME NEW i \in 1 .. n, i - 1 \in P PROVE i \in P
    <3>1. i \in 1 .. n + 1 /\ i \in 0 .. n /\ longer[i] = list[i] /\ long[i - 1] = short[i - 1]
      BY <1>0, <2>2
    <3>2. long[i] = short[i]
      BY <1>3, <1>4, <3>1
    <3>3. QED
      BY <3>1, <3>2
  <2> HIDE DEF P
  <2>3. QED
    BY <1>0, <2>1, <2>2, LoopInduction
<1>6. n \in 0 .. n /\ n + 1 \in 1 .. n + 1 /\ (n + 1) - 1 = n
  BY <1>0
<1>7. long[n] = short[n] /\ short[n] \in Int
  BY <1>3, <1>5, <1>6
<1>8. long[n + 1] = long[n] + x
  BY <1>0, <1>4, <1>6
<1>9. QED
  BY <1>1, <1>2, <1>7, <1>8 DEF longer

(* A sum of natural numbers is one.                                        *)
LEMMA TotalOfAppend ==
  ASSUME NEW list \in Seq(Nat), NEW x \in Nat
  PROVE  /\ Total(list) \in Nat
         /\ Total(Append(list, x)) = Total(list) + x
<1>0. list \in Seq(Int) /\ x \in Int /\ Len(list) \in Nat
  OBVIOUS
<1>1. PICK after : Totals(after, list) /\ Total(list) = after[Len(list)]
  BY <1>0, TotalLoop
<1> DEFINE n == Len(list)
           P == {i \in 0 .. n : after[i] \in Nat}
<1>2. 0 \in P
  BY <1>0, <1>1 DEF Totals
<1>3. ASSUME NEW i \in 1 .. n, i - 1 \in P PROVE i \in P
  <2>1. list[i] \in Nat /\ i \in 0 .. n
    BY <1>0
  <2>2. after[i] = after[i - 1] + list[i]
    BY <1>1 DEF Totals
  <2>3. QED
    BY <1>3, <2>1, <2>2
<1>4. \A i \in 0 .. n : i \in P
  <2> HIDE DEF P, n
  <2>1. n \in Nat
    BY <1>0 DEF n
  <2>2. QED
    BY <1>2, <1>3, <2>1, LoopInduction
<1>5. n \in 0 .. n
  BY <1>0
<1>6. Total(list) \in Nat
  BY <1>1, <1>4, <1>5
<1>7. QED
  BY <1>0, <1>6, SumOfAppend

(* The first k values of f, in a list.                                     *)
Leading(f, k) == [i \in 1 .. k |-> f[i]]

LEMMA TotalOfLeading ==
  ASSUME NEW n \in Nat, NEW f \in [1 .. n -> Int]
  PROVE  /\ Total(Leading(f, 0)) = 0 /\ Leading(f, n) = f
         /\ \A k \in 0 .. n : Total(Leading(f, k)) \in Int
         /\ \A k \in 1 .. n : Total(Leading(f, k)) = Total(Leading(f, k - 1)) + f[k]
<1>1. Total(Leading(f, 0)) = 0
  <2>1. Leading(f, 0) = <<>>
    BY DEF Leading
  <2>2. QED
    BY <2>1, TotalOfEmpty
<1>2. Leading(f, n) = f
  BY DEF Leading
<1>3. ASSUME NEW k \in 0 .. n PROVE Leading(f, k) \in Seq(Int) /\ Len(Leading(f, k)) = k
  <2>1. \A i \in 1 .. k : f[i] \in Int
    OBVIOUS
  <2>2. QED
    BY <2>1 DEF Leading
<1>4. ASSUME NEW k \in 1 .. n PROVE Total(Leading(f, k)) = Total(Leading(f, k - 1)) + f[k]
  <2>1. k - 1 \in 0 .. n /\ f[k] \in Int
    OBVIOUS
  <2> DEFINE list == Leading(f, k - 1)
             x == f[k]
  <2>2. list \in Seq(Int) /\ Len(list) = k - 1 /\ x \in Int
    BY <1>3, <2>1
  <2>3. Leading(f, k) = Append(list, x)
    <3>1. \A i \in 1 .. k : i # k => list[i] = f[i]
      BY DEF Leading
    <3> HIDE DEF list
    <3>2. Append(list, x) = [i \in 1 .. k |-> IF i = k THEN x ELSE list[i]]
      BY <2>2
    <3>3. \A i \in 1 .. k : (IF i = k THEN x ELSE list[i]) = f[i]
      BY <3>1
    <3>4. QED
      BY <3>2, <3>3 DEF Leading
  <2> HIDE DEF list, x
  <2>4. Total(Append(list, x)) = Total(list) + x
    BY <2>2, SumOfAppend
  <2>5. QED
    BY <2>3, <2>4 DEF list, x
<1>5. \A k \in 0 .. n : Total(Leading(f, k)) \in Int
  BY <1>3, TotalInt
<1>6. QED
  BY <1>1, <1>2, <1>4, <1>5

LEMMA TotalScaled ==
  ASSUME NEW n \in Nat, NEW f \in [1 .. n -> Int], NEW c \in Int
  PROVE  Total([i \in 1 .. n |-> f[i] * c]) = Total(f) * c
<1> DEFINE g == [i \in 1 .. n |-> f[i] * c]
           P == {k \in 0 .. n : Total(Leading(g, k)) = Total(Leading(f, k)) * c}
<1>0. g \in [1 .. n -> Int] /\ \A k \in 1 .. n : g[k] = f[k] * c
  OBVIOUS
<1> HIDE DEF g
<1>1. /\ Total(Leading(f, 0)) = 0 /\ Leading(f, n) = f
      /\ \A k \in 0 .. n : Total(Leading(f, k)) \in Int
      /\ \A k \in 1 .. n : Total(Leading(f, k)) = Total(Leading(f, k - 1)) + f[k]
  BY TotalOfLeading
<1>2. /\ Total(Leading(g, 0)) = 0 /\ Leading(g, n) = g
      /\ \A k \in 1 .. n : Total(Leading(g, k)) = Total(Leading(g, k - 1)) + g[k]
  BY <1>0, TotalOfLeading
<1>3. 0 \in P
  BY <1>1, <1>2
<1>4. ASSUME NEW k \in 1 .. n, k - 1 \in P PROVE k \in P
  <2>1. k - 1 \in 0 .. n /\ k \in 0 .. n /\ f[k] \in Int
    OBVIOUS
  <2> DEFINE before == Total(Leading(f, k - 1))
  <2>2. /\ Total(Leading(g, k)) = Total(Leading(g, k - 1)) + f[k] * c
        /\ Total(Leading(g, k - 1)) = before * c
        /\ Total(Leading(f, k)) = before + f[k]
    BY <1>0, <1>1, <1>2, <1>4
  <2>3. before \in Int
    BY <1>1, <2>1
  <2> HIDE DEF before
  <2>4. (before + f[k]) * c = before * c + f[k] * c
    BY <2>1, <2>3
  <2>5. QED
    BY <2>1, <2>2, <2>4
<1>5. n \in P
  <2> HIDE DEF P
  <2>1. n \in 0 .. n
    OBVIOUS
  <2>2. QED
    BY <1>3, <1>4, <2>1, LoopInduction
<1>6. QED
  BY <1>1, <1>2, <1>5 DEF g

LEMMA TotalAdded ==
  ASSUME NEW n \in Nat, NEW f \in [1 .. n -> Int], NEW g \in [1 .. n -> Int]
  PROVE  Total([i \in 1 .. n |-> f[i] + g[i]]) = Total(f) + Total(g)
<1> DEFINE h == [i \in 1 .. n |-> f[i] + g[i]]
           P == {k \in 0 .. n : Total(Leading(h, k)) = Total(Leading(f, k)) + Total(Leading(g, k))}
<1>0. h \in [1 .. n -> Int] /\ \A k \in 1 .. n : h[k] = f[k] + g[k]
  OBVIOUS
<1> HIDE DEF h
<1>1. /\ Total(Leading(f, 0)) = 0 /\ Leading(f, n) = f
      /\ \A k \in 0 .. n : Total(Leading(f, k)) \in Int
      /\ \A k \in 1 .. n : Total(Leading(f, k)) = Total(Leading(f, k - 1)) + f[k]
  BY TotalOfLeading
<1>2. /\ Total(Leading(g, 0)) = 0 /\ Leading(g, n) = g
      /\ \A k \in 0 .. n : Total(Leading(g, k)) \in Int
      /\ \A k \in 1 .. n : Total(Leading(g, k)) = Total(Leading(g, k - 1)) + g[k]
  BY TotalOfLeading
<1>3. /\ Total(Leading(h, 0)) = 0 /\ Leading(h, n) = h
      /\ \A k \in 1 .. n : Total(Leading(h, k)) = Total(Leading(h, k - 1)) + h[k]
  BY <1>0, TotalOfLeading
<1>4. 0 \in P
  BY <1>1, <1>2, <1>3
<1>5. ASSUME NEW k \in 1 .. n, k - 1 \in P PROVE k \in P
  <2>1. k - 1 \in 0 .. n /\ k \in 0 .. n /\ f[k] \in Int /\ g[k] \in Int
    OBVIOUS
  <2> DEFINE x == Total(Leading(f, k - 1))
             y == Total(Leading(g, k - 1))
  <2>2. /\ Total(Leading(h, k)) = Total(Leading(h, k - 1)) + (f[k] + g[k])
        /\ Total(Leading(h, k - 1)) = x + y
        /\ Total(Leading(f, k)) = x + f[k] /\ Total(Leading(g, k)) = y + g[k]
    BY <1>0, <1>1, <1>2, <1>3, <1>5
  <2>3. x \in Int /\ y \in Int
    BY <1>1, <1>2, <2>1
  <2> HIDE DEF x, y
  <2>4. QED
    BY <2>1, <2>2, <2>3
<1>6. n \in P
  <2> HIDE DEF P
  <2>1. n \in 0 .. n
    OBVIOUS
  <2>2. QED
    BY <1>4, <1>5, <2>1, LoopInduction
<1>7. QED
  BY <1>1, <1>2, <1>3, <1>6 DEF h

(* The sum of a table by rows is its sum by columns.                       *)
LEMMA TotalExchanged ==
  ASSUME NEW n \in Nat, NEW t \in [1 .. n -> [1 .. n -> Int]]
  PROVE  Total([i \in 1 .. n |-> Total(t[i])])
           = Total([j \in 1 .. n |-> Total([i \in 1 .. n |-> t[i][j]])])
<1> DEFINE rows == [i \in 1 .. n |-> Total(t[i])]
           col(j) == [i \in 1 .. n |-> t[i][j]]
           cols(k) == [j \in 1 .. n |-> Total(Leading(col(j), k))]
           P == {k \in 0 .. n : Total(Leading(rows, k)) = Total(cols(k))}
<1>0. /\ \A i \in 1 .. n : t[i] \in [1 .. n -> Int] /\ t[i] \in Seq(Int)
      /\ \A j \in 1 .. n : col(j) \in [1 .. n -> Int]
      /\ \A i, j \in 1 .. n : col(j)[i] = t[i][j]
  OBVIOUS
<1>1. \A i \in 1 .. n : Total(t[i]) \in Int
  BY <1>0, TotalInt
<1>2. rows \in [1 .. n -> Int] /\ \A i \in 1 .. n : rows[i] = Total(t[i])
  BY <1>1
<1> HIDE DEF rows, col
<1>3. ASSUME NEW j \in 1 .. n
      PROVE  /\ Total(Leading(col(j), 0)) = 0 /\ Leading(col(j), n) = col(j)
             /\ \A k \in 0 .. n : Total(Leading(col(j), k)) \in Int
             /\ \A k \in 1 .. n : Total(Leading(col(j), k)) = Total(Leading(col(j), k - 1)) + t[k][j]
  <2> DEFINE c == col(j)
  <2>1. c \in [1 .. n -> Int] /\ \A i \in 1 .. n : c[i] = t[i][j]
    BY <1>0
  <2> HIDE DEF c
  <2>2. /\ Total(Leading(c, 0)) = 0 /\ Leading(c, n) = c
        /\ \A k \in 0 .. n : Total(Leading(c, k)) \in Int
        /\ \A k \in 1 .. n : Total(Leading(c, k)) = Total(Leading(c, k - 1)) + c[k]
    BY <2>1, TotalOfLeading
  <2>3. QED
    BY <2>1, <2>2 DEF c
<1>4. /\ Total(Leading(rows, 0)) = 0 /\ Leading(rows, n) = rows
      /\ \A k \in 1 .. n : Total(Leading(rows, k)) = Total(Leading(rows, k - 1)) + rows[k]
  BY <1>2, TotalOfLeading
<1>5. ASSUME NEW k \in 0 .. n PROVE cols(k) \in [1 .. n -> Int]
  BY <1>3
<1>6. 0 \in P
  <2>1. cols(0) = [j \in 1 .. n |-> 0]
    BY <1>3
  <2> DEFINE zero == [j \in 1 .. n |-> 0]
             scaled == [j \in 1 .. n |-> zero[j] * 0]
  <2>2. zero \in [1 .. n -> Int] /\ zero \in Seq(Int) /\ scaled = zero
    OBVIOUS
  <2>3. Total(scaled) = Total(zero) * 0
    <3> HIDE DEF zero
    <3>1. QED
      BY <2>2, TotalScaled
  <2>4. Total(zero) \in Int
    BY <2>2, TotalInt
  <2> HIDE DEF zero, scaled
  <2>5. Total(zero) = 0
    BY <2>2, <2>3, <2>4
  <2>6. 0 \in 0 .. n
    OBVIOUS
  <2>7. Total(cols(0)) = 0
    BY <2>1, <2>5 DEF zero
  <2> HIDE DEF cols
  <2>8. QED
    BY <1>4, <2>6, <2>7
<1>7. ASSUME NEW k \in 1 .. n, k - 1 \in P PROVE k \in P
  <2>1. k - 1 \in 0 .. n /\ k \in 0 .. n
    OBVIOUS
  <2> DEFINE before == cols(k - 1)
             row == t[k]
  <2>2. before \in [1 .. n -> Int] /\ row \in [1 .. n -> Int]
    BY <1>0, <1>5, <2>1
  <2>3. cols(k) = [j \in 1 .. n |-> before[j] + row[j]]
    BY <1>3
  <2> HIDE DEF before, row, cols
  <2>4. Total([j \in 1 .. n |-> before[j] + row[j]]) = Total(before) + Total(row)
    BY <2>2, TotalAdded
  <2>5. Total(Leading(rows, k)) = Total(Leading(rows, k - 1)) + Total(row)
    BY <1>2, <1>4 DEF row
  <2>6. Total(Leading(rows, k - 1)) = Total(before)
    BY <1>7 DEF before
  <2>7. QED
    BY <2>1, <2>3, <2>4, <2>5, <2>6
<1>8. n \in P
  <2> HIDE DEF P
  <2>1. n \in 0 .. n
    OBVIOUS
  <2>2. QED
    BY <1>6, <1>7, <2>1, LoopInduction
<1>9. cols(n) = [j \in 1 .. n |-> Total(col(j))]
  BY <1>3
<1>10. Total(rows) = Total([j \in 1 .. n |-> Total(col(j))])
  <2> HIDE DEF cols
  <2>1. QED
    BY <1>4, <1>8, <1>9
<1>11. QED
  BY <1>10 DEF rows, col
=============================================================================
