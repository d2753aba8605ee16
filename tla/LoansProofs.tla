---------------------------- MODULE LoansProofs ----------------------------
(***************************************************************************)
(* Proofs about Loans, for any names, works, files and bounds.             *)
(*                                                                         *)
(* A batch is a loop over the movies: what every step of it keeps holds of *)
(* the batch it ends with, and so of the catalog that is published.  What  *)
(* the other calls do to the movies is proved in CatalogNumberingProofs.   *)
(***************************************************************************)
EXTENDS Loans, CatalogNumberingProofs

Batches == [works : [Present -> Works], history : Seq(LoanEvent), raised : BOOLEAN]

Borrowers == Names \ {NoOne}

\* The inductive invariant of the types: each number has one movie.
LoanInv == IsCatalog /\ LoanTypeOK

(* The movies of a list, by their numbers.                                 *)
LEMMA FoundByNumber ==
  ASSUME NEW list \in Catalogs, NEW i \in 1 .. Len(list), NEW n, list[i].number = n
  PROVE  (CHOOSE movie \in ToSet(list) : movie.number = n) = list[i]
<1>1. /\ DOMAIN list = 1 .. Len(list)
      /\ \A j \in 1 .. Len(list) : list[j].number = n => j = i
  BY CatalogItems
<1>2. \A movie \in ToSet(list) : movie.number = n <=> movie = list[i]
  BY <1>1 DEF ToSet
<1>3. list[i] \in ToSet(list)
  BY <1>1 DEF ToSet
<1>4. QED
  BY <1>2, <1>3

LEMMA WorksTyped ==
  ASSUME IsCatalog
  PROVE  /\ Present \subseteq Numbers
         /\ works \in [Present -> Works]
         /\ \A i \in 1 .. Len(movies) : movies[i].number \in Present
                                       /\ works[movies[i].number] = movies[i].work
<1>0. movies \in Catalogs
  BY DEF IsCatalog
<1>1. /\ DOMAIN movies = 1 .. Len(movies)
      /\ \A i \in 1 .. Len(movies) : movies[i] \in Row /\ movies[i].number \in Nat \ {0}
  BY <1>0, CatalogItems
<1>2. \A i \in 1 .. Len(movies) : movies[i].number \in Present
  BY <1>1 DEF Present, NumbersOf
<1>3. Present \subseteq Numbers
  BY <1>1, BoundsAssumption DEF IsCatalog, Present, Numbers, NumbersOf
<1>4. ASSUME NEW i \in 1 .. Len(movies) PROVE works[movies[i].number] = movies[i].work
  <2>1. PICK n \in Present : movies[i].number = n
    BY <1>2
  <2>2. (CHOOSE movie \in ToSet(movies) : movie.number = n) = movies[i]
    BY <1>0, <2>1, FoundByNumber
  <2>3. works[n] = (CHOOSE movie \in ToSet(movies) : movie.number = n).work
    BY DEF works
  <2>4. QED
    BY <2>1, <2>2, <2>3
<1>5. \A n \in Present : works[n] \in Works
  BY <1>1, <1>4 DEF Present, NumbersOf, Row
<1>6. QED
  BY <1>2, <1>3, <1>4, <1>5 DEF works

LEMMA LoanState ==
  ASSUME LoanInv
  PROVE  /\ Present \subseteq Numbers
         /\ works \in [Present -> Works]
         /\ history \in Seq(LoanEvent) /\ Len(history) \in Nat
         /\ managed \in Seq(Borrowers)
BY WorksTyped DEF LoanInv, LoanTypeOK, Borrowers

LEMMA NumberIsNatural == Numbers \subseteq Nat
BY BoundsAssumption DEF Numbers

(* What a work is, for the steps that change its borrower.                 *)
LEMMA WorkLent ==
  ASSUME NEW work \in Works, NEW borrower \in Names
  PROVE  /\ work.borrower \in Names
         /\ [work EXCEPT !.borrower = borrower] \in Works
         /\ [work EXCEPT !.borrower = borrower].borrower = borrower
BY WorksAssumption

LEMMA BatchTyped == LoanInv => Batch \in Batches
BY LoanState DEF Batch, Batches

LEMMA EventAppended ==
  ASSUME NEW b \in Batches, NEW action, NEW n, NEW borrower,
         [action |-> action, number |-> n, borrower |-> borrower] \in LoanEvent
  PROVE  WithEvent(b, action, n, borrower) \in Batches
<1>1. Append(b.history, [action |-> action, number |-> n, borrower |-> borrower]) \in Seq(LoanEvent)
  BY DEF Batches
<1>2. QED
  BY <1>1 DEF WithEvent, Batches

LEMMA CheckOutTyped ==
  ASSUME NEW borrower \in Borrowers, NEW b \in Batches, NEW n \in Present, Present \subseteq Numbers
  PROVE  CheckOutOne(b, n, borrower) \in Batches
<1>1. b.works[n] \in Works /\ b.works \in [Present -> Works]
  BY DEF Batches
<1> DEFINE lent == [b EXCEPT !.works[n].borrower = borrower]
<1>2. lent \in Batches
  BY <1>1, WorksAssumption DEF Batches, Borrowers
<1>3. WithEvent(lent, "out", n, borrower) \in Batches
  <2> HIDE DEF lent
  <2>1. [action |-> "out", number |-> n, borrower |-> borrower] \in LoanEvent
    BY NumberIsNatural DEF LoanEvent, Borrowers
  <2>2. QED
    BY <1>2, <2>1, EventAppended
<1>4. [b EXCEPT !.raised = TRUE] \in Batches
  BY DEF Batches
<1>5. QED
  BY <1>2, <1>3, <1>4 DEF CheckOutOne

LEMMA CheckInTyped ==
  ASSUME NEW b \in Batches, NEW n \in Present, Present \subseteq Numbers, NoOne \in Names
  PROVE  CheckInOne(b, n) \in Batches
<1>1. b.works[n] \in Works /\ b.works \in [Present -> Works]
  BY DEF Batches
<1> DEFINE returned == [b EXCEPT !.works[n].borrower = NoOne]
           current == b.works[n].borrower
<1>2. returned \in Batches
  BY <1>1, WorksAssumption DEF Batches
<1>3. current # NoOne => WithEvent(returned, "in", n, current) \in Batches
  <2> HIDE DEF returned
  <2>1. current # NoOne => [action |-> "in", number |-> n, borrower |-> current] \in LoanEvent
    BY <1>1, WorksAssumption, NumberIsNatural DEF LoanEvent
  <2>2. QED
    BY <1>2, <2>1, EventAppended
<1>4. [b EXCEPT !.raised = TRUE] \in Batches
  BY DEF Batches
<1>5. QED
  BY <1>2, <1>3, <1>4 DEF CheckInOne

(* A batch after each step of the loop of check_out_many.                  *)
Lends(after, list, borrower) ==
  /\ after \in [0 .. Len(list) -> Batches]
  /\ after[0] = Batch
  /\ \A i \in 1 .. Len(list) : after[i] = CheckOutOne(after[i - 1], list[i], borrower)

LEMMA LendingLoop ==
  ASSUME LoanInv, NEW borrower \in Borrowers, NEW list \in Seq(Present)
  PROVE  \E after : Lends(after, list, borrower) /\ LentBatch(list, borrower) = after[Len(list)]
<1> DEFINE n == Len(list)
           Step(i, b) == CheckOutOne(b, list[i], borrower)
           step == [p \in (1 .. n) \X Batches |-> Step(p[1], p[2])]
           Folds(iter) == iter = [s \in SUBSET (1 .. n) |->
                                    IF s = {} THEN Batch ELSE Step(Max(s), iter[s \ {Max(s)}])]
           iter == CHOOSE it : Folds(it)
<1>0. n \in Nat /\ DOMAIN list = 1 .. n /\ \A i \in 1 .. n : list[i] \in Present
  OBVIOUS
<1>1. \A i \in 1 .. n, b \in Batches : Step(i, b) \in Batches /\ step[<<i, b>>] = Step(i, b)
  BY <1>0, CheckOutTyped, LoanState
<1>2. IsBody(n, Batches, Batch, step)
  BY <1>0, <1>1, BatchTyped DEF IsBody
<1>3. LentBatch(list, borrower) = iter[1 .. n]
  BY <1>0 DEF LentBatch, FoldLeft, MapThenFoldSet
<1> HIDE DEF Step
<1>4. Folds(iter)
  <2>1. PICK it \in [SUBSET (1 .. n) -> Batches] : IsFold(it, n, Batches, Batch, step)
    BY <1>2, FoldExists
  <2>2. ASSUME NEW s \in SUBSET (1 .. n), s # {}
        PROVE  Max(s) \in 1 .. n /\ it[s \ {Max(s)}] \in Batches
    <3>1. s \in SUBSET (0 .. n)
      BY <1>0
    <3>2. Max(s) \in s
      BY <1>0, <2>2, <3>1, MaxMember
    <3>3. QED
      BY <3>2
  <2>3. Folds(it)
    <3> HIDE DEF n, step
    <3>1. \A s \in SUBSET (1 .. n) : s # {} => it[s] = Step(Max(s), it[s \ {Max(s)}])
      BY <1>1, <2>1, <2>2 DEF IsFold
    <3>2. it[{}] = Batch
      BY <2>1 DEF IsFold
    <3>3. QED
      BY <2>1, <3>1, <3>2
  <2> HIDE DEF Folds
  <2>4. QED
    BY <2>3
<1> HIDE DEF n, step, iter
<1>5. IsFold(iter, n, Batches, Batch, step)
  <2>1. ASSUME NEW s \in SUBSET (1 .. n), s # {}, iter[s \ {Max(s)}] \in Batches
        PROVE  iter[s] = step[<<Max(s), iter[s \ {Max(s)}]>>]
    <3>1. s \in SUBSET (0 .. n)
      BY <1>0
    <3>2. Max(s) \in 1 .. n
      BY <1>0, <2>1, <3>1, MaxMember
    <3>3. QED
      BY <1>1, <1>4, <2>1, <3>2
  <2>2. iter[{}] = Batch
    BY <1>4
  <2>3. QED
    BY <2>1, <2>2 DEF IsFold
<1>7. PICK after : IsLoop(after, n, Batches, Batch, step) /\ after[n] = iter[1 .. n]
  BY <1>2, <1>5, FoldIsLoop
<1>8. \A i \in 1 .. n : after[i] = Step(i, after[i - 1])
  <2>1. \A i \in 1 .. n : i - 1 \in 0 .. n
    BY <1>0
  <2>2. QED
    BY <1>1, <1>7, <2>1 DEF IsLoop
<1>9. QED
  BY <1>3, <1>7, <1>8 DEF n, Step, IsLoop, Lends

(* ... and of check_in_many.                                               *)
Returns(after, list) ==
  /\ after \in [0 .. Len(list) -> Batches]
  /\ after[0] = Batch
  /\ \A i \in 1 .. Len(list) : after[i] = CheckInOne(after[i - 1], list[i])

LEMMA ReturningLoop ==
  ASSUME LoanInv, NEW list \in Seq(Present)
  PROVE  \E after : Returns(after, list) /\ ReturnedBatch(list) = after[Len(list)]
<1> DEFINE n == Len(list)
           Step(i, b) == CheckInOne(b, list[i])
           step == [p \in (1 .. n) \X Batches |-> Step(p[1], p[2])]
           Folds(iter) == iter = [s \in SUBSET (1 .. n) |->
                                    IF s = {} THEN Batch ELSE Step(Max(s), iter[s \ {Max(s)}])]
           iter == CHOOSE it : Folds(it)
<1>0. n \in Nat /\ DOMAIN list = 1 .. n /\ \A i \in 1 .. n : list[i] \in Present
  OBVIOUS
<1>1. \A i \in 1 .. n, b \in Batches : Step(i, b) \in Batches /\ step[<<i, b>>] = Step(i, b)
  BY <1>0, NamesAssumption, CheckInTyped, LoanState
<1>2. IsBody(n, Batches, Batch, step)
  BY <1>0, <1>1, BatchTyped DEF IsBody
<1>3. ReturnedBatch(list) = iter[1 .. n]
  BY <1>0 DEF ReturnedBatch, FoldLeft, MapThenFoldSet
<1> HIDE DEF Step
<1>4. Folds(iter)
  <2>1. PICK it \in [SUBSET (1 .. n) -> Batches] : IsFold(it, n, Batches, Batch, step)
    BY <1>2, FoldExists
  <2>2. ASSUME NEW s \in SUBSET (1 .. n), s # {}
        PROVE  Max(s) \in 1 .. n /\ it[s \ {Max(s)}] \in Batches
    <3>1. s \in SUBSET (0 .. n)
      BY <1>0
    <3>2. Max(s) \in s
      BY <1>0, <2>2, <3>1, MaxMember
    <3>3. QED
      BY <3>2
  <2>3. Folds(it)
    <3> HIDE DEF n, step
    <3>1. \A s \in SUBSET (1 .. n) : s # {} => it[s] = Step(Max(s), it[s \ {Max(s)}])
      BY <1>1, <2>1, <2>2 DEF IsFold
    <3>2. it[{}] = Batch
      BY <2>1 DEF IsFold
    <3>3. QED
      BY <2>1, <3>1, <3>2
  <2> HIDE DEF Folds
  <2>4. QED
    BY <2>3
<1> HIDE DEF n, step, iter
<1>5. IsFold(iter, n, Batches, Batch, step)
  <2>1. ASSUME NEW s \in SUBSET (1 .. n), s # {}, iter[s \ {Max(s)}] \in Batches
        PROVE  iter[s] = step[<<Max(s), iter[s \ {Max(s)}]>>]
    <3>1. s \in SUBSET (0 .. n)
      BY <1>0
    <3>2. Max(s) \in 1 .. n
      BY <1>0, <2>1, <3>1, MaxMember
    <3>3. QED
      BY <1>1, <1>4, <2>1, <3>2
  <2>2. iter[{}] = Batch
    BY <1>4
  <2>3. QED
    BY <2>1, <2>2 DEF IsFold
<1>7. PICK after : IsLoop(after, n, Batches, Batch, step) /\ after[n] = iter[1 .. n]
  BY <1>2, <1>5, FoldIsLoop
<1>8. \A i \in 1 .. n : after[i] = Step(i, after[i - 1])
  <2>1. \A i \in 1 .. n : i - 1 \in 0 .. n
    BY <1>0
  <2>2. QED
    BY <1>1, <1>7, <2>1 DEF IsLoop
<1>9. QED
  BY <1>3, <1>7, <1>8 DEF n, Step, IsLoop, Returns

(* What the batch starts with and each of its steps keeps holds at its end. *)
LEMMA LendingKeeps ==
  ASSUME LoanInv, NEW borrower \in Borrowers, NEW list \in Seq(Present), NEW P,
         Batch \in P,
         \A b \in Batches, n \in Present : b \in P => CheckOutOne(b, n, borrower) \in P
  PROVE  LentBatch(list, borrower) \in P \cap Batches
<1>1. PICK after : Lends(after, list, borrower) /\ LentBatch(list, borrower) = after[Len(list)]
  BY LendingLoop
<1> DEFINE Q == {i \in 0 .. Len(list) : after[i] \in P}
<1>2. 0 \in Q
  BY <1>1 DEF Lends
<1>3. ASSUME NEW i \in 1 .. Len(list), i - 1 \in Q PROVE i \in Q
  <2>1. after[i - 1] \in Batches /\ after[i - 1] \in P /\ list[i] \in Present
    BY <1>1, <1>3 DEF Lends
  <2>2. after[i] \in P
    BY <1>1, <2>1 DEF Lends
  <2>3. QED
    BY <2>2
<1>4. Len(list) \in Nat /\ Len(list) \in 0 .. Len(list)
  OBVIOUS
<1>5. Len(list) \in Q
  <2> HIDE DEF Q
  <2>1. QED
    BY <1>2, <1>3, <1>4, LoopInduction
<1>6. QED
  BY <1>1, <1>4, <1>5 DEF Lends

LEMMA ReturningKeeps ==
  ASSUME LoanInv, NEW list \in Seq(Present), NEW P,
         Batch \in P,
         \A b \in Batches, n \in Present : b \in P => CheckInOne(b, n) \in P
  PROVE  ReturnedBatch(list) \in P \cap Batches
<1>1. PICK after : Returns(after, list) /\ ReturnedBatch(list) = after[Len(list)]
  BY ReturningLoop
<1> DEFINE Q == {i \in 0 .. Len(list) : after[i] \in P}
<1>2. 0 \in Q
  BY <1>1 DEF Returns
<1>3. ASSUME NEW i \in 1 .. Len(list), i - 1 \in Q PROVE i \in Q
  <2>1. after[i - 1] \in Batches /\ after[i - 1] \in P /\ list[i] \in Present
    BY <1>1, <1>3 DEF Returns
  <2>2. after[i] \in P
    BY <1>1, <2>1 DEF Returns
  <2>3. QED
    BY <2>2
<1>4. Len(list) \in Nat /\ Len(list) \in 0 .. Len(list)
  OBVIOUS
<1>5. Len(list) \in Q
  <2> HIDE DEF Q
  <2>1. QED
    BY <1>2, <1>3, <1>4, LoopInduction
<1>6. QED
  BY <1>1, <1>4, <1>5 DEF Returns

-----------------------------------------------------------------------------
(* A list of movies of the catalog.                                       *)
LEMMA ListOfPresent ==
  ASSUME NEW list \in Seq(Numbers), ToSet(list) \subseteq Present
  PROVE  list \in Seq(Present)
<1>1. \A i \in 1 .. Len(list) : list[i] \in Present
  BY DEF ToSet
<1>2. QED
  BY <1>1
LEMMA OrderIsPresent ==
  ASSUME LoanInv
  PROVE  /\ order \in Seq(Present)
         /\ ToSet(order) = Present
         /\ IsInjective(order)
<1>1. movies \in Catalogs
  BY DEF LoanInv, IsCatalog
<1>2. /\ DOMAIN movies = 1 .. Len(movies) /\ Len(movies) \in Nat
      /\ \A i, j \in 1 .. Len(movies) : movies[i].number = movies[j].number => i = j
  BY <1>1, CatalogItems
<1>3. order = [i \in 1 .. Len(movies) |-> movies[i].number]
  BY <1>2 DEF order
<1>4. order \in Seq(Present) /\ DOMAIN order = 1 .. Len(movies)
  BY <1>2, <1>3 DEF Present, NumbersOf
<1>5. ToSet(order) = Present
  BY <1>2, <1>3, <1>4 DEF ToSet, Present, NumbersOf
<1>6. IsInjective(order)
  BY <1>2, <1>3, <1>4 DEF IsInjective
<1>7. QED
  BY <1>4, <1>5, <1>6

LEMMA RequestIsList ==
  ASSUME NEW requested \in Requests
  PROVE  requested \in Seq(Numbers) /\ IsInjective(requested)
BY BoundsAssumption DEF Requests, BoundedSeq, SeqOf

(* The movies a call works on: those of the group, each of them once.      *)
LEMMA ExpandedIsGroup ==
  ASSUME LoanInv, NEW requested \in Requests, ToSet(requested) \subseteq Present,
         NEW byLabel \in BOOLEAN, NEW byNative \in BOOLEAN
  PROVE  LET list == Expanded(requested, byLabel, byNative)
         IN  /\ list \in Seq(Present)
             /\ IsInjective(list)
             /\ ToSet(list) = Group(requested, byLabel, byNative)
<1> DEFINE list == Expanded(requested, byLabel, byNative)
           selected == ToSet(requested)
           S == {n \in Present : n \in selected \/ SameGroup(n, selected, byLabel, byNative)}
<1>1. CASE ~byLabel /\ ~byNative
  <2>1. list = requested
    BY <1>1 DEF Expanded
  <2>2. Group(requested, byLabel, byNative) = selected
    BY <1>1 DEF Group
  <2>3. QED
    BY <2>1, <2>2, RequestIsList, ListOfPresent
<1>2. CASE byLabel \/ byNative
  <2>1. list = Kept(order, S)
    BY <1>2 DEF Expanded
  <2>2. S = Group(requested, byLabel, byNative)
    BY DEF SameGroup, Group
  <2>3. S \subseteq Present
    OBVIOUS
  <2> HIDE DEF S
  <2>4. order \in Seq(Present) /\ ToSet(order) = Present /\ IsInjective(order)
    BY OrderIsPresent
  <2>5. list \in Seq(Present) /\ IsInjective(list) /\ ToSet(list) = Present \cap S
    <3> HIDE DEF list
    <3>1. Kept(order, S) \in Seq(Present)
      BY <2>4, KeptIsList
    <3>2. ToSet(Kept(order, S)) = ToSet(order) \cap S
      BY <2>4, KeptItems
    <3>3. IsInjective(Kept(order, S))
      BY <2>4, KeptInjective
    <3>4. QED
      BY <2>1, <2>4, <3>1, <3>2, <3>3
  <2>6. QED
    BY <2>2, <2>3, <2>5
<1>3. QED
  BY <1>1, <1>2

(* A call raises or publishes its batch.                                   *)
LEMMA CheckOutPublishes ==
  ASSUME LoanInv, NEW requested \in Requests, NEW name \in Names,
         NEW byLabel \in BOOLEAN, NEW byNative \in BOOLEAN,
         CheckOutMany(requested, name, byLabel, byNative)
  PROVE  \/ LoanRaises
         \/ \E list \in Seq(Present) :
               /\ Strip[name] \in Borrowers
               /\ Persist(LentBatch(list, Strip[name]))
<1>1. Strip[name] \in Names
  BY NamesAssumption
<1>2. CASE Strip[name] = NoOne \/ ~(ToSet(requested) \subseteq Present)
  BY <1>2 DEF CheckOutMany
<1>3. CASE Strip[name] # NoOne /\ ToSet(requested) \subseteq Present
  <2>1. Expanded(requested, byLabel, byNative) \in Seq(Present)
    BY <1>3, ExpandedIsGroup
  <2>2. Persist(LentBatch(Expanded(requested, byLabel, byNative), Strip[name]))
    BY <1>3 DEF CheckOutMany
  <2>3. QED
    BY <1>1, <1>3, <2>1, <2>2 DEF Borrowers
<1>4. QED
  BY <1>2, <1>3

LEMMA CheckInPublishes ==
  ASSUME LoanInv, NEW requested \in Requests,
         NEW byLabel \in BOOLEAN, NEW byNative \in BOOLEAN,
         CheckInMany(requested, byLabel, byNative)
  PROVE  LoanRaises \/ \E list \in Seq(Present) : Persist(ReturnedBatch(list))
<1>1. CASE ~(ToSet(requested) \subseteq Present)
  BY <1>1 DEF CheckInMany
<1>2. CASE ToSet(requested) \subseteq Present
  <2>1. Expanded(requested, byLabel, byNative) \in Seq(Present)
    BY <1>2, ExpandedIsGroup
  <2>2. Persist(ReturnedBatch(Expanded(requested, byLabel, byNative)))
    BY <1>2 DEF CheckInMany
  <2>3. QED
    BY <2>1, <2>2
<1>3. QED
  BY <1>1, <1>2

LEMMA LentTyped ==
  ASSUME LoanInv, NEW borrower \in Borrowers, NEW list \in Seq(Present)
  PROVE  LentBatch(list, borrower) \in Batches
<1>1. \A b \in Batches, n \in Present : CheckOutOne(b, n, borrower) \in Batches
  BY CheckOutTyped, LoanState
<1>2. QED
  BY <1>1, BatchTyped, LendingKeeps

LEMMA ReturnedTyped ==
  ASSUME LoanInv, NEW list \in Seq(Present)
  PROVE  ReturnedBatch(list) \in Batches
<1>1. \A b \in Batches, n \in Present : CheckInOne(b, n) \in Batches
  BY NamesAssumption, CheckInTyped, LoanState
<1>2. QED
  BY <1>1, BatchTyped, ReturningKeeps
(* What a batch publishes: the same movies under the same numbers, with the *)
(* borrowers of the batch.                                                 *)
LEMMA Published ==
  ASSUME LoanInv, NEW b \in Batches, ~b.raised, Persist(b)
  PROVE  /\ IsCatalog' /\ Present' = Present /\ works' = b.works
         /\ history' = b.history /\ UNCHANGED <<managed, since>>
<1> DEFINE n == Len(movies)
           list == [i \in 1 .. n |-> [movies[i] EXCEPT !.work = b.works[movies[i].number]]]
<1>1. movies \in Catalogs /\ outcome' = "ok"
  BY DEF LoanInv, IsCatalog, Persist
<1>2. /\ DOMAIN movies = 1 .. n /\ n \in Nat
      /\ \A i \in 1 .. n : movies[i] \in Row /\ movies[i].number \in Nat \ {0}
      /\ \A i, j \in 1 .. n : movies[i].number = movies[j].number => i = j
  BY <1>1, CatalogItems
<1>3. movies' = list /\ history' = b.history /\ UNCHANGED <<managed, since>>
  BY <1>2 DEF Persist
<1>4. \A i \in 1 .. n : movies[i].number \in Present
  BY <1>2 DEF Present, NumbersOf
<1>5. b.works \in [Present -> Works]
  BY DEF Batches
<1>6. ASSUME NEW i \in 1 .. n
      PROVE  /\ list[i] \in Row /\ list[i].number = movies[i].number
             /\ list[i].work = b.works[movies[i].number]
  BY <1>2, <1>4, <1>5 DEF Row
<1>7. list \in Seq(Row) /\ DOMAIN list = 1 .. n /\ Len(list) = n
  <2>1. list \in [1 .. n -> Row]
    BY <1>6
  <2> HIDE DEF list, n
  <2>2. QED
    BY <1>2, <2>1
<1> HIDE DEF list, n
<1>8. NumbersOf(list) = NumbersOf(movies)
  BY <1>2, <1>6, <1>7 DEF NumbersOf
<1>9. list \in Catalogs
  <2>1. Distinct(list)
    BY <1>2, <1>6, <1>7 DEF Distinct
  <2>2. QED
    BY <1>1, <1>7, <1>8, <2>1 DEF Catalogs
<1>10. IsCatalog'
  BY <1>1, <1>3, <1>8, <1>9 DEF LoanInv, IsCatalog, NumbersOf
<1>11. Present' = Present
  BY <1>3, <1>8 DEF Present, NumbersOf
<1>12. ASSUME NEW k \in Present PROVE works'[k] = b.works[k]
  <2>1. PICK i \in 1 .. n : movies[i].number = k
    BY <1>2 DEF Present, NumbersOf
  <2>2. (CHOOSE movie \in ToSet(list) : movie.number = k) = list[i]
    BY <1>6, <1>7, <1>9, <2>1, FoundByNumber
  <2>3. works'[k] = (CHOOSE movie \in ToSet(list) : movie.number = k).work
    BY <1>3, <1>11 DEF works
  <2>4. QED
    BY <1>6, <2>1, <2>2, <2>3, <1>2
<1>13. works' = [k \in Present |-> works'[k]]
  BY <1>11 DEF works
<1>14. works' = b.works
  BY <1>5, <1>12, <1>13
<1>15. QED
  BY <1>3, <1>10, <1>11, <1>14

LEMMA UntouchedTyped ==
  ASSUME LoanInv, UNCHANGED <<movies, history, managed, keys, since>>, outcome' \in {"ok", "raised"}
  PROVE  LoanInv'
<1>1. Present' = Present
  BY DEF Present, NumbersOf
<1>2. IsCatalog'
  BY DEF LoanInv, IsCatalog, NumbersOf
<1>3. LoanTypeOK'
  BY <1>1 DEF LoanInv, LoanTypeOK
<1>4. QED
  BY <1>2, <1>3 DEF LoanInv

\* A catalog is a list of movies.
LEMMA CatalogMovies == IsCatalog => movies \in Seq(Movie) /\ outcome \in {"ok", "raised"}
BY CatalogTyped DEF TypeOK

LEMMA CatalogWorks == IsCatalog => works \in [Present -> Works]
BY WorksTyped

LEMMA PersistTyped ==
  ASSUME LoanInv, NEW b \in Batches, Persist(b)
  PROVE  LoanInv'
<1>1. CASE b.raised
  BY <1>1, UntouchedTyped DEF Persist, LoanRaises
<1>2. CASE ~b.raised
  <2>1. /\ IsCatalog' /\ Present' = Present /\ works' = b.works
        /\ history' = b.history /\ UNCHANGED <<managed, since>>
    BY <1>2, Published
  <2>2. keys' = IF b.history = history THEN keys ELSE keys \cup {HistoryKey}
    BY <1>2 DEF Persist
  <2>3. (movies \in Seq(Movie) /\ outcome \in {"ok", "raised"})'
    BY <2>1, CatalogMovies, PTL
  <2>4. b.history \in Seq(LoanEvent)
    BY DEF Batches
  <2>5. LoanTypeOK'
    BY <2>1, <2>2, <2>3, <2>4 DEF LoanInv, LoanTypeOK
  <2>6. QED
    BY <2>1, <2>5 DEF LoanInv
<1>3. QED
  BY <1>1, <1>2

LEMMA AddBorrowerTyped ==
  ASSUME LoanInv, NEW name \in Names, AddBorrower(name)
  PROVE  LoanInv'
<1>1. CASE LoanRaises
  BY <1>1, UntouchedTyped DEF LoanRaises
<1>2. CASE ~LoanRaises
  <2>1. /\ Strip[name] \in Borrowers
        /\ managed' = Append(managed, Strip[name]) /\ keys' = keys \cup {BorrowersKey}
        /\ UNCHANGED <<movies, history, since>> /\ outcome' = "ok"
    BY <1>2, NamesAssumption DEF AddBorrower, Borrowers
  <2>2. managed' \in Seq(Borrowers)
    BY <2>1, LoanState
  <2>3. Present' = Present /\ IsCatalog'
    BY <2>1 DEF Present, NumbersOf, LoanInv, IsCatalog
  <2>4. LoanTypeOK'
    BY <2>1, <2>2, <2>3 DEF LoanInv, LoanTypeOK, Borrowers
  <2>5. QED
    BY <2>3, <2>4 DEF LoanInv
<1>3. QED
  BY <1>1, <1>2

LEMMA RemoveBorrowerTyped ==
  ASSUME LoanInv, NEW name \in Names, RemoveBorrower(name)
  PROVE  LoanInv'
<1>1. CASE LoanRaises
  BY <1>1, UntouchedTyped DEF LoanRaises
<1>2. CASE ~LoanRaises
  <2>1. PICK S : /\ managed' = Kept(managed, S) /\ keys' = keys \cup {BorrowersKey}
                 /\ UNCHANGED <<movies, history, since>> /\ outcome' = "ok"
    BY <1>2 DEF RemoveBorrower
  <2>2. managed' \in Seq(Borrowers)
    BY <2>1, LoanState, KeptIsList
  <2>3. Present' = Present /\ IsCatalog'
    BY <2>1 DEF Present, NumbersOf, LoanInv, IsCatalog
  <2>4. LoanTypeOK'
    BY <2>1, <2>2, <2>3 DEF LoanInv, LoanTypeOK, Borrowers
  <2>5. QED
    BY <2>3, <2>4 DEF LoanInv
<1>3. QED
  BY <1>1, <1>2

(* The other calls: they leave a catalog and well-formed metadata,          *)
\* The metadata of the next state are well formed.
MetadataNext ==
  /\ history' \in Seq(LoanEvent)
  /\ managed' \in Seq(Borrowers)
  /\ keys' \subseteq {HistoryKey, BorrowersKey}
  /\ HistoryKey \notin keys' => history' = <<>>
  /\ BorrowersKey \notin keys' => managed' = <<>>

LEMMA RecordedTyped ==
  ASSUME LoanInv, IsCatalog', MetadataNext, Recorded
  PROVE  LoanInv'
<1>1. (works \in [Present -> Works])'
  BY CatalogWorks, PTL
<1>2. (movies \in Seq(Movie) /\ outcome \in {"ok", "raised"})'
  BY CatalogMovies, PTL
<1>3. \A n \in Present' : works'[n].borrower \in Names
  BY <1>1, WorksAssumption
<1>4. Len(history') \in Nat
  BY DEF MetadataNext
<1>5. \A n \in Present : since[n] \in [at : Nat, borrower : Names]
  BY DEF LoanInv, LoanTypeOK
<1>6. since' \in [Present' -> [at : Nat, borrower : Names]]
  BY <1>3, <1>4, <1>5 DEF Recorded
<1>7. LoanTypeOK'
  BY <1>2, <1>6 DEF MetadataNext, LoanTypeOK, Borrowers
<1>8. QED
  BY <1>7 DEF LoanInv

\* A call that is not one of the loans, with what it does to the metadata.
OtherCall == IsCatalog' /\ MetadataNext /\ Recorded /\ (DistinctNames(managed) => DistinctNames(managed'))

LEMMA ArchiveTyped ==
  ASSUME NEW f \in Archives
  PROVE  /\ f.rows \in Files /\ f.keys \subseteq {HistoryKey, BorrowersKey}
         /\ f.history \in Seq(LoanEvent) /\ f.managed \in Seq(Borrowers)
         /\ HistoryKey \notin f.keys => f.history = <<>>
         /\ BorrowersKey \notin f.keys => f.managed = <<>>
         /\ DistinctNames(f.managed)
BY ArchivesAssumption DEF Borrowers

LEMMA StaysMetadata ==
  ASSUME LoanInv, UNCHANGED <<history, managed, keys>>
  PROVE  MetadataNext /\ (DistinctNames(managed) => DistinctNames(managed'))
BY DEF LoanInv, LoanTypeOK, MetadataNext, Borrowers

LEMMA OpenFileOther ==
  ASSUME LoanInv, NEW f \in Archives, OpenFile(f)
  PROVE  OtherCall
<1>1. f.rows \in Files /\ Load(f.rows)
  BY ArchiveTyped DEF OpenFile
<1>2. IsCatalog'
  BY <1>1, FileIsRows, CatalogOfRows, BecomesCatalog DEF Load
<1>3. history' = f.history /\ managed' = f.managed /\ keys' = f.keys /\ Recorded
  BY DEF OpenFile
<1>4. MetadataNext /\ DistinctNames(managed')
  BY <1>3, ArchiveTyped DEF MetadataNext
<1>5. QED
  BY <1>2, <1>3, <1>4 DEF OtherCall

LEMMA MergeFileOther ==
  ASSUME LoanInv, NEW f \in Archives, NEW collision \in Policies, NEW policy \in MetadataPolicies,
         MergeFile(f, collision, policy)
  PROVE  LoanRaises \/ OtherCall
<1> SUFFICES ASSUME ~LoanRaises PROVE OtherCall
  OBVIOUS
<1>1. /\ Merge(f.rows, collision)
      /\ history' = IF HistoryKey \in Taken(f, policy) THEN f.history ELSE history
      /\ managed' = IF BorrowersKey \in Taken(f, policy) THEN f.managed ELSE managed
      /\ keys' = keys \cup Taken(f, policy)
      /\ Recorded
  BY DEF MergeFile, MergedManaged
<1>2. IsCatalog'
  <2>1. Incoming(f.rows) \in Catalogs /\ movies \in Catalogs /\ IsCatalog
    BY ArchiveTyped, FileIsRows, CatalogOfRows DEF Incoming, LoanInv, IsCatalog
  <2>2. Merged(movies, Incoming(f.rows), collision).list \in Catalogs
    BY <2>1, MergedTyped, MergeTyped
  <2>3. QED
    BY <1>1, <2>1, <2>2, BecomesCatalog, RaisesCatalog DEF Merge
<1>3. Taken(f, policy) \subseteq f.keys
  BY DEF Taken
<1>4. MetadataNext
  <2>1. /\ history \in Seq(LoanEvent) /\ managed \in Seq(Borrowers)
        /\ keys \subseteq {HistoryKey, BorrowersKey}
        /\ HistoryKey \notin keys => history = <<>>
        /\ BorrowersKey \notin keys => managed = <<>>
    BY DEF LoanInv, LoanTypeOK, Borrowers
  <2>2. Taken(f, policy) \subseteq {HistoryKey, BorrowersKey}
    BY <1>3, ArchiveTyped
  <2>3. QED
    BY <1>1, <2>1, <2>2, ArchiveTyped DEF MetadataNext
<1>5. DistinctNames(managed) => DistinctNames(managed')
  BY <1>1, ArchiveTyped
<1>6. QED
  BY <1>1, <1>2, <1>4, <1>5 DEF OtherCall

LEMMA EnterOther ==
  ASSUME LoanInv, NEW work \in Entered, Enter(work)
  PROVE  OtherCall
<1> DEFINE row == [number |-> 0, work |-> work]
<1>1. work \in Works
  BY WorksAssumption
<1>2. <<row>> \in Seq(Row)
  BY <1>1 DEF Row
<1>3. movies \in Catalogs
  BY DEF LoanInv, IsCatalog
<1>4. Added(movies, <<row>>, TRUE) \in Catalogs
  BY <1>2, <1>3, AddedCatalog
<1>5. Becomes(Added(movies, <<row>>, TRUE)) /\ UNCHANGED <<history, managed, keys>> /\ Recorded
  BY DEF Enter, OfMovies, AddMany
<1>6. IsCatalog'
  BY <1>4, <1>5, BecomesCatalog
<1>7. QED
  BY <1>5, <1>6, StaysMetadata DEF OtherCall

LEMMA MoviesOther ==
  ASSUME LoanInv,
         \/ \E n \in Numbers, work \in Entered : EditMovie(n, work)
         \/ \E requested \in SUBSET Numbers \ {{}} : RemoveMovies(requested)
         \/ \E start \in 0 .. MaxNumber : RenumberMovies(start)
         \/ \E reverse \in BOOLEAN : SortMovies(reverse)
  PROVE  OtherCall
<1>1. UNCHANGED <<history, managed, keys>> /\ Recorded
  BY DEF EditMovie, RemoveMovies, RenumberMovies, SortMovies, OfMovies
<1>2. Next
  BY WorksAssumption DEF EditMovie, RemoveMovies, RenumberMovies, SortMovies, OfMovies, Next, Numbers
<1>3. IsCatalog'
  BY <1>2, CatalogStep DEF LoanInv
<1>4. QED
  BY <1>1, <1>3, StaysMetadata DEF OtherCall

(* so that every step is one of these.                                     *)
LEMMA Steps ==
  ASSUME LoanInv, [LoanNext]_loanVars
  PROVE  \/ UNCHANGED <<movies, history, managed, keys, since>> /\ outcome' \in {"ok", "raised"}
         \/ \E list \in Seq(Present), borrower \in Borrowers : Persist(LentBatch(list, borrower))
         \/ \E list \in Seq(Present) : Persist(ReturnedBatch(list))
         \/ \E name \in Names : AddBorrower(name) \/ RemoveBorrower(name)
         \/ OtherCall
<1>1. ASSUME NEW requested \in Requests, NEW name \in Names,
             NEW byLabel \in BOOLEAN, NEW byNative \in BOOLEAN,
             CheckOutMany(requested, name, byLabel, byNative)
      PROVE  LoanRaises \/ \E list \in Seq(Present), borrower \in Borrowers : Persist(LentBatch(list, borrower))
  BY <1>1, CheckOutPublishes
<1>2. ASSUME NEW requested \in Requests, NEW byLabel \in BOOLEAN, NEW byNative \in BOOLEAN,
             CheckInMany(requested, byLabel, byNative)
      PROVE  LoanRaises \/ \E list \in Seq(Present) : Persist(ReturnedBatch(list))
  BY <1>2, CheckInPublishes
<1>3. LoanRaises => UNCHANGED <<movies, history, managed, keys, since>> /\ outcome' \in {"ok", "raised"}
  BY DEF LoanRaises
<1>4. UNCHANGED loanVars => UNCHANGED <<movies, history, managed, keys, since>> /\ outcome' \in {"ok", "raised"}
  BY DEF loanVars, LoanInv, LoanTypeOK
<1>5. QED
  BY <1>1, <1>2, <1>3, <1>4, OpenFileOther, MergeFileOther, EnterOther, MoviesOther DEF LoanNext

LEMMA LoanStep == LoanInv /\ [LoanNext]_loanVars => LoanInv'
<1> SUFFICES ASSUME LoanInv, [LoanNext]_loanVars PROVE LoanInv'
  OBVIOUS
<1>1. ASSUME NEW list \in Seq(Present), NEW borrower \in Borrowers, Persist(LentBatch(list, borrower))
      PROVE  LoanInv'
  BY <1>1, LentTyped, PersistTyped
<1>2. ASSUME NEW list \in Seq(Present), Persist(ReturnedBatch(list)) PROVE LoanInv'
  BY <1>2, ReturnedTyped, PersistTyped
<1>3. OtherCall => LoanInv'
  BY RecordedTyped DEF OtherCall
<1>4. QED
  BY <1>1, <1>2, <1>3, Steps, UntouchedTyped, AddBorrowerTyped, RemoveBorrowerTyped

LEMMA LoanStart == LoanInit => LoanInv
<1> SUFFICES ASSUME LoanInit PROVE LoanInv
  OBVIOUS
<1>1. PICK f \in Archives :
        /\ movies = CatalogOf(f.rows) /\ Within(movies) /\ outcome = "ok"
        /\ history = f.history /\ managed = f.managed /\ keys = f.keys
        /\ since = [n \in Present |-> [at |-> Len(history), borrower |-> works[n].borrower]]
  BY DEF LoanInit
<1>2. IsCatalog
  BY <1>1, ArchiveTyped, FileIsRows, CatalogOfRows DEF IsCatalog, Within
<1>3. history \in Seq(LoanEvent) /\ Len(history) \in Nat
  BY <1>1, ArchiveTyped
<1>4. \A n \in Present : works[n].borrower \in Names
  BY <1>2, WorksTyped, WorksAssumption
<1>5. since \in [Present -> [at : Nat, borrower : Names]]
  BY <1>1, <1>3, <1>4
<1>6. LoanTypeOK
  BY <1>1, <1>2, <1>5, ArchiveTyped, CatalogMovies DEF LoanTypeOK, Borrowers
<1>7. QED
  BY <1>2, <1>6 DEF LoanInv

LEMMA LoanInvariant == LoanSpec => []LoanInv
BY LoanStart, LoanStep, PTL DEF LoanSpec

(* The catalog, its history and its borrowers stay well formed.            *)
THEOREM LoanTypeCorrect == LoanSpec => []LoanTypeOK
<1>1. LoanInv => LoanTypeOK
  BY DEF LoanInv
<1>2. QED
  BY <1>1, LoanInvariant, PTL

-----------------------------------------------------------------------------
(* The ledger.  It is stated for the movies m and the history h of a batch  *)
(* under way: balanced before a step, it is balanced after.                *)
EventsIn(h, n) == {i \in since[n].at + 1 .. Len(h) : h[i].number = n}

HolderIn(h, n, i) ==
    LET earlier == {j \in EventsIn(h, n) : j < i}
        last == h[Max(earlier)]
    IN  IF earlier = {} THEN since[n].borrower
        ELSE IF last.action = "out" THEN last.borrower ELSE NoOne

Balances(m, h, n) ==
    /\ m[n].borrower = HolderIn(h, n, Len(h) + 1)
    /\ \A i \in EventsIn(h, n) :
          HolderIn(h, n, i) = IF h[i].action = "out" THEN NoOne ELSE h[i].borrower

RecordedBy(h) == \A n \in Present : since[n].at \in 0 .. Len(h)

\* The inductive invariant: the ledger is balanced, and each number was last
\* accounted for when the history was a part of what it is now.
LedgerInv == LoanInv /\ RecordedBy(history) /\ LedgerBalanced

LEMMA LedgerIsBalances ==
  LedgerBalanced <=> \A n \in Present : Balances(works, history, n)
BY DEF LedgerBalanced, Balances, HolderBefore, HolderIn, EventsOf, EventsIn

(* An event that is appended changes nothing for the events before it,      *)
LEMMA EarlierHolders ==
  ASSUME NEW h \in Seq(LoanEvent), NEW event \in LoanEvent, NEW n \in Present,
         since[n].at \in 0 .. Len(h), NEW i \in 1 .. Len(h) + 1
  PROVE  HolderIn(Append(h, event), n, i) = HolderIn(h, n, i)
<1> DEFINE g == Append(h, event)
           before == {j \in EventsIn(h, n) : j < i}
<1>1. /\ Len(h) \in Nat /\ Len(g) = Len(h) + 1
      /\ \A j \in 1 .. Len(h) : g[j] = h[j]
  OBVIOUS
<1> HIDE DEF g
<1>2. {j \in EventsIn(g, n) : j < i} = before
  <2>1. ASSUME NEW j \in EventsIn(g, n), j < i PROVE j \in before
    <3>1. j \in since[n].at + 1 .. Len(g) /\ g[j].number = n
      BY <2>1 DEF EventsIn
    <3>2. j \in 1 .. Len(h) /\ j \in since[n].at + 1 .. Len(h)
      BY <1>1, <2>1, <3>1
    <3>3. QED
      BY <1>1, <2>1, <3>1, <3>2 DEF EventsIn
  <2>2. ASSUME NEW j \in before PROVE j \in EventsIn(g, n) /\ j < i
    <3>1. j \in since[n].at + 1 .. Len(h) /\ h[j].number = n /\ j < i
      BY <2>2 DEF EventsIn
    <3>2. j \in 1 .. Len(h) /\ j \in since[n].at + 1 .. Len(g)
      BY <1>1, <3>1
    <3>3. QED
      BY <1>1, <3>1, <3>2 DEF EventsIn
  <2>3. QED
    BY <2>1, <2>2
<1>3. before # {} => Max(before) \in 1 .. Len(h)
  <2>1. ASSUME NEW j \in before PROVE j \in 1 .. Len(h)
    BY <1>1 DEF EventsIn
  <2>2. before \in SUBSET (0 .. Len(h))
    BY <2>1
  <2>3. before # {} => Max(before) \in before
    <3> HIDE DEF before
    <3>1. QED
      BY <1>1, <2>2, MaxMember
  <2>4. QED
    BY <2>1, <2>3
<1> HIDE DEF before
<1>4. before # {} => g[Max(before)] = h[Max(before)]
  BY <1>1, <1>3
<1>5. HolderIn(g, n, i) = HolderIn(h, n, i)
  BY <1>2, <1>4 DEF HolderIn, before
<1>6. QED
  BY <1>5 DEF g

(* nor for the other movies,                                               *)
LEMMA OtherMovieBalances ==
  ASSUME NEW h \in Seq(LoanEvent), NEW event \in LoanEvent, NEW n \in Present,
         since[n].at \in 0 .. Len(h), event.number # n,
         NEW m, NEW m2, m2[n].borrower = m[n].borrower, Balances(m, h, n)
  PROVE  Balances(m2, Append(h, event), n)
<1> DEFINE g == Append(h, event)
<1>1. /\ Len(h) \in Nat /\ Len(g) = Len(h) + 1 /\ g[Len(g)] = event
      /\ \A j \in 1 .. Len(h) : g[j] = h[j]
  OBVIOUS
<1>2. \A i \in 1 .. Len(h) + 1 : HolderIn(g, n, i) = HolderIn(h, n, i)
  BY EarlierHolders
<1> HIDE DEF g
<1>3. EventsIn(g, n) = EventsIn(h, n)
  <2>1. ASSUME NEW j \in EventsIn(g, n) PROVE j \in EventsIn(h, n)
    <3>1. j \in since[n].at + 1 .. Len(g) /\ g[j].number = n
      BY <2>1 DEF EventsIn
    <3>2. j # Len(g)
      BY <1>1, <3>1
    <3>3. j \in 1 .. Len(h) /\ j \in since[n].at + 1 .. Len(h)
      BY <1>1, <3>1, <3>2
    <3>4. QED
      BY <1>1, <3>1, <3>3 DEF EventsIn
  <2>2. ASSUME NEW j \in EventsIn(h, n) PROVE j \in EventsIn(g, n)
    <3>1. j \in since[n].at + 1 .. Len(h) /\ h[j].number = n
      BY <2>2 DEF EventsIn
    <3>2. j \in 1 .. Len(h) /\ j \in since[n].at + 1 .. Len(g)
      BY <1>1, <3>1
    <3>3. QED
      BY <1>1, <3>1, <3>2 DEF EventsIn
  <2>3. QED
    BY <2>1, <2>2
<1>4. ASSUME NEW i \in EventsIn(h, n)
      PROVE  /\ i \in 1 .. Len(h) /\ i \in 1 .. Len(h) + 1
             /\ g[i] = h[i]
  <2>1. i \in since[n].at + 1 .. Len(h)
    BY DEF EventsIn
  <2>2. i \in 1 .. Len(h) /\ i \in 1 .. Len(h) + 1
    BY <1>1, <2>1
  <2>3. QED
    BY <1>1, <2>2
<1>5. HolderIn(g, n, Len(g) + 1) = HolderIn(h, n, Len(h) + 1)
  <2>1. {j \in EventsIn(g, n) : j < Len(g) + 1} = {j \in EventsIn(h, n) : j < Len(h) + 1}
    <3>1. \A j \in EventsIn(h, n) : j < Len(h) + 1 /\ j < Len(g) + 1
      BY <1>1, <1>4
    <3>2. QED
      BY <1>3, <3>1
  <2>2. {j \in EventsIn(h, n) : j < Len(h) + 1} = {j \in EventsIn(g, n) : j < Len(h) + 1}
    BY <1>3
  <2>3. HolderIn(g, n, Len(g) + 1) = HolderIn(g, n, Len(h) + 1)
    BY <2>1, <2>2 DEF HolderIn
  <2>4. QED
    BY <1>1, <1>2, <2>3
<1>6. Balances(m2, g, n)
  BY <1>2, <1>3, <1>4, <1>5 DEF Balances
<1>7. QED
  BY <1>6 DEF g

(* and it moves its own movie between its borrower and nobody.             *)
LEMMA OwnMovieBalances ==
  ASSUME NEW h \in Seq(LoanEvent), NEW event \in LoanEvent, NEW n \in Present,
         since[n].at \in 0 .. Len(h), event.number = n,
         NEW m, NEW m2, Balances(m, h, n),
         m[n].borrower = IF event.action = "out" THEN NoOne ELSE event.borrower,
         m2[n].borrower = IF event.action = "out" THEN event.borrower ELSE NoOne
  PROVE  Balances(m2, Append(h, event), n)
<1> DEFINE g == Append(h, event)
<1>1. /\ Len(h) \in Nat /\ Len(g) = Len(h) + 1 /\ g[Len(g)] = event
      /\ \A j \in 1 .. Len(h) : g[j] = h[j]
  OBVIOUS
<1>2. \A i \in 1 .. Len(h) + 1 : HolderIn(g, n, i) = HolderIn(h, n, i)
  BY EarlierHolders
<1> HIDE DEF g
<1>3. EventsIn(g, n) = EventsIn(h, n) \cup {Len(g)}
  <2>1. ASSUME NEW j \in EventsIn(g, n), j # Len(g) PROVE j \in EventsIn(h, n)
    <3>1. j \in since[n].at + 1 .. Len(g) /\ g[j].number = n
      BY <2>1 DEF EventsIn
    <3>2. j \in 1 .. Len(h) /\ j \in since[n].at + 1 .. Len(h)
      BY <1>1, <2>1, <3>1
    <3>3. QED
      BY <1>1, <3>1, <3>2 DEF EventsIn
  <2>2. ASSUME NEW j \in EventsIn(h, n) PROVE j \in EventsIn(g, n)
    <3>1. j \in since[n].at + 1 .. Len(h) /\ h[j].number = n
      BY <2>2 DEF EventsIn
    <3>2. j \in 1 .. Len(h) /\ j \in since[n].at + 1 .. Len(g)
      BY <1>1, <3>1
    <3>3. QED
      BY <1>1, <3>1, <3>2 DEF EventsIn
  <2>3. Len(g) \in EventsIn(g, n)
    <3>1. Len(g) \in since[n].at + 1 .. Len(g)
      BY <1>1
    <3>2. QED
      BY <1>1, <3>1 DEF EventsIn
  <2>4. QED
    BY <2>1, <2>2, <2>3
<1>4. ASSUME NEW i \in EventsIn(h, n)
      PROVE  i \in 1 .. Len(h) /\ i \in 1 .. Len(h) + 1 /\ g[i] = h[i]
  <2>1. i \in since[n].at + 1 .. Len(h)
    BY DEF EventsIn
  <2>2. i \in 1 .. Len(h) /\ i \in 1 .. Len(h) + 1
    BY <1>1, <2>1
  <2>3. QED
    BY <1>1, <2>2
<1>5. HolderIn(g, n, Len(g) + 1) = IF event.action = "out" THEN event.borrower ELSE NoOne
  <2> DEFINE all == {j \in EventsIn(g, n) : j < Len(g) + 1}
  <2>1. \A j \in EventsIn(h, n) : j \in 0 .. Len(g) /\ j < Len(g)
    BY <1>1, <1>4
  <2>2. Len(g) \in all /\ \A j \in all : j <= Len(g) /\ j \in 0 .. Len(g)
    BY <1>1, <1>3, <2>1
  <2>3. Max(all) \in all /\ \A j \in all : j <= Max(all)
    <3>1. all \in SUBSET (0 .. Len(g)) /\ all # {} /\ Len(g) \in Nat
      BY <1>1, <2>2
    <3> HIDE DEF all
    <3>2. QED
      BY <3>1, MaxMember
  <2>4. Max(all) = Len(g) /\ all # {}
    <3>1. Max(all) \in 0 .. Len(g) /\ Len(g) <= Max(all) /\ Len(g) \in Nat /\ all # {}
      <4> HIDE DEF all
      <4>1. QED
        BY <1>1, <2>2, <2>3
    <3> HIDE DEF all
    <3>2. QED
      BY <3>1
  <2>5. HolderIn(g, n, Len(g) + 1) =
          IF all = {} THEN since[n].borrower
          ELSE IF g[Max(all)].action = "out" THEN g[Max(all)].borrower ELSE NoOne
    BY DEF HolderIn
  <2> HIDE DEF all
  <2>6. QED
    BY <1>1, <2>4, <2>5
<1>6. HolderIn(g, n, Len(g)) = m[n].borrower
  <2>1. Len(g) \in 1 .. Len(h) + 1
    BY <1>1
  <2>2. QED
    BY <1>1, <1>2, <2>1 DEF Balances
<1>7. \A i \in EventsIn(g, n) :
          HolderIn(g, n, i) = IF g[i].action = "out" THEN NoOne ELSE g[i].borrower
  <2>1. ASSUME NEW i \in EventsIn(h, n)
        PROVE  HolderIn(g, n, i) = IF g[i].action = "out" THEN NoOne ELSE g[i].borrower
    BY <1>2, <1>4 DEF Balances
  <2>2. QED
    BY <1>1, <1>3, <1>6, <2>1
<1>8. Balances(m2, g, n)
  BY <1>5, <1>7 DEF Balances
<1>9. QED
  BY <1>8 DEF g

(* The batches whose ledger is balanced.                                   *)
BalancedBatches ==
  {b \in Batches : RecordedBy(b.history) /\ \A n \in Present : Balances(b.works, b.history, n)}

\* The event moves its movie between its borrower and nobody.
MovesBy(b, event, c) ==
  LET n == event.number
  IN  /\ c.history = Append(b.history, event)
      /\ \A k \in Present \ {n} : c.works[k].borrower = b.works[k].borrower
      /\ b.works[n].borrower = IF event.action = "out" THEN NoOne ELSE event.borrower
      /\ c.works[n].borrower = IF event.action = "out" THEN event.borrower ELSE NoOne

LEMMA EventBalances ==
  ASSUME NEW b \in BalancedBatches, NEW event \in LoanEvent, event.number \in Present,
         NEW c \in Batches, MovesBy(b, event, c)
  PROVE  c \in BalancedBatches
<1>0. /\ c.history = Append(b.history, event)
      /\ \A k \in Present \ {event.number} : c.works[k].borrower = b.works[k].borrower
      /\ b.works[event.number].borrower = IF event.action = "out" THEN NoOne ELSE event.borrower
      /\ c.works[event.number].borrower = IF event.action = "out" THEN event.borrower ELSE NoOne
  BY DEF MovesBy
<1>1. b.history \in Seq(LoanEvent) /\ RecordedBy(b.history)
  BY DEF BalancedBatches, Batches
<1>2. \A k \in Present : since[k].at \in 0 .. Len(b.history) /\ Balances(b.works, b.history, k)
  BY DEF BalancedBatches, RecordedBy
<1>3. RecordedBy(c.history)
  <2>1. Len(b.history) \in Nat /\ Len(c.history) = Len(b.history) + 1
    BY <1>0, <1>1
  <2>2. \A k \in Present : since[k].at \in 0 .. Len(c.history)
    BY <1>2, <2>1
  <2>3. QED
    BY <2>2 DEF RecordedBy
<1>4. ASSUME NEW k \in Present PROVE Balances(c.works, c.history, k)
  <2>1. CASE k = event.number
    BY <1>0, <1>1, <1>2, <2>1, OwnMovieBalances
  <2>2. CASE k # event.number
    BY <1>0, <1>1, <1>2, <2>2, OtherMovieBalances
  <2>3. QED
    BY <2>1, <2>2
<1>5. QED
  BY <1>3, <1>4 DEF BalancedBatches

LEMMA CheckOutBalances ==
  ASSUME LoanInv, NEW borrower \in Borrowers, NEW b \in BalancedBatches, NEW n \in Present
  PROVE  CheckOutOne(b, n, borrower) \in BalancedBatches
<1> DEFINE current == b.works[n].borrower
           lent == [b EXCEPT !.works[n].borrower = borrower]
           event == [action |-> "out", number |-> n, borrower |-> borrower]
           c == CheckOutOne(b, n, borrower)
<1>1. b \in Batches /\ c \in Batches
  BY CheckOutTyped, LoanState DEF BalancedBatches
<1>2. b.works \in [Present -> Works] /\ b.works[n] \in Works
  BY <1>1 DEF Batches
<1>3. /\ lent.history = b.history
      /\ lent.works = [b.works EXCEPT ![n].borrower = borrower]
  BY <1>1 DEF Batches
<1>4. /\ lent.works[n].borrower = borrower
      /\ \A k \in Present \ {n} : lent.works[k].borrower = b.works[k].borrower
  BY <1>2, <1>3, WorksAssumption
<1>5. lent \in Batches
  BY <1>1, <1>2, WorksAssumption DEF Batches, Borrowers
<1> HIDE DEF lent
<1>6. CASE b.raised \/ (current # NoOne /\ current # borrower)
  <2>1. c = [b EXCEPT !.raised = TRUE]
    BY <1>6 DEF CheckOutOne, lent
  <2>2. c.works = b.works /\ c.history = b.history
    BY <1>1, <2>1 DEF Batches
  <2>3. QED
    BY <1>1, <2>2 DEF BalancedBatches
<1>7. CASE ~b.raised /\ current = borrower
  <2>1. c = lent
    BY <1>7 DEF CheckOutOne, lent, Borrowers
  <2>2. \A k \in Present : lent.works[k].borrower = b.works[k].borrower
    BY <1>4, <1>7
  <2>3. \A k \in Present : Balances(lent.works, lent.history, k)
    BY <1>3, <2>2 DEF BalancedBatches, Balances
  <2>4. QED
    BY <1>1, <1>3, <2>1, <2>3 DEF BalancedBatches
<1>8. CASE ~b.raised /\ current = NoOne
  <2>1. c = WithEvent(lent, "out", n, borrower)
    BY <1>8 DEF CheckOutOne, lent
  <2>2. c.works = lent.works /\ c.history = Append(b.history, event)
    BY <1>3, <1>5, <2>1 DEF WithEvent, Batches
  <2>3. event \in LoanEvent /\ event.number = n /\ event.action = "out" /\ event.borrower = borrower
    BY LoanState, NumberIsNatural DEF LoanEvent, Borrowers
  <2>4. MovesBy(b, event, c)
    <3> HIDE DEF c
    <3>1. QED
      BY <1>4, <1>8, <2>2, <2>3 DEF MovesBy
  <2> HIDE DEF c, event
  <2>5. c \in BalancedBatches
    BY <1>1, <2>3, <2>4, EventBalances
  <2>6. QED
    BY <2>5 DEF c
<1>9. QED
  BY <1>6, <1>7, <1>8

LEMMA CheckInBalances ==
  ASSUME LoanInv, NEW b \in BalancedBatches, NEW n \in Present
  PROVE  CheckInOne(b, n) \in BalancedBatches
<1> DEFINE current == b.works[n].borrower
           returned == [b EXCEPT !.works[n].borrower = NoOne]
           event == [action |-> "in", number |-> n, borrower |-> current]
           c == CheckInOne(b, n)
<1>0. NoOne \in Names
  BY NamesAssumption
<1>1. b \in Batches /\ c \in Batches
  BY <1>0, CheckInTyped, LoanState DEF BalancedBatches
<1>2. b.works \in [Present -> Works] /\ b.works[n] \in Works
  BY <1>1 DEF Batches
<1>3. /\ returned.history = b.history
      /\ returned.works = [b.works EXCEPT ![n].borrower = NoOne]
  BY <1>1 DEF Batches
<1>4. /\ returned.works[n].borrower = NoOne
      /\ \A k \in Present \ {n} : returned.works[k].borrower = b.works[k].borrower
  BY <1>2, <1>3, WorksAssumption
<1>5. returned \in Batches
  BY <1>0, <1>1, <1>2, WorksAssumption DEF Batches
<1> HIDE DEF returned
<1>6. CASE b.raised \/ current = NoOne
  <2>1. c = [b EXCEPT !.raised = TRUE]
    BY <1>6 DEF CheckInOne
  <2>2. c.works = b.works /\ c.history = b.history
    BY <1>1, <2>1 DEF Batches
  <2>3. QED
    BY <1>1, <2>2 DEF BalancedBatches
<1>7. CASE ~b.raised /\ current # NoOne
  <2>1. c = WithEvent(returned, "in", n, current)
    BY <1>7 DEF CheckInOne, returned
  <2>2. c.works = returned.works /\ c.history = Append(b.history, event)
    BY <1>3, <1>5, <2>1 DEF WithEvent, Batches
  <2>3. event \in LoanEvent /\ event.number = n /\ event.action = "in" /\ event.borrower = current
    BY <1>2, <1>7, LoanState, WorksAssumption, NumberIsNatural DEF LoanEvent
  <2>4. MovesBy(b, event, c)
    <3> HIDE DEF c
    <3>1. QED
      BY <1>4, <2>2, <2>3 DEF MovesBy
  <2> HIDE DEF c, event
  <2>5. c \in BalancedBatches
    BY <1>1, <2>3, <2>4, EventBalances
  <2>6. QED
    BY <2>5 DEF c
<1>8. QED
  BY <1>6, <1>7

LEMMA LedgerUntouched ==
  ASSUME LedgerInv, UNCHANGED <<movies, history, since>>, LoanInv'
  PROVE  LedgerInv'
<1>0. Present' = Present /\ works' = works
  BY DEF Present, NumbersOf, works
<1>1. LedgerBalanced'
  <2>1. \A n : EventsOf(n)' = EventsOf(n)
    BY DEF EventsOf
  <2>2. \A n, i : HolderBefore(n, i)' = HolderBefore(n, i)
    BY <2>1 DEF HolderBefore
  <2>3. QED
    BY <1>0, <2>1, <2>2 DEF LedgerInv, LedgerBalanced
<1>2. RecordedBy(history)'
  BY <1>0 DEF LedgerInv, RecordedBy
<1>3. QED
  BY <1>1, <1>2 DEF LedgerInv

LEMMA PersistBalanced ==
  ASSUME LedgerInv, NEW b \in BalancedBatches, Persist(b), LoanInv'
  PROVE  LedgerInv'
<1>1. CASE b.raised
  <2>1. UNCHANGED <<movies, history, since>>
    BY <1>1 DEF Persist, LoanRaises
  <2>2. QED
    BY <2>1, LedgerUntouched
<1>2. CASE ~b.raised
  <2>1. /\ Present' = Present /\ works' = b.works
        /\ history' = b.history /\ UNCHANGED since
    BY <1>2, Published DEF LedgerInv, BalancedBatches
  <2>2. RecordedBy(history)'
    BY <2>1 DEF RecordedBy, BalancedBatches
  <2>3. ASSUME NEW n \in Present PROVE Balances(works, history, n)'
    <3>1. Balances(b.works, b.history, n)
      BY DEF BalancedBatches
    <3>2. EventsIn(history, n)' = EventsIn(b.history, n)
      BY <2>1 DEF EventsIn
    <3>3. \A i : HolderIn(history, n, i)' = HolderIn(b.history, n, i)
      BY <2>1, <3>2 DEF HolderIn
    <3>4. QED
      BY <2>1, <3>1, <3>2, <3>3 DEF Balances
  <2>4. LedgerBalanced'
    BY <2>1, <2>3 DEF LedgerBalanced, Balances, HolderBefore, HolderIn, EventsOf, EventsIn
  <2>5. QED
    BY <2>2, <2>4 DEF LedgerInv
<1>3. QED
  BY <1>1, <1>2

(* Another call starts the account of a number anew, unless it leaves the  *)
(* history and the borrower.                                               *)
LEMMA RecordedBalanced ==
  ASSUME LedgerInv, Recorded, LoanInv'
  PROVE  LedgerInv'
<1>1. \A n \in Present' :
          since'[n] = IF n \in Present /\ history' = history /\ works'[n].borrower = works[n].borrower
                      THEN since[n]
                      ELSE [at |-> Len(history'), borrower |-> works'[n].borrower]
  BY DEF Recorded
<1>2. Len(history') \in Nat
  BY DEF LoanInv, LoanTypeOK
<1>3. ASSUME NEW n \in Present', n \in Present, history' = history,
             works'[n].borrower = works[n].borrower
      PROVE  since'[n].at \in 0 .. Len(history') /\ Balances(works, history, n)'
  <2>1. since'[n] = since[n]
    BY <1>1, <1>3
  <2>2. EventsIn(history, n)' = EventsIn(history, n)
    BY <1>3, <2>1 DEF EventsIn
  <2>3. \A i : HolderIn(history, n, i)' = HolderIn(history, n, i)
    BY <1>3, <2>1, <2>2 DEF HolderIn
  <2>4. Balances(works, history, n)
    BY <1>3, LedgerIsBalances DEF LedgerInv
  <2>5. since[n].at \in 0 .. Len(history)
    BY <1>3 DEF LedgerInv, RecordedBy
  <2>6. QED
    BY <1>3, <2>1, <2>2, <2>3, <2>4, <2>5 DEF Balances
<1>4. ASSUME NEW n \in Present', since'[n] = [at |-> Len(history'), borrower |-> works'[n].borrower]
      PROVE  since'[n].at \in 0 .. Len(history') /\ Balances(works, history, n)'
  <2>1. EventsIn(history, n)' = {}
    BY <1>2, <1>4 DEF EventsIn
  <2>2. \A i : HolderIn(history, n, i)' = works'[n].borrower
    BY <1>4, <2>1 DEF HolderIn
  <2>3. QED
    BY <1>2, <1>4, <2>1, <2>2 DEF Balances
<1>5. \A n \in Present' : since'[n].at \in 0 .. Len(history') /\ Balances(works, history, n)'
  BY <1>1, <1>3, <1>4
<1>6. RecordedBy(history)'
  BY <1>5 DEF RecordedBy
<1>7. LedgerBalanced'
  BY <1>5 DEF LedgerBalanced, Balances, HolderBefore, HolderIn, EventsOf, EventsIn
<1>8. QED
  BY <1>6, <1>7 DEF LedgerInv

LEMMA BatchBalanced == LedgerInv => Batch \in BalancedBatches
BY BatchTyped, LedgerIsBalances DEF LedgerInv, BalancedBatches, Batch

LEMMA LedgerStep == LedgerInv /\ LoanInv' /\ [LoanNext]_loanVars => LedgerInv'
<1> SUFFICES ASSUME LedgerInv, LoanInv', [LoanNext]_loanVars PROVE LedgerInv'
  OBVIOUS
<1>0. LoanInv
  BY DEF LedgerInv
<1>1. ASSUME NEW list \in Seq(Present), NEW borrower \in Borrowers, Persist(LentBatch(list, borrower))
      PROVE  LedgerInv'
  <2>1. \A b \in Batches, n \in Present :
            b \in BalancedBatches => CheckOutOne(b, n, borrower) \in BalancedBatches
    BY <1>0, CheckOutBalances
  <2>2. LentBatch(list, borrower) \in BalancedBatches
    BY <1>0, <2>1, BatchBalanced, LendingKeeps
  <2>3. QED
    BY <1>1, <2>2, PersistBalanced
<1>2. ASSUME NEW list \in Seq(Present), Persist(ReturnedBatch(list)) PROVE LedgerInv'
  <2>1. \A b \in Batches, n \in Present :
            b \in BalancedBatches => CheckInOne(b, n) \in BalancedBatches
    BY <1>0, CheckInBalances
  <2>2. ReturnedBatch(list) \in BalancedBatches
    BY <1>0, <2>1, BatchBalanced, ReturningKeeps
  <2>3. QED
    BY <1>2, <2>2, PersistBalanced
<1>3. ASSUME NEW name \in Names, AddBorrower(name) \/ RemoveBorrower(name) PROVE LedgerInv'
  <2>1. UNCHANGED <<movies, history, since>>
    BY <1>3 DEF AddBorrower, RemoveBorrower, LoanRaises
  <2>2. QED
    BY <2>1, LedgerUntouched
<1>4. CASE UNCHANGED <<movies, history, managed, keys, since>>
  BY <1>4, LedgerUntouched
<1>5. CASE OtherCall
  BY <1>5, RecordedBalanced DEF OtherCall
<1>6. QED
  BY <1>0, <1>1, <1>2, <1>3, <1>4, <1>5, Steps

LEMMA LedgerStart == LoanInit /\ LoanInv => LedgerInv
<1> SUFFICES ASSUME LoanInit, LoanInv PROVE LedgerInv
  OBVIOUS
<1>1. since = [n \in Present |-> [at |-> Len(history), borrower |-> works[n].borrower]]
  BY DEF LoanInit
<1>2. Len(history) \in Nat
  BY LoanState
<1>3. \A n \in Present : EventsOf(n) = {}
  BY <1>1, <1>2 DEF EventsOf
<1>4. \A n \in Present : \A i : HolderBefore(n, i) = works[n].borrower
  BY <1>1, <1>3 DEF HolderBefore
<1>5. LedgerBalanced
  BY <1>3, <1>4 DEF LedgerBalanced
<1>6. RecordedBy(history)
  BY <1>1, <1>2 DEF RecordedBy
<1>7. QED
  BY <1>5, <1>6 DEF LedgerInv

(* The history accounts for what the loan calls do, whatever the other      *)
(* calls do in between.                                                    *)
THEOREM LedgerAlwaysBalanced == LoanSpec => []LedgerBalanced
<1>1. LoanInit /\ LoanInv => LedgerInv
  BY LedgerStart
<1>2. LedgerInv => LedgerBalanced
  BY DEF LedgerInv
<1>3. QED
  BY <1>1, <1>2, LedgerStep, LoanInvariant, PTL DEF LoanSpec

-----------------------------------------------------------------------------
(* A check-out moves its whole group.                                      *)

\* The batch b when the movies in done are through.
LentSoFar(b, done, borrower) ==
  LET free == {n \in done : ~OnLoan(works[n])}
  IN  /\ b.raised <=> \E n \in done : works[n].borrower \notin {NoOne, borrower}
      /\ ~b.raised =>
           /\ b.works = [n \in Present |->
                 IF n \in done THEN [works[n] EXCEPT !.borrower = borrower] ELSE works[n]]
           /\ Len(history) <= Len(b.history)
           /\ \A i \in 1 .. Len(history) : b.history[i] = history[i]
           /\ {b.history[i].number : i \in Len(history) + 1 .. Len(b.history)} = free
           /\ Len(b.history) = Len(history) + Cardinality(free)

LEMMA NothingLent ==
  ASSUME LoanInv, NEW borrower
  PROVE  LentSoFar(Batch, {}, borrower)
<1>1. Batch.works = works /\ Batch.history = history /\ Batch.raised = FALSE
  BY DEF Batch
<1>2. history \in Seq(LoanEvent) /\ Len(history) \in Nat
  BY LoanState
<1>3. works = [n \in Present |-> works[n]]
  BY LoanState
<1>4. {n \in {} : ~OnLoan(works[n])} = {} /\ Cardinality({}) = 0
  BY FS_EmptySet
<1>5. {history[i].number : i \in Len(history) + 1 .. Len(history)} = {}
  BY <1>2
<1>6. QED
  BY <1>1, <1>2, <1>3, <1>4, <1>5 DEF LentSoFar

LEMMA FinitelyFree ==
  ASSUME LoanInv, NEW done \in SUBSET Present
  PROVE  IsFiniteSet({n \in done : ~OnLoan(works[n])})
<1>1. IsFiniteSet(Numbers)
  BY BoundsAssumption, FS_Interval DEF Numbers
<1>2. {n \in done : ~OnLoan(works[n])} \subseteq Numbers
  BY LoanState
<1>3. QED
  BY <1>1, <1>2, FS_Subset

LEMMA OneMoreLent ==
  ASSUME LoanInv, NEW borrower \in Borrowers, NEW b \in Batches,
         NEW done \in SUBSET Present, NEW n \in Present \ done,
         LentSoFar(b, done, borrower)
  PROVE  LentSoFar(CheckOutOne(b, n, borrower), done \cup {n}, borrower)
<1> DEFINE current == b.works[n].borrower
           lent == [b EXCEPT !.works[n].borrower = borrower]
           event == [action |-> "out", number |-> n, borrower |-> borrower]
           c == CheckOutOne(b, n, borrower)
           free == {k \in done : ~OnLoan(works[k])}
           more == {k \in done \cup {n} : ~OnLoan(works[k])}
<1>1. /\ b.works \in [Present -> Works] /\ b.history \in Seq(LoanEvent) /\ b.raised \in BOOLEAN
      /\ Len(b.history) \in Nat
  BY DEF Batches
<1>2. /\ lent.history = b.history /\ lent.raised = b.raised
      /\ lent.works = [b.works EXCEPT ![n].borrower = borrower]
      /\ lent \in Batches
  <2>1. b.works[n] \in Works /\ borrower \in Names
    BY <1>1 DEF Borrowers
  <2>2. [b.works[n] EXCEPT !.borrower = borrower] \in Works
    BY <2>1, WorkLent
  <2>3. QED
    BY <1>1, <2>2 DEF Batches
<1>3. history \in Seq(LoanEvent) /\ Len(history) \in Nat /\ works \in [Present -> Works]
  BY LoanState
<1>4. b.raised <=> \E k \in done : works[k].borrower \notin {NoOne, borrower}
  BY DEF LentSoFar
<1>5. ASSUME ~b.raised
      PROVE  /\ b.works = [k \in Present |->
                   IF k \in done THEN [works[k] EXCEPT !.borrower = borrower] ELSE works[k]]
             /\ Len(history) <= Len(b.history)
             /\ \A i \in 1 .. Len(history) : b.history[i] = history[i]
             /\ {b.history[i].number : i \in Len(history) + 1 .. Len(b.history)} = free
             /\ Len(b.history) = Len(history) + Cardinality(free)
             /\ current = works[n].borrower
  BY <1>5 DEF LentSoFar
<1>6. ASSUME ~b.raised
      PROVE  lent.works = [k \in Present |->
                IF k \in done \cup {n} THEN [works[k] EXCEPT !.borrower = borrower] ELSE works[k]]
  <2>1. b.works[n] = works[n]
    BY <1>3, <1>5, <1>6
  <2>2. \A k \in Present :
            lent.works[k] = IF k = n THEN [works[n] EXCEPT !.borrower = borrower]
                                      ELSE b.works[k]
    BY <1>1, <1>2, <2>1
  <2>3. lent.works \in [Present -> Works]
    BY <1>2 DEF Batches
  <2>4. \A k \in Present :
            lent.works[k] = IF k \in done \cup {n} THEN [works[k] EXCEPT !.borrower = borrower]
                                                     ELSE works[k]
    BY <1>5, <1>6, <2>2
  <2>5. QED
    BY <2>3, <2>4
<1> HIDE DEF lent
<1>7. CASE b.raised \/ (current # NoOne /\ current # borrower)
  <2>1. c.raised = TRUE
    BY <1>1, <1>7 DEF CheckOutOne, Batches
  <2>2. \E k \in done \cup {n} : works[k].borrower \notin {NoOne, borrower}
    BY <1>4, <1>5, <1>7
  <2> HIDE DEF c
  <2>3. LentSoFar(c, done \cup {n}, borrower)
    BY <2>1, <2>2 DEF LentSoFar
  <2>4. QED
    BY <2>3 DEF c
<1>8. CASE ~b.raised /\ current = borrower
  <2>1. c = lent
    BY <1>8 DEF CheckOutOne, lent, Borrowers
  <2>2. more = free
    BY <1>5, <1>8 DEF OnLoan, Borrowers
  <2>3. ~ \E k \in done \cup {n} : works[k].borrower \notin {NoOne, borrower}
    BY <1>4, <1>5, <1>8
  <2>4. /\ Len(history) <= Len(lent.history)
        /\ \A i \in 1 .. Len(history) : lent.history[i] = history[i]
        /\ {lent.history[i].number : i \in Len(history) + 1 .. Len(lent.history)} = more
        /\ Len(lent.history) = Len(history) + Cardinality(more)
    <3> HIDE DEF more, free
    <3>1. QED
      BY <1>2, <1>5, <1>8, <2>2
  <2>5. LentSoFar(lent, done \cup {n}, borrower)
    BY <1>2, <1>6, <1>8, <2>3, <2>4 DEF LentSoFar
  <2>6. QED
    BY <2>1, <2>5
<1>9. CASE ~b.raised /\ current = NoOne
  <2>1. c = WithEvent(lent, "out", n, borrower)
    BY <1>9 DEF CheckOutOne, lent
  <2>2. c.works = lent.works /\ c.history = Append(b.history, event) /\ c.raised = FALSE
    BY <1>2, <1>9, <2>1 DEF WithEvent, Batches
  <2>3. event.number = n /\ event \in LoanEvent
    BY LoanState, NumberIsNatural DEF LoanEvent, Borrowers
  <2> HIDE DEF c, event
  <2>4. /\ Len(c.history) = Len(b.history) + 1
        /\ c.history[Len(b.history) + 1] = event
        /\ \A i \in 1 .. Len(b.history) : c.history[i] = b.history[i]
    BY <1>1, <2>2, <2>3
  <2>5. more = free \cup {n} /\ n \notin free
    BY <1>5, <1>9 DEF OnLoan
  <2>6. Cardinality(more) = Cardinality(free) + 1 /\ Cardinality(free) \in Nat
    <3>1. IsFiniteSet(free)
      BY FinitelyFree
    <3> HIDE DEF free, more
    <3>2. QED
      BY <2>5, <3>1, FS_AddElement, FS_CardinalityType
  <2>7. ~ \E k \in done \cup {n} : works[k].borrower \notin {NoOne, borrower}
    BY <1>4, <1>5, <1>9
  <2>8. {c.history[i].number : i \in Len(history) + 1 .. Len(c.history)} = more
    <3>1. Len(history) + 1 .. Len(c.history) = (Len(history) + 1 .. Len(b.history)) \cup {Len(b.history) + 1}
      BY <1>1, <1>3, <1>5, <1>9, <2>4
    <3>2. \A i \in Len(history) + 1 .. Len(b.history) : c.history[i] = b.history[i]
      BY <1>1, <1>3, <2>4
    <3>3. {b.history[i].number : i \in Len(history) + 1 .. Len(b.history)} = free
      BY <1>5, <1>9
    <3> HIDE DEF free, more
    <3>4. QED
      BY <2>3, <2>4, <2>5, <3>1, <3>2, <3>3, SMTT(30)
  <2>9. /\ Len(history) <= Len(c.history)
        /\ \A i \in 1 .. Len(history) : c.history[i] = history[i]
        /\ Len(c.history) = Len(history) + Cardinality(more)
    <3>1. Len(history) <= Len(b.history) /\ Len(b.history) = Len(history) + Cardinality(free)
      BY <1>5, <1>9
    <3>2. \A i \in 1 .. Len(history) : i \in 1 .. Len(b.history) /\ b.history[i] = history[i]
      BY <1>1, <1>3, <1>5, <1>9
    <3> HIDE DEF free, more
    <3>3. QED
      BY <1>1, <1>3, <2>4, <2>6, <3>1, <3>2
  <2>10. LentSoFar(c, done \cup {n}, borrower)
    BY <1>6, <1>9, <2>2, <2>7, <2>8, <2>9 DEF LentSoFar
  <2>11. QED
    BY <2>10 DEF c
<1>10. QED
  BY <1>7, <1>8, <1>9

(* The whole loop, over distinct movies.                                   *)
LEMMA AllLent ==
  ASSUME LoanInv, NEW borrower \in Borrowers, NEW list \in Seq(Present), IsInjective(list)
  PROVE  LentSoFar(LentBatch(list, borrower), ToSet(list), borrower)
<1>1. PICK after : Lends(after, list, borrower) /\ LentBatch(list, borrower) = after[Len(list)]
  BY LendingLoop
<1> DEFINE Done(i) == {list[j] : j \in 1 .. i}
           Q == {i \in 0 .. Len(list) : LentSoFar(after[i], Done(i), borrower)}
<1>2. Len(list) \in Nat /\ DOMAIN list = 1 .. Len(list)
  OBVIOUS
<1>3. 0 \in Q
  <2>1. Done(0) = {}
    OBVIOUS
  <2>2. LentSoFar(after[0], {}, borrower)
    BY <1>1, NothingLent DEF Lends
  <2> HIDE DEF Done
  <2>3. LentSoFar(after[0], Done(0), borrower)
    BY <2>1, <2>2, Zenon
  <2>4. 0 \in 0 .. Len(list)
    BY <1>2
  <2>5. QED
    BY <2>3, <2>4
<1>4. ASSUME NEW i \in 1 .. Len(list), i - 1 \in Q PROVE i \in Q
  <2>1. i - 1 \in 0 .. Len(list) /\ i \in 0 .. Len(list) /\ LentSoFar(after[i - 1], Done(i - 1), borrower)
    BY <1>4
  <2>2. Done(i) = Done(i - 1) \cup {list[i]}
    <3>1. 1 .. i = (1 .. (i - 1)) \cup {i}
      OBVIOUS
    <3>2. QED
      BY <3>1
  <2>3. list[i] \notin Done(i - 1)
    BY <1>2 DEF IsInjective
  <2>4. list[i] \in Present /\ Done(i - 1) \in SUBSET Present
    OBVIOUS
  <2>5. after[i - 1] \in Batches /\ after[i] = CheckOutOne(after[i - 1], list[i], borrower)
    BY <1>1, <2>1 DEF Lends
  <2> HIDE DEF Done
  <2>6. LentSoFar(after[i], Done(i), borrower)
    BY <2>1, <2>2, <2>3, <2>4, <2>5, OneMoreLent
  <2>7. QED
    BY <2>1, <2>6
<1>5. Len(list) \in Q
  <2> HIDE DEF Q
  <2>1. \A i \in 0 .. Len(list) : i \in Q
    BY <1>2, <1>3, <1>4, LoopInduction
  <2>2. QED
    BY <1>2, <2>1
<1>6. Done(Len(list)) = ToSet(list)
  BY <1>2 DEF ToSet
<1>7. QED
  BY <1>1, <1>5, <1>6

(* A batch lends all of a group or none of it.                             *)
LEMMA WholeGroup == LoanInv => CheckOutMovesTheGroup
<1> SUFFICES ASSUME LoanInv,
                    NEW requested \in Requests, NEW name \in Names,
                    NEW byLabel \in BOOLEAN, NEW byNative \in BOOLEAN,
                    ToSet(requested) \subseteq Present, Strip[name] # NoOne
             PROVE  LendsGroup(requested, Strip[name], byLabel, byNative)
  BY DEF CheckOutMovesTheGroup
<1> DEFINE borrower == Strip[name]
           list == Expanded(requested, byLabel, byNative)
           group == Group(requested, byLabel, byNative)
           free == {n \in group : ~OnLoan(works[n])}
           b == LentBatch(list, borrower)
           events == SubSeq(b.history, Len(history) + 1, Len(b.history))
<1>1. borrower \in Borrowers
  BY NamesAssumption DEF Borrowers
<1>2. list \in Seq(Present) /\ IsInjective(list) /\ ToSet(list) = group
  BY ExpandedIsGroup
<1> HIDE DEF list, borrower, group
<1>3. LentSoFar(b, group, borrower) /\ b \in Batches
  BY <1>1, <1>2, AllLent, LentTyped
<1>4. history \in Seq(LoanEvent) /\ Len(history) \in Nat
  BY LoanState
<1> HIDE DEF b
<1>5. b.history \in Seq(LoanEvent) /\ Len(b.history) \in Nat
  BY <1>3 DEF Batches
<1>6. b.raised <=> \E n \in group : works[n].borrower \notin {NoOne, borrower}
  BY <1>3 DEF LentSoFar
<1>7. ASSUME ~b.raised
      PROVE  /\ b.works = [n \in Present |->
                  IF n \in group THEN [works[n] EXCEPT !.borrower = borrower] ELSE works[n]]
             /\ Len(history) <= Len(b.history)
             /\ \A i \in 1 .. Len(history) : b.history[i] = history[i]
             /\ {b.history[i].number : i \in Len(history) + 1 .. Len(b.history)} = free
             /\ Len(b.history) = Len(history) + Cardinality(free)
  BY <1>3, <1>7 DEF LentSoFar
<1>8. ASSUME ~b.raised PROVE IsPrefix(history, b.history)
  BY <1>4, <1>5, <1>7, <1>8 DEF IsPrefix
<1>9. ASSUME ~b.raised
      PROVE  /\ {events[i].number : i \in DOMAIN events} = free
             /\ Len(events) = Cardinality(free)
  <2> DEFINE more == Len(b.history) - Len(history)
  <2>1. more \in Nat /\ more = Cardinality(free)
    <3>1. IsFiniteSet(free)
      <4>1. group \in SUBSET Present
        BY <1>2 DEF ToSet
      <4>2. QED
        BY <4>1, FinitelyFree
    <3>2. Cardinality(free) \in Nat
      BY <3>1, FS_CardinalityType
    <3> HIDE DEF free
    <3>3. QED
      BY <1>4, <1>5, <1>7, <1>9, <3>2
  <2>2. /\ Len(events) = more /\ DOMAIN events = 1 .. more
        /\ \A i \in 1 .. more : events[i] = b.history[Len(history) + i]
    BY <1>4, <1>5, <1>7, <1>9
  <2>3. \A i \in 1 .. more : Len(history) + i \in Len(history) + 1 .. Len(b.history)
    BY <1>4, <1>5
  <2>4. \A i \in Len(history) + 1 .. Len(b.history) :
            i - Len(history) \in 1 .. more /\ Len(history) + (i - Len(history)) = i
    BY <1>4, <1>5
  <2> HIDE DEF events, free, more
  <2>5. {events[i].number : i \in DOMAIN events}
          = {b.history[i].number : i \in Len(history) + 1 .. Len(b.history)}
    <3>1. ASSUME NEW i \in 1 .. more
          PROVE  \E j \in Len(history) + 1 .. Len(b.history) : events[i].number = b.history[j].number
      BY <2>2, <2>3
    <3>2. ASSUME NEW j \in Len(history) + 1 .. Len(b.history)
          PROVE  \E i \in 1 .. more : events[i].number = b.history[j].number
      <4>1. j - Len(history) \in 1 .. more /\ events[j - Len(history)] = b.history[j]
        BY <2>2, <2>4
      <4>2. QED
        BY <4>1
    <3> DEFINE A == {events[i].number : i \in 1 .. more}
               B == {b.history[j].number : j \in Len(history) + 1 .. Len(b.history)}
    <3>3. A \subseteq B
      BY <3>1
    <3>4. B \subseteq A
      BY <3>2
    <3>5. A = {events[i].number : i \in DOMAIN events}
      BY <2>2
    <3> HIDE DEF A
    <3>6. QED
      BY <3>3, <3>4, <3>5
  <2>6. QED
    BY <1>7, <1>9, <2>1, <2>2, <2>5
<1>10. QED
  BY <1>6, <1>7, <1>8, <1>9 DEF LendsGroup, b, group, borrower, list, free, events

(* A check-out of any group either lends every movie of the group to the    *)
(* borrower, with one event for each that was not lent before, or raises,  *)
(* exactly when one of them is with somebody else.                         *)
THEOREM GroupAlwaysMoves == LoanSpec => []CheckOutMovesTheGroup
BY LoanInvariant, WholeGroup, PTL

-----------------------------------------------------------------------------
(* The managed borrowers: a new name is none of those listed, and a merge   *)
(* takes one list or the other.                                            *)
LEMMA AddBorrowerManaged ==
  ASSUME LoanInv, ManagedDistinct, NEW name \in Names, AddBorrower(name)
  PROVE  ManagedDistinct'
<1>1. CASE LoanRaises
  BY <1>1 DEF LoanRaises, ManagedDistinct, DistinctNames
<1>2. CASE ~LoanRaises
  <2> DEFINE n == Len(managed)
             stripped == Strip[name]
             Plain(k) == Fold[Strip[managed'[k]]]
  <2>1. managed' = Append(managed, stripped) /\ Fold[stripped] \notin Listed /\ stripped \in Borrowers
    BY <1>2, NamesAssumption DEF AddBorrower, Borrowers
  <2>2. managed \in Seq(Borrowers) /\ n \in Nat /\ DOMAIN managed = 1 .. n
    BY LoanState
  <2>3. /\ DOMAIN managed' = 1 .. n + 1 /\ managed'[n + 1] = stripped
        /\ \A i \in 1 .. n : managed'[i] = managed[i]
    BY <2>1, <2>2
  <2>4. \A i \in 1 .. n : Plain(i) \in Listed
    BY <2>2, <2>3 DEF Listed, ToSet
  <2>5. Plain(n + 1) \notin Listed
    <3>1. Strip[stripped] = stripped
      BY NamesAssumption
    <3>2. QED
      BY <2>1, <2>3, <3>1
  <2>6. \A i \in 1 .. n + 1 : i \in 1 .. n \/ i = n + 1
    BY <2>2
  <2>7. ASSUME NEW i \in 1 .. n, NEW j \in 1 .. n, Plain(i) = Plain(j) PROVE i = j
    BY <2>2, <2>3, <2>7 DEF ManagedDistinct, DistinctNames
  <2> HIDE DEF n, stripped, Plain
  <2>8. ASSUME NEW i \in 1 .. n + 1, NEW j \in 1 .. n + 1, Plain(i) = Plain(j) PROVE i = j
    BY <2>4, <2>5, <2>6, <2>7, <2>8
  <2>9. QED
    BY <2>3, <2>8 DEF ManagedDistinct, DistinctNames, Plain
<1>3. QED
  BY <1>1, <1>2

LEMMA RemoveBorrowerManaged ==
  ASSUME LoanInv, ManagedDistinct, NEW name \in Names, RemoveBorrower(name)
  PROVE  ManagedDistinct'
<1>1. CASE LoanRaises
  BY <1>1 DEF LoanRaises, ManagedDistinct, DistinctNames
<1>2. CASE ~LoanRaises
  <2>1. PICK S : managed' = Kept(managed, S)
    BY <1>2 DEF RemoveBorrower
  <2>2. managed \in Seq(Borrowers) /\ DOMAIN managed = 1 .. Len(managed) /\ Len(managed) \in Nat
    BY LoanState
  <2>3. PICK e : Embeds(e, managed, S)
    BY <2>2, KeptEmbeds
  <2> DEFINE m == Len(Kept(managed, S))
  <2>4. Kept(managed, S) \in Seq(Borrowers) /\ m \in Nat /\ DOMAIN Kept(managed, S) = 1 .. m
    BY <2>2, KeptIsList
  <2>5. /\ e \in [1 .. m -> 1 .. Len(managed)]
        /\ \A j, k \in 1 .. m : j < k => e[j] < e[k]
        /\ \A k \in 1 .. m : Kept(managed, S)[k] = managed[e[k]]
    BY <2>3 DEF Embeds
  <2> HIDE DEF m
  <2>6. DOMAIN managed' = 1 .. m /\ \A k \in 1 .. m : managed'[k] = managed[e[k]]
    BY <2>1, <2>4, <2>5
  <2>7. \A k \in 1 .. m : e[k] \in DOMAIN managed
    BY <2>2, <2>5
  <2>8. ASSUME NEW i \in 1 .. m, NEW j \in 1 .. m,
               Fold[Strip[managed'[i]]] = Fold[Strip[managed'[j]]]
        PROVE  i = j
    <3>1. e[i] = e[j]
      BY <2>6, <2>7, <2>8 DEF ManagedDistinct, DistinctNames
    <3>2. e[i] \in 1 .. Len(managed) /\ e[j] \in 1 .. Len(managed)
      BY <2>5
    <3>3. QED
      BY <2>2, <2>4, <2>5, <3>1, <3>2
  <2>9. QED
    BY <2>6, <2>8 DEF ManagedDistinct, DistinctNames
<1>3. QED
  BY <1>1, <1>2

LEMMA ManagedStep == LoanInv /\ ManagedDistinct /\ [LoanNext]_loanVars => ManagedDistinct'
<1> SUFFICES ASSUME LoanInv, ManagedDistinct, [LoanNext]_loanVars PROVE ManagedDistinct'
  OBVIOUS
<1>1. UNCHANGED managed => ManagedDistinct'
  BY DEF ManagedDistinct, DistinctNames
<1>2. \A b : Persist(b) => UNCHANGED managed
  BY DEF Persist, LoanRaises
<1>3. OtherCall => ManagedDistinct'
  BY DEF OtherCall, ManagedDistinct, DistinctNames
<1>4. QED
  BY <1>1, <1>2, <1>3, Steps, AddBorrowerManaged, RemoveBorrowerManaged

(* The managed names are distinct.                                         *)
THEOREM ManagedAlwaysDistinct == LoanSpec => []ManagedDistinct
<1>1. LoanInit => ManagedDistinct
  BY ArchiveTyped DEF LoanInit, ManagedDistinct
<1>2. QED
  BY <1>1, ManagedStep, LoanInvariant, PTL DEF LoanSpec


=============================================================================
