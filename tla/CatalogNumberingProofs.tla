---------------------- MODULE CatalogNumberingProofs ----------------------
(***************************************************************************)
(* Proofs about CatalogNumbering, for any works, rows and bounds.          *)
(*                                                                         *)
(* Every loop that builds a catalog hands out numbers that are positive    *)
(* and new, so what it has built is a catalog after each of its steps.     *)
(***************************************************************************)
EXTENDS CatalogNumbering, LoopTheorems, FiniteSetTheorems

\* A movie, of a catalog or of the row of a file.
Row == [number : Nat, work : Works]

Distinct(list) == \A i, j \in DOMAIN list : list[i].number = list[j].number => i = j

\* A list of movies with numbers of their own.
Catalogs == {list \in Seq(Row) : 0 \notin NumbersOf(list) /\ Distinct(list)}

LEMMA CatalogItems ==
  ASSUME NEW list \in Catalogs
  PROVE  /\ list \in Seq(Row) /\ Len(list) \in Nat /\ DOMAIN list = 1 .. Len(list)
         /\ \A i \in 1 .. Len(list) : list[i] \in Row /\ list[i].number \in Nat \ {0}
         /\ \A i, j \in 1 .. Len(list) : list[i].number = list[j].number => i = j
<1>1. list \in Seq(Row) /\ Len(list) \in Nat /\ DOMAIN list = 1 .. Len(list)
  BY DEF Catalogs
<1>2. \A i \in 1 .. Len(list) : list[i] \in Row
  BY <1>1
<1>3. \A i \in 1 .. Len(list) : list[i].number \in Nat \ {0}
  BY <1>1, <1>2 DEF Row, Catalogs, NumbersOf
<1>4. \A i, j \in 1 .. Len(list) : list[i].number = list[j].number => i = j
  BY <1>1 DEF Catalogs, Distinct
<1>5. QED
  BY <1>1, <1>2, <1>3, <1>4

LEMMA NumbersOfAppend ==
  ASSUME NEW list \in Seq(Row), NEW movie \in Row
  PROVE  NumbersOf(Append(list, movie)) = NumbersOf(list) \cup {movie.number}
<1> DEFINE n == Len(list)
           more == Append(list, movie)
<1>1. /\ n \in Nat /\ DOMAIN list = 1 .. n /\ DOMAIN more = 1 .. n + 1
      /\ more[n + 1] = movie /\ \A i \in 1 .. n : more[i] = list[i]
  OBVIOUS
<1> HIDE DEF n, more
<1>2. \A i \in 1 .. n + 1 : i \in 1 .. n \/ i = n + 1
  BY <1>1
<1>3. \A i \in 1 .. n : i \in 1 .. n + 1
  BY <1>1
<1>4. n + 1 \in 1 .. n + 1
  BY <1>1
<1>5. NumbersOf(more) = NumbersOf(list) \cup {movie.number}
  BY <1>1, <1>2, <1>3, <1>4 DEF NumbersOf
<1>6. QED
  BY <1>5 DEF more

LEMMA EmptyCatalog == <<>> \in Catalogs /\ NumbersOf(<<>>) = {}
BY DEF Catalogs, NumbersOf, Distinct

(* The numbers of a list have a bound,                                     *)
LEMMA NumbersBounded ==
  ASSUME NEW list \in Seq(Row)
  PROVE  \E b \in Nat : NumbersOf(list) \subseteq 0 .. b
<1> DEFINE P == {s \in Seq(Row) : \E b \in Nat : NumbersOf(s) \subseteq 0 .. b}
<1>1. <<>> \in P
  <2>1. <<>> \in Seq(Row) /\ NumbersOf(<<>>) \subseteq 0 .. 0 /\ 0 \in Nat
    BY EmptyCatalog
  <2>2. QED
    BY <2>1
<1>2. ASSUME NEW s \in Seq(Row), NEW x \in Row, s \in P PROVE Append(s, x) \in P
  <2>1. PICK b \in Nat : NumbersOf(s) \subseteq 0 .. b
    BY <1>2
  <2>2. x.number \in Nat
    BY DEF Row
  <2>3. PICK c \in Nat : b <= c /\ x.number <= c
    <3>1. b + x.number \in Nat /\ b <= b + x.number /\ x.number <= b + x.number
      BY <2>2
    <3>2. QED
      BY <3>1
  <2>4. NumbersOf(Append(s, x)) \subseteq 0 .. c
    <3>1. 0 .. b \subseteq 0 .. c /\ x.number \in 0 .. c
      BY <2>2, <2>3
    <3>2. QED
      BY <2>1, <3>1, NumbersOfAppend
  <2>5. Append(s, x) \in Seq(Row)
    OBVIOUS
  <2>6. QED
    BY <2>4, <2>5
<1>3. list \in P
  <2> HIDE DEF P
  <2>1. \A s \in Seq(Row) : s \in P
    BY <1>1, <1>2, ListInduction
  <2>2. QED
    BY <2>1
<1>4. QED
  BY <1>3

(* which a fresh number is past.                                           *)
LEMMA FreshIsNew ==
  ASSUME NEW b \in Nat, NEW used \in SUBSET (0 .. b)
  PROVE  /\ Fresh(used) \in Nat \ {0}
         /\ \A n \in used : n < Fresh(used)
         /\ Fresh(used) \notin used
<1>1. CASE used = {}
  BY <1>1 DEF Fresh
<1>2. CASE used # {}
  <2>1. Max(used) \in used /\ \A n \in used : n <= Max(used)
    BY <1>2, MaxMember
  <2>2. Fresh(used) = Max(used) + 1
    BY <1>2 DEF Fresh
  <2>3. \A n \in used : n \in Nat
    OBVIOUS
  <2>4. Max(used) \in Nat
    BY <2>1, <2>3
  <2>5. QED
    BY <2>1, <2>2, <2>3, <2>4
<1>3. QED
  BY <1>1, <1>2

LEMMA AppendCatalog ==
  ASSUME NEW list \in Catalogs, NEW movie \in Row,
         movie.number # 0, movie.number \notin NumbersOf(list)
  PROVE  Append(list, movie) \in Catalogs
<1> DEFINE n == Len(list)
           more == Append(list, movie)
<1>1. /\ n \in Nat /\ DOMAIN list = 1 .. n /\ DOMAIN more = 1 .. n + 1
      /\ more[n + 1] = movie /\ \A i \in 1 .. n : more[i] = list[i]
      /\ more \in Seq(Row)
  BY CatalogItems
<1>2. \A i, j \in 1 .. n : list[i].number = list[j].number => i = j
  BY CatalogItems
<1>3. \A i \in 1 .. n : list[i].number # movie.number
  BY <1>1 DEF NumbersOf
<1>4. 0 \notin NumbersOf(more)
  BY NumbersOfAppend DEF Catalogs
<1> HIDE DEF n, more
<1>5. \A i \in 1 .. n + 1 : i \in 1 .. n \/ i = n + 1
  BY <1>1
<1>6. Distinct(more)
  <2>1. ASSUME NEW i \in 1 .. n + 1, NEW j \in 1 .. n + 1, more[i].number = more[j].number
        PROVE  i = j
    <3>1. CASE i \in 1 .. n /\ j \in 1 .. n
      BY <1>1, <1>2, <2>1, <3>1
    <3>2. CASE i = n + 1 \/ j = n + 1
      BY <1>1, <1>3, <1>5, <2>1, <3>2
    <3>3. QED
      BY <1>5, <3>1, <3>2
  <2>2. QED
    BY <1>1, <2>1 DEF Distinct
<1>7. more \in Catalogs
  BY <1>1, <1>4, <1>6 DEF Catalogs
<1>8. QED
  BY <1>7 DEF more

LEMMA NumberedRow ==
  ASSUME NEW movie \in Row, NEW n \in Nat
  PROVE  /\ Numbered(movie, n) \in Row
         /\ Numbered(movie, n).number = n
         /\ Numbered(movie, n).work = movie.work
         /\ Numbered(movie, movie.number) = movie
BY DEF Numbered, Row

(* Catalog.add hands out a number that is new.                             *)
LEMMA AddOneCatalog ==
  ASSUME NEW list \in Catalogs, NEW movie \in Row, NEW renumber \in BOOLEAN
  PROVE  AddOne(list, movie, renumber) \in Catalogs
<1>1. PICK b \in Nat : NumbersOf(list) \subseteq 0 .. b
  BY CatalogItems, NumbersBounded
<1> DEFINE used == NumbersOf(list)
<1>2. Fresh(used) \in Nat \ {0} /\ Fresh(used) \notin used
  BY <1>1, FreshIsNew
<1>3. Numbered(movie, Fresh(used)) \in Row /\ Numbered(movie, Fresh(used)).number = Fresh(used)
  BY <1>2, NumberedRow
<1>4. Append(list, Numbered(movie, Fresh(used))) \in Catalogs
  BY <1>2, <1>3, AppendCatalog
<1>5. CASE renumber \/ movie.number <= 0 \/ movie.number \in used
  BY <1>4, <1>5 DEF AddOne
<1>6. CASE ~(renumber \/ movie.number <= 0 \/ movie.number \in used)
  <2>1. movie.number # 0
    BY <1>6 DEF Row
  <2>2. QED
    BY <1>6, <2>1, AppendCatalog DEF AddOne
<1>7. QED
  BY <1>5, <1>6

(* The catalog after each step of the loop of the constructor and of       *)
(* add_many.                                                               *)
Adds(after, base, rows, renumber) ==
  /\ after \in [0 .. Len(rows) -> Catalogs]
  /\ after[0] = base
  /\ \A i \in 1 .. Len(rows) : after[i] = AddOne(after[i - 1], rows[i], renumber)

LEMMA AddingLoop ==
  ASSUME NEW base \in Catalogs, NEW rows \in Seq(Row), NEW renumber \in BOOLEAN
  PROVE  \E after : Adds(after, base, rows, renumber) /\ Added(base, rows, renumber) = after[Len(rows)]
<1> DEFINE n == Len(rows)
           Step(i, list) == AddOne(list, rows[i], renumber)
           step == [p \in (1 .. n) \X Catalogs |-> Step(p[1], p[2])]
           Folds(iter) == iter = [s \in SUBSET (1 .. n) |->
                                    IF s = {} THEN base ELSE Step(Max(s), iter[s \ {Max(s)}])]
           iter == CHOOSE it : Folds(it)
<1>0. n \in Nat /\ DOMAIN rows = 1 .. n /\ \A i \in 1 .. n : rows[i] \in Row
  OBVIOUS
<1>1. \A i \in 1 .. n, list \in Catalogs : Step(i, list) \in Catalogs /\ step[<<i, list>>] = Step(i, list)
  BY <1>0, AddOneCatalog
<1>2. IsBody(n, Catalogs, base, step)
  BY <1>0, <1>1 DEF IsBody
<1>3. Added(base, rows, renumber) = iter[1 .. n]
  BY <1>0 DEF Added, FoldLeft, MapThenFoldSet
<1> HIDE DEF Step
<1>4. Folds(iter)
  <2>1. PICK it \in [SUBSET (1 .. n) -> Catalogs] : IsFold(it, n, Catalogs, base, step)
    BY <1>2, FoldExists
  <2>2. ASSUME NEW s \in SUBSET (1 .. n), s # {}
        PROVE  Max(s) \in 1 .. n /\ it[s \ {Max(s)}] \in Catalogs
    <3>1. s \in SUBSET (0 .. n)
      BY <1>0
    <3>2. Max(s) \in s
      BY <1>0, <2>2, <3>1, MaxMember
    <3>3. QED
      BY <3>2
  <2>3. Folds(it)
    <3> HIDE DEF n, step
    <3>1. \A s \in SUBSET (1 .. n) : s # {} => it[s] = Step(Max(s), it[s \ {Max(s)}])
      BY <1>1, <2>1, <2>2 DEF IsFold
    <3>2. it[{}] = base
      BY <2>1 DEF IsFold
    <3>3. QED
      BY <2>1, <3>1, <3>2
  <2> HIDE DEF Folds
  <2>4. QED
    BY <2>3
<1> HIDE DEF n, step, iter
<1>5. IsFold(iter, n, Catalogs, base, step)
  <2>1. ASSUME NEW s \in SUBSET (1 .. n), s # {}, iter[s \ {Max(s)}] \in Catalogs
        PROVE  iter[s] = step[<<Max(s), iter[s \ {Max(s)}]>>]
    <3>1. s \in SUBSET (0 .. n)
      BY <1>0
    <3>2. Max(s) \in 1 .. n
      BY <1>0, <2>1, <3>1, MaxMember
    <3>3. QED
      BY <1>1, <1>4, <2>1, <3>2
  <2>2. iter[{}] = base
    BY <1>4
  <2>3. QED
    BY <2>1, <2>2 DEF IsFold
<1>7. PICK after : IsLoop(after, n, Catalogs, base, step) /\ after[n] = iter[1 .. n]
  BY <1>2, <1>5, FoldIsLoop
<1>8. \A i \in 1 .. n : after[i] = Step(i, after[i - 1])
  <2>1. \A i \in 1 .. n : i - 1 \in 0 .. n
    BY <1>0
  <2>2. QED
    BY <1>1, <1>7, <2>1 DEF IsLoop
<1>9. QED
  BY <1>3, <1>7, <1>8 DEF n, Step, IsLoop, Adds

LEMMA AddedCatalog ==
  ASSUME NEW base \in Catalogs, NEW rows \in Seq(Row), NEW renumber \in BOOLEAN
  PROVE  Added(base, rows, renumber) \in Catalogs
<1>1. PICK after : Adds(after, base, rows, renumber) /\ Added(base, rows, renumber) = after[Len(rows)]
  BY AddingLoop
<1>2. Len(rows) \in 0 .. Len(rows)
  OBVIOUS
<1>3. QED
  BY <1>1, <1>2 DEF Adds

LEMMA CatalogOfRows ==
  ASSUME NEW rows \in Seq(Row)
  PROVE  CatalogOf(rows) \in Catalogs
BY EmptyCatalog, AddedCatalog DEF CatalogOf

-----------------------------------------------------------------------------
(* A catalog that goes through the constructor again comes out as it is.   *)
First(list, i) == [j \in 1 .. i |-> list[j]]

LEMMA FirstOfList ==
  ASSUME NEW T, NEW list \in Seq(T), NEW i \in 1 .. Len(list)
  PROVE  /\ First(list, i) = Append(First(list, i - 1), list[i])
         /\ First(list, i - 1) \in Seq(T) /\ First(list, i) \in Seq(T)
         /\ First(list, 0) = <<>> /\ list[i] \in T
<1>1. /\ First(list, i - 1) \in Seq(T) /\ Len(First(list, i - 1)) = i - 1 /\ list[i] \in T
      /\ First(list, i) \in Seq(T)
  BY DEF First
<1>2. First(list, i) = Append(First(list, i - 1), list[i])
  BY DEF First
<1>3. First(list, 0) = <<>>
  BY DEF First
<1>4. QED
  BY <1>1, <1>2, <1>3

LEMMA FirstAll ==
  ASSUME NEW T, NEW list \in Seq(T)
  PROVE  First(list, Len(list)) = list /\ First(list, 0) = <<>>
BY DEF First

(* The numbers of the first movies of a catalog are not those of the next. *)
LEMMA NextIsNew ==
  ASSUME NEW list \in Catalogs, NEW i \in 1 .. Len(list)
  PROVE  /\ list[i].number \notin NumbersOf(First(list, i - 1))
         /\ NumbersOf(First(list, i)) = NumbersOf(First(list, i - 1)) \cup {list[i].number}
<1>1. /\ First(list, i) = Append(First(list, i - 1), list[i])
      /\ First(list, i - 1) \in Seq(Row) /\ list[i] \in Row
  BY CatalogItems, FirstOfList
<1>2. NumbersOf(First(list, i)) = NumbersOf(First(list, i - 1)) \cup {list[i].number}
  BY <1>1, NumbersOfAppend
<1>3. ASSUME NEW j \in 1 .. (i - 1) PROVE list[j].number # list[i].number
  BY CatalogItems
<1>4. NumbersOf(First(list, i - 1)) = {list[j].number : j \in 1 .. (i - 1)}
  BY DEF NumbersOf, First
<1>5. QED
  BY <1>2, <1>3, <1>4

LEMMA CloneOfCatalog ==
  ASSUME NEW list \in Catalogs
  PROVE  CatalogOf(list) = list
<1>0. list \in Seq(Row) /\ Len(list) \in Nat
  BY CatalogItems
<1>1. PICK after : Adds(after, <<>>, list, FALSE) /\ Added(<<>>, list, FALSE) = after[Len(list)]
  BY <1>0, EmptyCatalog, AddingLoop
<1> DEFINE Q == {i \in 0 .. Len(list) : after[i] = First(list, i)}
<1>2. 0 \in Q
  BY <1>0, <1>1, FirstAll DEF Adds
<1>3. ASSUME NEW i \in 1 .. Len(list), i - 1 \in Q PROVE i \in Q
  <2>1. after[i - 1] = First(list, i - 1) /\ i \in 0 .. Len(list)
    BY <1>3
  <2>2. after[i] = AddOne(First(list, i - 1), list[i], FALSE)
    BY <1>1, <2>1 DEF Adds
  <2>3. list[i].number \in Nat \ {0} /\ list[i].number \notin NumbersOf(First(list, i - 1))
    BY CatalogItems, NextIsNew
  <2>4. after[i] = Append(First(list, i - 1), list[i])
    BY <2>2, <2>3 DEF AddOne
  <2>5. QED
    BY <1>0, <2>1, <2>4, FirstOfList
<1>4. Len(list) \in Q
  <2> HIDE DEF Q
  <2>1. \A i \in 0 .. Len(list) : i \in Q
    BY <1>0, <1>2, <1>3, LoopInduction
  <2>2. QED
    BY <1>0, <2>1
<1>5. QED
  BY <1>0, <1>1, <1>4, FirstAll DEF CatalogOf

-----------------------------------------------------------------------------
(* What is left of a catalog is one.                                       *)
Other(numbers) == {movie \in Row : movie.number \notin numbers}

LEMMA WithoutIsKept ==
  ASSUME NEW list \in Seq(Row), NEW numbers
  PROVE  Without(list, numbers) = Kept(list, Other(numbers))
<1> DEFINE S == {movie \in ToSet(list) : movie.number \notin numbers}
<1>1. ToSet(list) \subseteq Row
  BY DEF ToSet
<1>2. ToSet(list) \cap S = ToSet(list) \cap Other(numbers)
  BY <1>1 DEF Other
<1>3. Without(list, numbers) = Kept(list, S)
  BY DEF Without
<1> HIDE DEF S
<1>4. QED
  BY <1>2, <1>3, KeptSame

LEMMA NumbersOfSet ==
  ASSUME NEW list
  PROVE  NumbersOf(list) = {movie.number : movie \in ToSet(list)}
BY DEF NumbersOf, ToSet

LEMMA WithoutCatalog ==
  ASSUME NEW list \in Catalogs, NEW numbers
  PROVE  /\ Without(list, numbers) \in Catalogs
         /\ NumbersOf(Without(list, numbers)) = NumbersOf(list) \ numbers
<1> DEFINE S == Other(numbers)
           less == Kept(list, S)
           m == Len(less)
           n == Len(list)
<1>0. Without(list, numbers) = less
  BY CatalogItems, WithoutIsKept
<1>1. list \in Seq(Row) /\ n \in Nat /\ DOMAIN list = 1 .. n
  BY CatalogItems
<1>2. \A i, j \in 1 .. n : list[i].number = list[j].number => i = j
  BY CatalogItems
<1>3. less \in Seq(Row)
  BY <1>1, KeptIsList
<1>4. PICK e : Embeds(e, list, S)
  BY <1>1, KeptEmbeds
<1>5. /\ e \in [1 .. m -> 1 .. n]
      /\ \A j, k \in 1 .. m : j < k => e[j] < e[k]
      /\ \A k \in 1 .. m : less[k] = list[e[k]]
  BY <1>4 DEF Embeds
<1>6. ToSet(less) = ToSet(list) \cap S
  BY <1>1, KeptItems
<1> HIDE DEF less
<1>7. m \in Nat /\ DOMAIN less = 1 .. m
  BY <1>3
<1> HIDE DEF m, n, S
<1>8. Distinct(less)
  <2>1. ASSUME NEW j \in 1 .. m, NEW k \in 1 .. m, less[j].number = less[k].number
        PROVE  j = k
    <3>1. e[j] \in 1 .. n /\ e[k] \in 1 .. n /\ list[e[j]].number = list[e[k]].number
      BY <1>5, <2>1
    <3>2. e[j] = e[k]
      BY <1>2, <3>1
    <3>3. QED
      BY <1>1, <1>5, <1>7, <3>1, <3>2
  <2>2. QED
    BY <1>7, <2>1 DEF Distinct
<1>9. NumbersOf(less) = NumbersOf(list) \ numbers
  <2>1. ToSet(list) \subseteq Row
    BY <1>1 DEF ToSet
  <2>2. ToSet(less) = {movie \in ToSet(list) : movie.number \notin numbers}
    BY <1>6, <2>1 DEF S, Other
  <2>3. NumbersOf(less) = {movie.number : movie \in ToSet(less)}
    BY NumbersOfSet
  <2>4. NumbersOf(list) = {movie.number : movie \in ToSet(list)}
    BY NumbersOfSet
  <2>5. QED
    BY <2>2, <2>3, <2>4
<1>10. 0 \notin NumbersOf(less)
  BY <1>9 DEF Catalogs
<1>11. QED
  BY <1>0, <1>3, <1>8, <1>9, <1>10 DEF Catalogs

-----------------------------------------------------------------------------
(* The loop of merge.                                                      *)
Merges ==
  {m \in [list : Catalogs, used : SUBSET Nat, raised : BOOLEAN] :
      NumbersOf(m.list) \subseteq m.used /\ \E b \in Nat : m.used \subseteq 0 .. b}

LEMMA MergeTyped ==
  ASSUME NEW m \in Merges
  PROVE  /\ m \in [list : Catalogs, used : SUBSET Nat, raised : BOOLEAN]
         /\ m.list \in Catalogs /\ m.used \in SUBSET Nat /\ m.raised \in BOOLEAN
         /\ NumbersOf(m.list) \subseteq m.used
         /\ Fresh(m.used) \in Nat \ {0} /\ Fresh(m.used) \notin m.used
         /\ \A n \in m.used : n < Fresh(m.used)
<1>1. PICK b \in Nat : m.used \subseteq 0 .. b
  BY DEF Merges
<1>2. /\ Fresh(m.used) \in Nat \ {0} /\ Fresh(m.used) \notin m.used
      /\ \A n \in m.used : n < Fresh(m.used)
  BY <1>1, FreshIsNew
<1>3. QED
  BY <1>2 DEF Merges

LEMMA GrownTyped ==
  ASSUME NEW m \in Merges, NEW kept \in Catalogs, NEW movie \in Row, NEW number \in Nat \ {0},
         NumbersOf(kept) \subseteq m.used, number \notin NumbersOf(kept)
  PROVE  /\ Grown(m, kept, movie, number) \in Merges
         /\ Grown(m, kept, movie, number).list = Append(kept, Numbered(movie, number))
         /\ Grown(m, kept, movie, number).used = m.used \cup {number}
         /\ Grown(m, kept, movie, number).raised = m.raised
<1> DEFINE more == Grown(m, kept, movie, number)
           added == Numbered(movie, number)
<1>1. PICK b \in Nat : m.used \subseteq 0 .. b
  BY DEF Merges
<1>2. added \in Row /\ added.number = number
  BY NumberedRow
<1> HIDE DEF added
<1>3. Append(kept, added) \in Catalogs
  BY <1>2, AppendCatalog
<1>4. /\ more \in [list : Catalogs, used : SUBSET Nat, raised : BOOLEAN]
      /\ more.list = Append(kept, added) /\ more.used = m.used \cup {number}
      /\ more.raised = m.raised
  BY <1>3, MergeTyped DEF Grown, added
<1> HIDE DEF more
<1>5. NumbersOf(more.list) \subseteq more.used
  BY <1>2, <1>4, CatalogItems, NumbersOfAppend
<1>6. \E c \in Nat : more.used \subseteq 0 .. c
  <2>1. b + number \in Nat /\ \A n \in 0 .. b : n \in 0 .. b + number
    OBVIOUS
  <2>2. number \in 0 .. b + number
    OBVIOUS
  <2>3. QED
    BY <1>1, <1>4, <2>1, <2>2
<1>7. more \in Merges
  BY <1>4, <1>5, <1>6 DEF Merges
<1>8. QED
  BY <1>4, <1>7 DEF more, added

(* What one step makes of m, for a movie that has a number, as those of a   *)
(* catalog have.                                                           *)
Duplicate(m, movie) == movie.number \in m.used

LEMMA MergeRaises ==
  ASSUME NEW m \in Merges, NEW movie \in Row, movie.number # 0, NEW collision,
         m.raised \/ (Duplicate(m, movie) /\ collision = "error")
  PROVE  /\ MergeOne(m, movie, collision) \in Merges
         /\ MergeOne(m, movie, collision).raised = TRUE
<1>1. MergeOne(m, movie, collision) = [m EXCEPT !.raised = TRUE]
  BY DEF MergeOne, Duplicate, Row
<1>2. QED
  BY <1>1 DEF Merges

LEMMA MergeSkips ==
  ASSUME NEW m \in Merges, NEW movie \in Row, movie.number # 0,
         ~m.raised, Duplicate(m, movie)
  PROVE  MergeOne(m, movie, "skip") = m
BY DEF MergeOne, Duplicate, Row

LEMMA MergeReplaces ==
  ASSUME NEW m \in Merges, NEW movie \in Row, movie.number # 0,
         ~m.raised, Duplicate(m, movie)
  PROVE  /\ MergeOne(m, movie, "replace") \in Merges
         /\ MergeOne(m, movie, "replace").raised = FALSE
         /\ MergeOne(m, movie, "replace").used = m.used
         /\ MergeOne(m, movie, "replace").list = Append(Without(m.list, {movie.number}), movie)
<1> DEFINE kept == Without(m.list, {movie.number})
           next == Grown(m, kept, movie, movie.number)
<1>1. kept \in Catalogs /\ NumbersOf(kept) = NumbersOf(m.list) \ {movie.number}
  BY MergeTyped, WithoutCatalog
<1>2. Numbered(movie, movie.number) = movie /\ movie.number \in Nat \ {0}
  BY NumberedRow DEF Row
<1>3. MergeOne(m, movie, "replace") = next
  BY <1>2 DEF MergeOne, Duplicate
<1> HIDE DEF kept
<1>4. NumbersOf(kept) \subseteq m.used /\ movie.number \notin NumbersOf(kept)
  BY <1>1, MergeTyped
<1>5. m.used \cup {movie.number} = m.used /\ m.raised = FALSE
  BY MergeTyped DEF Duplicate
<1>6. /\ next \in Merges /\ next.raised = FALSE /\ next.used = m.used
      /\ next.list = Append(kept, movie)
  <2>1. /\ next \in Merges /\ next.raised = m.raised
        /\ next.used = m.used \cup {movie.number}
        /\ next.list = Append(kept, Numbered(movie, movie.number))
    BY <1>1, <1>2, <1>4, GrownTyped
  <2> HIDE DEF next
  <2>2. QED
    BY <1>2, <1>5, <2>1
<1>7. QED
  BY <1>3, <1>6 DEF kept

LEMMA MergeRenumbers ==
  ASSUME NEW m \in Merges, NEW movie \in Row, movie.number # 0,
         ~m.raised, Duplicate(m, movie), NEW collision, collision \notin {"error", "skip", "replace"}
  PROVE  /\ MergeOne(m, movie, collision) \in Merges
         /\ MergeOne(m, movie, collision).raised = FALSE
         /\ MergeOne(m, movie, collision).used = m.used \cup {Fresh(m.used)}
         /\ MergeOne(m, movie, collision).list = Append(m.list, Numbered(movie, Fresh(m.used)))
<1> DEFINE number == Fresh(m.used)
<1>1. /\ number \in Nat \ {0} /\ number \notin m.used /\ NumbersOf(m.list) \subseteq m.used
      /\ m.list \in Catalogs /\ m.raised = FALSE
  BY MergeTyped
<1>2. movie.number \in Nat \ {0}
  BY DEF Row
<1>3. MergeOne(m, movie, collision) = Grown(m, m.list, movie, number)
  BY <1>2 DEF MergeOne, Duplicate
<1> HIDE DEF number
<1>4. number \notin NumbersOf(m.list)
  BY <1>1
<1>5. QED
  BY <1>1, <1>3, <1>4, GrownTyped DEF number

LEMMA MergeAdds ==
  ASSUME NEW m \in Merges, NEW movie \in Row, movie.number # 0, NEW collision,
         ~m.raised, ~Duplicate(m, movie)
  PROVE  /\ MergeOne(m, movie, collision) \in Merges
         /\ MergeOne(m, movie, collision).raised = FALSE
         /\ MergeOne(m, movie, collision).used = m.used \cup {movie.number}
         /\ MergeOne(m, movie, collision).list = Append(m.list, movie)
<1>1. Numbered(movie, movie.number) = movie /\ movie.number \in Nat \ {0}
  BY NumberedRow DEF Row
<1>2. MergeOne(m, movie, collision) = Grown(m, m.list, movie, movie.number)
  BY <1>1 DEF MergeOne, Duplicate
<1>3. m.list \in Catalogs /\ NumbersOf(m.list) \subseteq m.used /\ m.raised = FALSE
      /\ movie.number \notin NumbersOf(m.list)
  BY MergeTyped DEF Duplicate
<1>4. QED
  BY <1>1, <1>2, <1>3, GrownTyped

LEMMA MergeOneTyped ==
  ASSUME NEW m \in Merges, NEW movie \in Row, movie.number # 0, NEW collision \in Policies
  PROVE  MergeOne(m, movie, collision) \in Merges
<1>1. CASE m.raised \/ (Duplicate(m, movie) /\ collision = "error")
  BY <1>1, MergeRaises
<1>2. CASE ~m.raised /\ ~Duplicate(m, movie)
  BY <1>2, MergeAdds
<1>3. CASE ~m.raised /\ Duplicate(m, movie) /\ collision = "skip"
  BY <1>3, MergeSkips
<1>4. CASE ~m.raised /\ Duplicate(m, movie) /\ collision = "replace"
  BY <1>4, MergeReplaces
<1>5. CASE ~m.raised /\ Duplicate(m, movie) /\ collision \notin {"error", "skip", "replace"}
  BY <1>5, MergeRenumbers
<1>6. QED
  BY <1>1, <1>2, <1>3, <1>4, <1>5

Started(list) == [list |-> list, used |-> NumbersOf(list), raised |-> FALSE]

LEMMA StartedTyped ==
  ASSUME NEW list \in Catalogs
  PROVE  Started(list) \in Merges
<1>1. PICK b \in Nat : NumbersOf(list) \subseteq 0 .. b
  BY CatalogItems, NumbersBounded
<1>2. NumbersOf(list) \in SUBSET Nat
  BY <1>1
<1>3. QED
  BY <1>1, <1>2 DEF Started, Merges

(* The merge after each of its steps.                                      *)
MergesRows(after, list, incoming, collision) ==
  /\ after \in [0 .. Len(incoming) -> Merges]
  /\ after[0] = Started(list)
  /\ \A i \in 1 .. Len(incoming) : after[i] = MergeOne(after[i - 1], incoming[i], collision)

LEMMA MergingLoop ==
  ASSUME NEW list \in Catalogs, NEW incoming \in Catalogs, NEW collision \in Policies
  PROVE  \E after : /\ MergesRows(after, list, incoming, collision)
                    /\ Merged(list, incoming, collision) = after[Len(incoming)]
<1> DEFINE n == Len(incoming)
           base == Started(list)
           Step(i, m) == MergeOne(m, incoming[i], collision)
           step == [p \in (1 .. n) \X Merges |-> Step(p[1], p[2])]
           Folds(iter) == iter = [s \in SUBSET (1 .. n) |->
                                    IF s = {} THEN base ELSE Step(Max(s), iter[s \ {Max(s)}])]
           iter == CHOOSE it : Folds(it)
<1>0. /\ n \in Nat /\ DOMAIN incoming = 1 .. n
      /\ \A i \in 1 .. n : incoming[i] \in Row /\ incoming[i].number # 0
  BY CatalogItems
<1>1. \A i \in 1 .. n, m \in Merges : Step(i, m) \in Merges /\ step[<<i, m>>] = Step(i, m)
  BY <1>0, MergeOneTyped
<1>2. IsBody(n, Merges, base, step)
  BY <1>0, <1>1, StartedTyped DEF IsBody
<1>3. Merged(list, incoming, collision) = iter[1 .. n]
  BY <1>0 DEF Merged, Started, FoldLeft, MapThenFoldSet
<1> HIDE DEF Step, base
<1>4. Folds(iter)
  <2>1. PICK it \in [SUBSET (1 .. n) -> Merges] : IsFold(it, n, Merges, base, step)
    BY <1>2, FoldExists
  <2>2. ASSUME NEW s \in SUBSET (1 .. n), s # {}
        PROVE  Max(s) \in 1 .. n /\ it[s \ {Max(s)}] \in Merges
    <3>1. s \in SUBSET (0 .. n)
      BY <1>0
    <3>2. Max(s) \in s
      BY <1>0, <2>2, <3>1, MaxMember
    <3>3. QED
      BY <3>2
  <2>3. Folds(it)
    <3> HIDE DEF n, step
    <3>1. \A s \in SUBSET (1 .. n) : s # {} => it[s] = Step(Max(s), it[s \ {Max(s)}])
      BY <1>1, <2>1, <2>2 DEF IsFold
    <3>2. it[{}] = base
      BY <2>1 DEF IsFold
    <3>3. QED
      BY <2>1, <3>1, <3>2
  <2> HIDE DEF Folds
  <2>4. QED
    BY <2>3
<1> HIDE DEF n, step, iter
<1>5. IsFold(iter, n, Merges, base, step)
  <2>1. ASSUME NEW s \in SUBSET (1 .. n), s # {}, iter[s \ {Max(s)}] \in Merges
        PROVE  iter[s] = step[<<Max(s), iter[s \ {Max(s)}]>>]
    <3>1. s \in SUBSET (0 .. n)
      BY <1>0
    <3>2. Max(s) \in 1 .. n
      BY <1>0, <2>1, <3>1, MaxMember
    <3>3. QED
      BY <1>1, <1>4, <2>1, <3>2
  <2>2. iter[{}] = base
    BY <1>4
  <2>3. QED
    BY <2>1, <2>2 DEF IsFold
<1>7. PICK after : IsLoop(after, n, Merges, base, step) /\ after[n] = iter[1 .. n]
  BY <1>2, <1>5, FoldIsLoop
<1>8. \A i \in 1 .. n : after[i] = Step(i, after[i - 1])
  <2>1. \A i \in 1 .. n : i - 1 \in 0 .. n
    BY <1>0
  <2>2. QED
    BY <1>1, <1>7, <2>1 DEF IsLoop
<1>9. QED
  BY <1>3, <1>7, <1>8 DEF n, Step, base, IsLoop, MergesRows

LEMMA MergedTyped ==
  ASSUME NEW list \in Catalogs, NEW incoming \in Catalogs, NEW collision \in Policies
  PROVE  Merged(list, incoming, collision) \in Merges
<1>1. PICK after : /\ MergesRows(after, list, incoming, collision)
                   /\ Merged(list, incoming, collision) = after[Len(incoming)]
  BY MergingLoop
<1>2. Len(incoming) \in 0 .. Len(incoming)
  BY CatalogItems
<1>3. QED
  BY <1>1, <1>2 DEF MergesRows

-----------------------------------------------------------------------------
(* Sorting only moves the movies.                                          *)
LEMMA BeforeOrders ==
  ASSUME NEW list \in Catalogs, NEW reverse \in BOOLEAN
  PROVE  LET D == 1 .. Len(list)
         IN  /\ \A i \in D : ~Before(list, reverse, i, i)
             /\ \A i, j \in D : i # j => Before(list, reverse, i, j) \/ Before(list, reverse, j, i)
             /\ \A i, j, k \in D : Before(list, reverse, i, j) /\ Before(list, reverse, j, k)
                                     => Before(list, reverse, i, k)
<1> DEFINE D == 1 .. Len(list)
           Has(i) == HasKey(list[i])
           At(i) == Key[list[i].work]
<1>0. \A i \in D : Has(i) => At(i) \in Nat
  BY CatalogItems, KeyAssumption DEF HasKey, Row
<1>1. \A i, j \in D : Before(list, reverse, i, j) <=>
        \/ Has(i) /\ ~Has(j)
        \/ ~Has(i) /\ ~Has(j) /\ i < j
        \/ Has(i) /\ Has(j) /\ ((IF reverse THEN At(i) > At(j) ELSE At(i) < At(j)) \/ (At(i) = At(j) /\ i < j))
  BY DEF Before
<1>2. D \subseteq Nat
  OBVIOUS
<1> HIDE DEF D, Has, At
<1>3. \A i \in D : ~Before(list, reverse, i, i)
  BY <1>0, <1>1, <1>2
<1>4. \A i, j \in D : i # j => Before(list, reverse, i, j) \/ Before(list, reverse, j, i)
  BY <1>0, <1>1, <1>2
<1>5. ASSUME NEW i \in D, NEW j \in D, NEW k \in D,
             Before(list, reverse, i, j), Before(list, reverse, j, k)
      PROVE  Before(list, reverse, i, k)
  <2>1. i \in Nat /\ j \in Nat /\ k \in Nat
    BY <1>2
  <2>2. CASE Has(i) /\ Has(j) /\ Has(k)
    <3>1. At(i) \in Nat /\ At(j) \in Nat /\ At(k) \in Nat
      BY <1>0, <2>2
    <3>2. QED
      BY <1>1, <1>5, <2>1, <2>2, <3>1
  <2>3. CASE ~(Has(i) /\ Has(j) /\ Has(k))
    BY <1>1, <1>5, <2>1, <2>3
  <2>4. QED
    BY <2>2, <2>3
<1>6. QED
  BY <1>3, <1>4, <1>5 DEF D

LEMMA PlaceIsBijection ==
  ASSUME NEW list \in Catalogs, NEW reverse \in BOOLEAN
  PROVE  LET D == 1 .. Len(list)
         IN  /\ \A i \in D : Place(list, reverse, i) \in D
             /\ \A k \in D : \E i \in D : Place(list, reverse, i) = k
<1> DEFINE n == Len(list)
           D == 1 .. n
           B(i) == {j \in D : Before(list, reverse, j, i)}
           place == [i \in D |-> Place(list, reverse, i)]
<1>0. n \in Nat /\ DOMAIN list = D
  BY CatalogItems
<1>1. \A i \in D : Place(list, reverse, i) = 1 + Cardinality(B(i))
  BY <1>0 DEF Place
<1>2. IsFiniteSet(D) /\ Cardinality(D) = n
  <2>1. n \in Int /\ 1 \in Int
    BY <1>0
  <2> HIDE DEF n
  <2>2. IsFiniteSet(1 .. n) /\ Cardinality(1 .. n) = IF 1 > n THEN 0 ELSE n - 1 + 1
    BY <2>1, FS_Interval
  <2>3. Cardinality(1 .. n) = n
    BY <1>0, <2>2
  <2> QED
    BY <2>2, <2>3
<1>3. /\ \A i \in D : ~Before(list, reverse, i, i)
      /\ \A i, j \in D : i # j => Before(list, reverse, i, j) \/ Before(list, reverse, j, i)
      /\ \A i, j, k \in D : Before(list, reverse, i, j) /\ Before(list, reverse, j, k)
                              => Before(list, reverse, i, k)
  BY BeforeOrders
<1>4. ASSUME NEW i \in D PROVE IsFiniteSet(B(i)) /\ Cardinality(B(i)) \in 0 .. n - 1
  <2>1. B(i) \in SUBSET D /\ i \notin B(i)
    BY <1>3
  <2> HIDE DEF B, D
  <2>2. IsFiniteSet(B(i)) /\ Cardinality(B(i)) <= n /\ (Cardinality(D) = Cardinality(B(i)) => D = B(i))
    BY <1>2, <2>1, FS_Subset
  <2>3. Cardinality(B(i)) # n /\ Cardinality(B(i)) \in Nat
    BY <1>2, <2>1, <2>2, FS_CardinalityType
  <2>4. QED
    BY <1>0, <2>2, <2>3
<1>5. ASSUME NEW i \in D, NEW j \in D, Before(list, reverse, i, j)
      PROVE  Cardinality(B(i)) < Cardinality(B(j))
  <2>1. B(i) \in SUBSET B(j) /\ i \in B(j) /\ i \notin B(i)
    BY <1>3, <1>5
  <2>2. IsFiniteSet(B(j)) /\ Cardinality(B(i)) \in Nat /\ Cardinality(B(j)) \in Nat
    BY <1>4, FS_CardinalityType
  <2> HIDE DEF B, D
  <2>3. Cardinality(B(i)) <= Cardinality(B(j)) /\ Cardinality(B(i)) # Cardinality(B(j))
    BY <2>1, <2>2, FS_Subset
  <2>4. QED
    BY <2>2, <2>3
<1> HIDE DEF B
<1>6. \A i \in D : Place(list, reverse, i) \in D
  <2>1. ASSUME NEW i \in D PROVE Place(list, reverse, i) \in D
    <3>1. Cardinality(B(i)) \in 0 .. n - 1
      BY <1>4
    <3>2. QED
      BY <1>0, <1>1, <3>1
  <2>2. QED
    BY <2>1
<1>7. ASSUME NEW i \in D, NEW j \in D, Place(list, reverse, i) = Place(list, reverse, j)
      PROVE  i = j
  <2>1. Cardinality(B(i)) \in Nat /\ Cardinality(B(j)) \in Nat
    BY <1>4
  <2>2. Cardinality(B(i)) = Cardinality(B(j))
    BY <1>1, <1>7, <2>1
  <2>3. ~Before(list, reverse, i, j) /\ ~Before(list, reverse, j, i)
    BY <1>5, <2>1, <2>2
  <2>4. QED
    BY <1>3, <2>3
<1> HIDE DEF D
<1>8. place \in Injection(D, D)
  BY <1>6, <1>7 DEF Injection, IsInjective
<1> HIDE DEF place
<1>9. place \in Surjection(D, D)
  BY <1>2, <1>8, FS_Injection
<1>10. \A k \in D : \E i \in D : place[i] = k
  BY <1>9 DEF Surjection
<1>11. QED
  BY <1>6, <1>10 DEF place, D

LEMMA SortedCatalog ==
  ASSUME NEW list \in Catalogs, NEW reverse \in BOOLEAN
  PROVE  Sorted(list, reverse) \in Catalogs
<1> DEFINE D == 1 .. Len(list)
           from == [k \in D |-> CHOOSE i \in D : Place(list, reverse, i) = k]
           result == Sorted(list, reverse)
<1>1. DOMAIN list = D /\ Len(list) \in Nat /\ \A i \in D : list[i] \in Row /\ list[i].number \in Nat \ {0}
  BY CatalogItems
<1>2. \A i, j \in D : list[i].number = list[j].number => i = j
  BY CatalogItems
<1>3. \A k \in D : from[k] \in D /\ Place(list, reverse, from[k]) = k
  BY PlaceIsBijection
<1>4. result = [k \in D |-> list[from[k]]]
  BY <1>1 DEF Sorted
<1> HIDE DEF from, result
<1>5. result \in Seq(Row) /\ DOMAIN result = D
  BY <1>1, <1>3, <1>4
<1> HIDE DEF D
<1>6. 0 \notin NumbersOf(result)
  BY <1>1, <1>3, <1>4, <1>5 DEF NumbersOf
<1>7. Distinct(result)
  <2>1. ASSUME NEW j \in D, NEW k \in D, result[j].number = result[k].number PROVE j = k
    <3>1. from[j] = from[k]
      BY <1>2, <1>3, <1>4, <2>1
    <3>2. QED
      BY <1>3, <3>1
  <2>2. QED
    BY <1>5, <2>1 DEF Distinct
<1>8. QED
  BY <1>5, <1>6, <1>7 DEF Catalogs, result

-----------------------------------------------------------------------------
(* Every call leaves a catalog: the inductive invariant of TypeOK and       *)
(* NumbersIdentify.                                                        *)
IsCatalog ==
  /\ movies \in Catalogs
  /\ \A n \in NumbersOf(movies) : n <= MaxNumber
  /\ outcome \in {"ok", "raised"}

LEMMA CatalogTyped == IsCatalog => TypeOK /\ NumbersIdentify
<1> SUFFICES ASSUME IsCatalog PROVE TypeOK /\ NumbersIdentify
  OBVIOUS
<1>1. movies \in Catalogs
  BY DEF IsCatalog
<1>2. /\ movies \in Seq(Row) /\ DOMAIN movies = 1 .. Len(movies)
      /\ \A i \in 1 .. Len(movies) : movies[i] \in Row /\ movies[i].number \in Nat \ {0}
  BY <1>1, CatalogItems
<1>3. ASSUME NEW i \in 1 .. Len(movies) PROVE movies[i] \in Movie
  <2>1. movies[i].number <= MaxNumber
    BY <1>2 DEF IsCatalog, NumbersOf
  <2>2. movies[i].number \in 1 .. MaxNumber
    BY <1>2, <2>1, BoundsAssumption
  <2>3. QED
    BY <1>2, <2>2 DEF Row, Movie
<1>4. movies \in Seq(Movie)
  BY <1>2, <1>3
<1>5. QED
  BY <1>1, <1>4 DEF TypeOK, NumbersIdentify, IsCatalog, Catalogs, Distinct

LEMMA BecomesCatalog ==
  ASSUME NEW list \in Catalogs, Becomes(list)
  PROVE  IsCatalog'
BY DEF Becomes, Within, IsCatalog, NumbersOf

LEMMA RaisesCatalog ==
  ASSUME IsCatalog, Raises
  PROVE  IsCatalog'
BY DEF Raises, IsCatalog, NumbersOf

LEMMA BoundedIsSeq ==
  ASSUME NEW T, NEW n \in Nat, NEW s \in BoundedSeq(T, n)
  PROVE  s \in Seq(T)
BY DEF BoundedSeq, SeqOf

LEMMA FileIsRows ==
  ASSUME NEW rows \in Files
  PROVE  rows \in Seq(Row)
<1> DEFINE T == [number : RawNumbers, work : Works]
<1>1. \A row \in T : row \in Row
  BY RawAssumption DEF Row
<1>2. rows \in BoundedSeq(T, MaxBatch)
  BY DEF Files
<1> HIDE DEF T
<1>3. rows \in Seq(T)
  BY <1>2, BoundsAssumption, BoundedIsSeq
<1>4. QED
  BY <1>1, <1>3

LEMMA ReplaceCatalog ==
  ASSUME IsCatalog, NEW number \in 1 .. MaxNumber, NEW work \in Works, Replace(number, work)
  PROVE  IsCatalog'
<1> DEFINE list == [i \in DOMAIN movies |->
                      IF movies[i].number = number THEN [number |-> number, work |-> work]
                                                   ELSE movies[i]]
<1>1. CASE number \notin NumbersOf(movies)
  BY <1>1, RaisesCatalog DEF Replace
<1>2. CASE number \in NumbersOf(movies)
  <2>1. movies \in Catalogs
    BY DEF IsCatalog
  <2>2. /\ DOMAIN movies = 1 .. Len(movies) /\ Len(movies) \in Nat
        /\ \A i \in 1 .. Len(movies) : movies[i] \in Row /\ movies[i].number \in Nat \ {0}
        /\ \A i, j \in 1 .. Len(movies) : movies[i].number = movies[j].number => i = j
    BY <2>1, CatalogItems
  <2>3. DOMAIN list = 1 .. Len(movies)
        /\ \A i \in 1 .. Len(movies) : list[i] \in Row /\ list[i].number = movies[i].number
    BY <2>2 DEF Row
  <2>4. list \in Seq(Row)
    BY <2>2, <2>3
  <2>5. Becomes(list)
    BY <1>2 DEF Replace
  <2> HIDE DEF list
  <2>6. list \in Catalogs
    BY <2>2, <2>3, <2>4 DEF Catalogs, NumbersOf, Distinct
  <2>7. QED
    BY <2>5, <2>6, BecomesCatalog
<1>3. QED
  BY <1>1, <1>2

LEMMA RenumberCatalog ==
  ASSUME IsCatalog, NEW start \in 0 .. MaxNumber, Renumber(start)
  PROVE  IsCatalog'
<1> DEFINE list == [i \in DOMAIN movies |-> Numbered(movies[i], start + i - 1)]
<1>1. CASE start < 1
  BY <1>1, RaisesCatalog DEF Renumber
<1>2. CASE ~(start < 1)
  <2>1. movies \in Catalogs
    BY DEF IsCatalog
  <2>2. /\ DOMAIN movies = 1 .. Len(movies) /\ Len(movies) \in Nat
        /\ \A i \in 1 .. Len(movies) : movies[i] \in Row
    BY <2>1, CatalogItems
  <2>3. ASSUME NEW i \in 1 .. Len(movies)
        PROVE  list[i] \in Row /\ list[i].number = start + i - 1 /\ start + i - 1 \in Nat \ {0}
    <3>1. start + i - 1 \in Nat \ {0}
      BY <1>2, BoundsAssumption
    <3>2. list[i] = Numbered(movies[i], start + i - 1) /\ movies[i] \in Row
      BY <2>2
    <3>3. \A number \in Nat : /\ Numbered(movies[i], number) \in Row
                             /\ Numbered(movies[i], number).number = number
      BY <3>2, NumberedRow
    <3> HIDE DEF list
    <3>4. QED
      BY <3>1, <3>2, <3>3
  <2>4. DOMAIN list = 1 .. Len(movies) /\ list \in Seq(Row)
    BY <2>2, <2>3
  <2>5. Becomes(list)
    BY <1>2 DEF Renumber
  <2> HIDE DEF list
  <2>6. 0 \notin NumbersOf(list)
    BY <2>3, <2>4 DEF NumbersOf
  <2>7. Distinct(list)
    <3>1. ASSUME NEW i \in 1 .. Len(movies), NEW j \in 1 .. Len(movies), list[i].number = list[j].number
          PROVE  i = j
      <4>1. start + i - 1 = start + j - 1 /\ start \in Nat
        BY <2>3, <3>1, BoundsAssumption
      <4>2. QED
        BY <4>1
    <3>2. QED
      BY <2>4, <3>1 DEF Distinct
  <2>8. list \in Catalogs
    BY <2>4, <2>6, <2>7 DEF Catalogs
  <2>9. QED
    BY <2>5, <2>8, BecomesCatalog
<1>3. QED
  BY <1>1, <1>2

LEMMA CatalogStep == IsCatalog /\ [Next]_vars => IsCatalog'
<1> SUFFICES ASSUME IsCatalog, [Next]_vars PROVE IsCatalog'
  OBVIOUS
<1>0. movies \in Catalogs
  BY DEF IsCatalog
<1>1. ASSUME NEW rows \in Files, Load(rows) PROVE IsCatalog'
  BY <1>1, FileIsRows, CatalogOfRows, BecomesCatalog DEF Load
<1>2. ASSUME NEW batch \in Files \ {<<>>}, AddMany(batch) PROVE IsCatalog'
  <2>1. batch \in Seq(Row)
    BY FileIsRows
  <2>2. Added(movies, batch, TRUE) \in Catalogs
    BY <1>0, <2>1, AddedCatalog
  <2>3. QED
    BY <1>2, <2>2, BecomesCatalog DEF AddMany
<1>3. ASSUME NEW requested \in SUBSET (1 .. MaxNumber) \ {{}}, RemoveMany(requested) PROVE IsCatalog'
  <2>1. Without(movies, requested) \in Catalogs
    BY <1>0, WithoutCatalog
  <2>2. QED
    BY <1>3, <2>1, BecomesCatalog, RaisesCatalog DEF RemoveMany
<1>4. ASSUME NEW rows \in Files, NEW collision \in Policies, Merge(rows, collision) PROVE IsCatalog'
  <2>1. Incoming(rows) \in Catalogs
    BY FileIsRows, CatalogOfRows DEF Incoming
  <2>2. Merged(movies, Incoming(rows), collision).list \in Catalogs
    BY <1>0, <2>1, MergedTyped, MergeTyped
  <2>3. QED
    BY <1>4, <2>2, BecomesCatalog, RaisesCatalog DEF Merge
<1>5. ASSUME NEW reverse \in BOOLEAN, Sort(reverse) PROVE IsCatalog'
  BY <1>0, <1>5, SortedCatalog, BecomesCatalog DEF Sort
<1>6. CASE UNCHANGED vars
  BY <1>6 DEF vars, IsCatalog, NumbersOf
<1>7. QED
  BY <1>1, <1>2, <1>3, <1>4, <1>5, <1>6, ReplaceCatalog, RenumberCatalog DEF Next

LEMMA CatalogInit == Init => IsCatalog
<1> SUFFICES ASSUME Init PROVE IsCatalog
  OBVIOUS
<1>1. PICK rows \in Files : movies = CatalogOf(rows)
  BY DEF Init
<1>2. movies \in Catalogs
  BY <1>1, FileIsRows, CatalogOfRows
<1>3. QED
  BY <1>2 DEF Init, Within, IsCatalog

LEMMA CatalogInvariant == Spec => []IsCatalog
BY CatalogInit, CatalogStep, PTL DEF Spec

(* The catalog is a list of movies with positive numbers.                  *)
THEOREM TypeCorrect == Spec => []TypeOK
BY CatalogInvariant, CatalogTyped, PTL

(* A number identifies a movie.                                            *)
THEOREM NumbersAlwaysIdentify == Spec => []NumbersIdentify
BY CatalogInvariant, CatalogTyped, PTL

(* A clone, and what a save and a load make of a catalog, is that catalog. *)
THEOREM CloneAlwaysExact == Spec => []CloneIsExact
<1>1. IsCatalog => CloneIsExact
  BY CloneOfCatalog DEF IsCatalog, CloneIsExact
<1>2. QED
  BY <1>1, CatalogInvariant, PTL

-----------------------------------------------------------------------------
(* What is left of a list, taken apart.                                    *)
LEMMA WithoutIsList ==
  ASSUME NEW list \in Seq(Row), NEW numbers
  PROVE  Without(list, numbers) \in Seq(Row)
BY WithoutIsKept, KeptIsList

LEMMA WithoutOfAppend ==
  ASSUME NEW list \in Seq(Row), NEW movie \in Row, NEW numbers
  PROVE  Without(Append(list, movie), numbers) =
           IF movie.number \in numbers THEN Without(list, numbers)
                                       ELSE Append(Without(list, numbers), movie)
<1>1. Append(list, movie) \in Seq(Row)
  OBVIOUS
<1>2. Kept(Append(list, movie), Other(numbers)) =
        IF movie \in Other(numbers) THEN Append(Kept(list, Other(numbers)), movie)
                                    ELSE Kept(list, Other(numbers))
  BY KeptOfAppend
<1>3. movie \in Other(numbers) <=> movie.number \notin numbers
  BY DEF Other
<1>4. /\ Without(list, numbers) = Kept(list, Other(numbers))
      /\ Without(Append(list, movie), numbers) = Kept(Append(list, movie), Other(numbers))
  BY <1>1, WithoutIsKept
<1>5. QED
  BY <1>2, <1>3, <1>4

LEMMA WithoutOfConcat ==
  ASSUME NEW first \in Seq(Row), NEW list \in Seq(Row), NEW numbers
  PROVE  Without(first \o list, numbers) = Without(first, numbers) \o Without(list, numbers)
<1>1. first \o list \in Seq(Row)
  OBVIOUS
<1>2. /\ Without(first, numbers) = Kept(first, Other(numbers))
      /\ Without(list, numbers) = Kept(list, Other(numbers))
      /\ Without(first \o list, numbers) = Kept(first \o list, Other(numbers))
  BY <1>1, WithoutIsKept
<1>3. Kept(first \o list, Other(numbers)) = Kept(first, Other(numbers)) \o Kept(list, Other(numbers))
  BY KeptOfConcat
<1>4. QED
  BY <1>2, <1>3

LEMMA WithoutTwice ==
  ASSUME NEW list \in Seq(Row), NEW a, NEW b
  PROVE  Without(Without(list, a), b) = Without(list, a \cup b)
<1>1. Other(a) \cap Other(b) = Other(a \cup b)
  BY DEF Other
<1>2. /\ Without(list, a) = Kept(list, Other(a))
      /\ Without(list, a \cup b) = Kept(list, Other(a \cup b))
  BY WithoutIsKept
<1>3. Without(Without(list, a), b) = Kept(Without(list, a), Other(b))
  BY WithoutIsList, WithoutIsKept
<1>4. Kept(Kept(list, Other(a)), Other(b)) = Kept(list, Other(a) \cap Other(b))
  BY KeptOfKept
<1>5. QED
  BY <1>1, <1>2, <1>3, <1>4

(* Numbers that are not in the list make no difference.                    *)
LEMMA WithoutStrangers ==
  ASSUME NEW list \in Seq(Row), NEW a, NEW b, NumbersOf(list) \cap b = {}
  PROVE  /\ Without(list, a \cup b) = Without(list, a)
         /\ Without(list, b) = list
<1>1. ToSet(list) \subseteq Row
  BY DEF ToSet
<1>2. \A movie \in ToSet(list) : movie.number \notin b
  BY NumbersOfSet
<1>3. /\ ToSet(list) \cap Other(a \cup b) = ToSet(list) \cap Other(a)
      /\ ToSet(list) \subseteq Other(b)
  BY <1>1, <1>2 DEF Other
<1>4. /\ Kept(list, Other(a \cup b)) = Kept(list, Other(a))
      /\ Kept(list, Other(b)) = list
  BY <1>3, KeptSame, KeptAll
<1>5. QED
  BY <1>4, WithoutIsKept

-----------------------------------------------------------------------------
(* What a merge has made of a catalog and the movies it has met, policy by *)
(* policy.                                                                 *)
Errors(list, rows, m) ==
  /\ m.raised <=> NumbersOf(rows) \cap NumbersOf(list) # {}
  /\ ~m.raised => /\ m.used = NumbersOf(list) \cup NumbersOf(rows)
                  /\ m.list = list \o rows

Skips(list, rows, m) ==
  /\ m.raised = FALSE
  /\ m.used = NumbersOf(list) \cup NumbersOf(rows)
  /\ m.list = list \o Without(rows, NumbersOf(list))

Replaces(list, rows, m) ==
  /\ m.raised = FALSE
  /\ m.used = NumbersOf(list) \cup NumbersOf(rows)
  /\ m.list = Without(list, NumbersOf(rows)) \o rows

Renumbers(list, rows, m) ==
  /\ m.raised = FALSE
  /\ NumbersOf(list) \subseteq m.used
  /\ Len(m.list) = Len(list) + Len(rows)
  /\ \A i \in 1 .. Len(list) : m.list[i] = list[i]
  /\ \A i \in 1 .. Len(rows) :
        /\ m.list[Len(list) + i].work = rows[i].work
        /\ \/ /\ m.list[Len(list) + i].number = rows[i].number
              /\ rows[i].number \notin NumbersOf(list)
           \/ \A n \in NumbersOf(list) : m.list[Len(list) + i].number > n

LEMMA ErrorStep ==
  ASSUME NEW list \in Catalogs, NEW rows \in Seq(Row), NEW m \in Merges,
         NEW movie \in Row, movie.number # 0, movie.number \notin NumbersOf(rows),
         Errors(list, rows, m)
  PROVE  Errors(list, Append(rows, movie), MergeOne(m, movie, "error"))
<1>1. NumbersOf(Append(rows, movie)) = NumbersOf(rows) \cup {movie.number}
  BY NumbersOfAppend
<1>2. list \in Seq(Row)
  BY CatalogItems
<1>3. CASE m.raised
  BY <1>1, <1>3, MergeRaises DEF Errors
<1>4. CASE ~m.raised /\ Duplicate(m, movie)
  <2>1. movie.number \in NumbersOf(list)
    BY <1>4 DEF Errors, Duplicate
  <2>2. MergeOne(m, movie, "error").raised = TRUE
    BY <1>4, MergeRaises
  <2>3. QED
    BY <1>1, <2>1, <2>2 DEF Errors
<1>5. CASE ~m.raised /\ ~Duplicate(m, movie)
  <2>1. movie.number \notin NumbersOf(list)
    BY <1>5 DEF Errors, Duplicate
  <2>2. /\ MergeOne(m, movie, "error").raised = FALSE
        /\ MergeOne(m, movie, "error").used = m.used \cup {movie.number}
        /\ MergeOne(m, movie, "error").list = Append(m.list, movie)
    BY <1>5, MergeAdds
  <2>3. list \o Append(rows, movie) = Append(list \o rows, movie)
    BY <1>2, ConcatOfAppend
  <2>4. QED
    BY <1>1, <1>5, <2>1, <2>2, <2>3 DEF Errors
<1>6. QED
  BY <1>3, <1>4, <1>5

LEMMA SkipStep ==
  ASSUME NEW list \in Catalogs, NEW rows \in Seq(Row), NEW m \in Merges,
         NEW movie \in Row, movie.number # 0, movie.number \notin NumbersOf(rows),
         Skips(list, rows, m)
  PROVE  Skips(list, Append(rows, movie), MergeOne(m, movie, "skip"))
<1> DEFINE taken == NumbersOf(list)
<1>1. NumbersOf(Append(rows, movie)) = NumbersOf(rows) \cup {movie.number}
  BY NumbersOfAppend
<1>2. list \in Seq(Row) /\ Without(rows, taken) \in Seq(Row)
  BY CatalogItems, WithoutIsList
<1>3. ~m.raised
  BY DEF Skips
<1>4. CASE Duplicate(m, movie)
  <2>1. movie.number \in taken
    BY <1>4 DEF Skips, Duplicate
  <2>2. MergeOne(m, movie, "skip") = m
    BY <1>3, <1>4, MergeSkips
  <2>3. Without(Append(rows, movie), taken) = Without(rows, taken)
    BY <2>1, WithoutOfAppend
  <2>4. QED
    BY <1>1, <2>1, <2>2, <2>3 DEF Skips
<1>5. CASE ~Duplicate(m, movie)
  <2>1. movie.number \notin taken
    BY <1>5 DEF Skips, Duplicate
  <2>2. /\ MergeOne(m, movie, "skip").raised = FALSE
        /\ MergeOne(m, movie, "skip").used = m.used \cup {movie.number}
        /\ MergeOne(m, movie, "skip").list = Append(m.list, movie)
    BY <1>3, <1>5, MergeAdds
  <2>3. Without(Append(rows, movie), taken) = Append(Without(rows, taken), movie)
    BY <2>1, WithoutOfAppend
  <2>4. list \o Append(Without(rows, taken), movie) = Append(list \o Without(rows, taken), movie)
    BY <1>2, ConcatOfAppend
  <2>5. QED
    BY <1>1, <2>2, <2>3, <2>4 DEF Skips
<1>6. QED
  BY <1>4, <1>5

LEMMA ReplaceStep ==
  ASSUME NEW list \in Catalogs, NEW rows \in Seq(Row), NEW m \in Merges,
         NEW movie \in Row, movie.number # 0, movie.number \notin NumbersOf(rows),
         Replaces(list, rows, m)
  PROVE  Replaces(list, Append(rows, movie), MergeOne(m, movie, "replace"))
<1> DEFINE met == NumbersOf(rows)
           left == Without(list, met)
           next == MergeOne(m, movie, "replace")
<1>1. NumbersOf(Append(rows, movie)) = met \cup {movie.number}
  BY NumbersOfAppend
<1>2. list \in Seq(Row) /\ left \in Seq(Row) /\ Without(left, {movie.number}) \in Seq(Row)
  BY CatalogItems, WithoutIsList
<1>3. ~m.raised /\ m.list = left \o rows /\ m.used = NumbersOf(list) \cup met
  BY DEF Replaces
<1>4. Without(left, {movie.number}) = Without(list, met \cup {movie.number})
  BY <1>2, WithoutTwice
<1>5. CASE Duplicate(m, movie)
  <2>1. /\ next.raised = FALSE /\ next.used = m.used
        /\ next.list = Append(Without(m.list, {movie.number}), movie)
    BY <1>3, <1>5, MergeReplaces
  <2>2. Without(rows, {movie.number}) = rows
    BY WithoutStrangers
  <2>3. Without(m.list, {movie.number}) = Without(left, {movie.number}) \o rows
    <3> DEFINE one == {movie.number}
    <3> HIDE DEF left, next, one
    <3>1. Without(left \o rows, one) = Without(left, one) \o Without(rows, one)
      <4>1. \A a, b \in Seq(Row) : Without(a \o b, one) = Without(a, one) \o Without(b, one)
        BY WithoutOfConcat
      <4>2. left \in Seq(Row) /\ rows \in Seq(Row)
        BY <1>2
      <4>3. QED
        BY <4>1, <4>2
    <3>2. QED
      BY <1>3, <2>2, <3>1 DEF one
  <2>4. Without(left, {movie.number}) \o Append(rows, movie)
          = Append(Without(left, {movie.number}) \o rows, movie)
    BY <1>2, ConcatOfAppend
  <2>5. m.used = m.used \cup {movie.number}
    BY <1>5 DEF Duplicate
  <2> HIDE DEF met, left, next
  <2>6. next.list = Without(list, met \cup {movie.number}) \o Append(rows, movie)
    BY <1>4, <2>1, <2>3, <2>4
  <2>7. next.used = NumbersOf(list) \cup (met \cup {movie.number})
    BY <1>3, <2>1, <2>5
  <2>8. QED
    BY <1>1, <2>1, <2>6, <2>7 DEF Replaces, next
<1>6. CASE ~Duplicate(m, movie)
  <2>1. movie.number \notin NumbersOf(list)
    BY <1>3, <1>6 DEF Duplicate
  <2>2. /\ next.raised = FALSE /\ next.used = m.used \cup {movie.number}
        /\ next.list = Append(m.list, movie)
    BY <1>3, <1>6, MergeAdds
  <2>3. Without(list, met \cup {movie.number}) = left
    <3>1. NumbersOf(list) \cap {movie.number} = {}
      BY <2>1
    <3>2. QED
      BY <1>2, <3>1, WithoutStrangers, ZenonT(40)
  <2>4. left \o Append(rows, movie) = Append(left \o rows, movie)
    BY <1>2, ConcatOfAppend
  <2> HIDE DEF met, left, next
  <2>5. next.list = Without(list, met \cup {movie.number}) \o Append(rows, movie)
    BY <1>3, <2>2, <2>3, <2>4
  <2>6. next.used = NumbersOf(list) \cup (met \cup {movie.number})
    BY <1>3, <2>2
  <2>7. QED
    BY <1>1, <2>2, <2>5, <2>6 DEF Replaces, next
<1>7. QED
  BY <1>5, <1>6

LEMMA RenumberStep ==
  ASSUME NEW list \in Catalogs, NEW rows \in Seq(Row), NEW m \in Merges,
         NEW movie \in Row, movie.number # 0,
         Renumbers(list, rows, m)
  PROVE  Renumbers(list, Append(rows, movie), MergeOne(m, movie, "renumber"))
<1> DEFINE taken == NumbersOf(list)
           next == MergeOne(m, movie, "renumber")
           more == Append(rows, movie)
           k == Len(list)
           n == Len(rows)
           Placed(given, row) == \/ given = row.number /\ row.number \notin taken
                                 \/ \A t \in taken : given > t
<1>1. /\ k \in Nat /\ n \in Nat /\ more \in Seq(Row) /\ Len(more) = n + 1
      /\ more[n + 1] = movie /\ \A i \in 1 .. n : more[i] = rows[i]
  BY CatalogItems
<1>2. /\ ~m.raised /\ taken \subseteq m.used
      /\ Len(m.list) = k + n
      /\ \A i \in 1 .. k : m.list[i] = list[i]
      /\ \A i \in 1 .. n : /\ m.list[k + i].work = rows[i].work
                           /\ Placed(m.list[k + i].number, rows[i])
  BY DEF Renumbers
<1>3. m.list \in Seq(Row)
  BY MergeTyped, CatalogItems
<1>4. \E number \in Nat : /\ next.raised = FALSE
                          /\ next.used = m.used \cup {number}
                          /\ next.list = Append(m.list, Numbered(movie, number))
                          /\ Placed(number, movie)
  <2>1. CASE Duplicate(m, movie)
    <3>1. /\ Fresh(m.used) \in Nat /\ m.used \in SUBSET Nat
          /\ \A t \in m.used : t < Fresh(m.used)
      BY MergeTyped
    <3>2. \A t \in taken : Fresh(m.used) > t
      BY <1>2, <3>1
    <3>3. /\ next.raised = FALSE
          /\ next.used = m.used \cup {Fresh(m.used)}
          /\ next.list = Append(m.list, Numbered(movie, Fresh(m.used)))
      BY <1>2, <2>1, MergeRenumbers
    <3> HIDE DEF next, taken
    <3>4. QED
      BY <3>1, <3>2, <3>3
  <2>2. CASE ~Duplicate(m, movie)
    <3>1. movie.number \notin taken
      BY <1>2, <2>2 DEF Duplicate
    <3>2. /\ next.raised = FALSE
          /\ next.used = m.used \cup {movie.number}
          /\ next.list = Append(m.list, movie)
      BY <1>2, <2>2, MergeAdds
    <3>3. movie.number \in Nat /\ Numbered(movie, movie.number) = movie
      BY NumberedRow DEF Row
    <3> HIDE DEF next, taken
    <3>4. QED
      BY <3>1, <3>2, <3>3
  <2>3. QED
    BY <2>1, <2>2
<1>5. PICK number \in Nat : /\ next.raised = FALSE
                            /\ next.used = m.used \cup {number}
                            /\ next.list = Append(m.list, Numbered(movie, number))
                            /\ Placed(number, movie)
  BY <1>4
<1>6. Numbered(movie, number) \in Row /\ Numbered(movie, number).number = number
      /\ Numbered(movie, number).work = movie.work
  BY NumberedRow
<1> DEFINE added == Numbered(movie, number)
<1> HIDE DEF added, next, taken, more, k, n, Placed
<1>7. /\ Len(next.list) = k + (n + 1)
      /\ next.list[k + (n + 1)] = added
      /\ \A i \in 1 .. k + n : next.list[i] = m.list[i]
  BY <1>1, <1>2, <1>3, <1>5, <1>6 DEF added
<1>8. \A i \in 1 .. k : next.list[i] = list[i]
  BY <1>1, <1>2, <1>7
<1>9. ASSUME NEW i \in 1 .. n + 1
      PROVE  /\ next.list[k + i].work = more[i].work
             /\ Placed(next.list[k + i].number, more[i])
  <2>1. CASE i = n + 1
    BY <1>1, <1>5, <1>6, <1>7, <2>1 DEF added
  <2>2. CASE i \in 1 .. n
    <3>1. k + i \in 1 .. k + n
      BY <1>1, <2>2
    <3>2. next.list[k + i] = m.list[k + i] /\ more[i] = rows[i]
      BY <1>1, <1>7, <2>2, <3>1
    <3>3. QED
      BY <1>2, <2>2, <3>2
  <2>3. QED
    BY <1>1, <2>1, <2>2
<1>10. taken \subseteq next.used
  BY <1>2, <1>5
<1>11. QED
  BY <1>1, <1>5, <1>7, <1>8, <1>9, <1>10 DEF Renumbers, next, taken, more, k, n, Placed

ByPolicy(list, rows, m, collision) ==
  /\ collision = "error" => Errors(list, rows, m)
  /\ collision = "skip" => Skips(list, rows, m)
  /\ collision = "replace" => Replaces(list, rows, m)
  /\ collision = "renumber" => Renumbers(list, rows, m)

LEMMA PolicyStart ==
  ASSUME NEW list \in Catalogs, NEW collision
  PROVE  ByPolicy(list, <<>>, Started(list), collision)
<1>1. /\ list \in Seq(Row) /\ <<>> \in Seq(Row) /\ Len(<<>>) = 0 /\ Len(list) \in Nat
      /\ NumbersOf(<<>>) = {} /\ list \o <<>> = list
  BY CatalogItems, EmptyCatalog
<1>2. Without(<<>>, NumbersOf(list)) = <<>> /\ Without(list, NumbersOf(<<>>)) = list
  BY <1>1, WithoutStrangers
<1>3. /\ Started(list).list = list /\ Started(list).used = NumbersOf(list)
      /\ Started(list).raised = FALSE
  BY DEF Started
<1>4. Errors(list, <<>>, Started(list))
  BY <1>1, <1>3 DEF Errors
<1>5. Skips(list, <<>>, Started(list))
  BY <1>1, <1>2, <1>3 DEF Skips
<1>6. Replaces(list, <<>>, Started(list))
  BY <1>1, <1>2, <1>3 DEF Replaces
<1>7. Renumbers(list, <<>>, Started(list))
  BY <1>1, <1>3 DEF Renumbers
<1>8. QED
  BY <1>4, <1>5, <1>6, <1>7 DEF ByPolicy

LEMMA PolicyMerged ==
  ASSUME NEW list \in Catalogs, NEW incoming \in Catalogs, NEW collision \in Policies
  PROVE  ByPolicy(list, incoming, Merged(list, incoming, collision), collision)
<1>1. PICK after : /\ MergesRows(after, list, incoming, collision)
                   /\ Merged(list, incoming, collision) = after[Len(incoming)]
  BY MergingLoop
<1> DEFINE n == Len(incoming)
           P == {i \in 0 .. n : ByPolicy(list, First(incoming, i), after[i], collision)}
<1>2. /\ n \in Nat /\ incoming \in Seq(Row) /\ First(incoming, 0) = <<>>
      /\ First(incoming, n) = incoming
  BY CatalogItems, FirstAll
<1>3. 0 \in P
  BY <1>1, <1>2, PolicyStart DEF MergesRows
<1>4. ASSUME NEW i \in 1 .. n, i - 1 \in P PROVE i \in P
  <2> DEFINE rows == First(incoming, i - 1)
             movie == incoming[i]
             m == after[i - 1]
  <2>1. /\ m \in Merges /\ after[i] = MergeOne(m, movie, collision)
    BY <1>1, <1>2 DEF MergesRows
  <2>2. rows \in Seq(Row) /\ First(incoming, i) = Append(rows, movie) /\ movie \in Row
    BY <1>2, FirstOfList
  <2>3. movie.number # 0 /\ movie.number \notin NumbersOf(rows)
    BY CatalogItems, NextIsNew
  <2>4. ByPolicy(list, rows, m, collision)
    BY <1>4
  <2> HIDE DEF rows, movie, m
  <2>5. ByPolicy(list, Append(rows, movie), MergeOne(m, movie, collision), collision)
    BY <2>1, <2>2, <2>3, <2>4, ErrorStep, SkipStep, ReplaceStep, RenumberStep DEF ByPolicy
  <2>6. ByPolicy(list, First(incoming, i), after[i], collision)
    BY <2>1, <2>2, <2>5
  <2>7. QED
    BY <1>2, <2>6
<1>5. n \in P
  <2> HIDE DEF n, P
  <2>1. \A i \in 0 .. n : i \in P
    BY <1>2, <1>3, <1>4, LoopInduction
  <2>2. QED
    BY <1>2, <2>1
<1>6. QED
  BY <1>1, <1>2, <1>5

-----------------------------------------------------------------------------
(* That is the catalog the policy promises.                                *)
LEMMA NewsOfIncoming ==
  ASSUME NEW incoming \in Catalogs, NEW taken
  PROVE  Without(incoming, taken) # incoming <=> NumbersOf(incoming) \cap taken # {}
<1>1. NumbersOf(Without(incoming, taken)) = NumbersOf(incoming) \ taken
  BY WithoutCatalog
<1>2. NumbersOf(incoming) \cap taken = {} => Without(incoming, taken) = incoming
  BY CatalogItems, WithoutStrangers
<1>3. Without(incoming, taken) = incoming => NumbersOf(incoming) \cap taken = {}
  BY <1>1
<1>4. QED
  BY <1>2, <1>3

LEMMA ConcatItems ==
  ASSUME NEW T, NEW first \in Seq(T), NEW second \in Seq(T)
  PROVE  /\ first \o second \in Seq(T) /\ Len(first \o second) = Len(first) + Len(second)
         /\ \A i \in 1 .. Len(first) + Len(second) :
               (first \o second)[i] = IF i <= Len(first) THEN first[i] ELSE second[i - Len(first)]
OBVIOUS

LEMMA ListIsFunction ==
  ASSUME NEW T, NEW list \in Seq(T), NEW f, NEW n, Len(list) = n,
         \A i \in 1 .. n : list[i] = f[i]
  PROVE  list = [i \in 1 .. n |-> f[i]]
OBVIOUS

LEMMA RenumberedCatalog ==
  ASSUME movies \in Catalogs, NEW incoming \in Catalogs, NEW m \in Merges,
         Renumbers(movies, incoming, m)
  PROVE  /\ WorksOf(m.list) = WorksOf(movies) \o WorksOf(incoming)
         /\ IsPrefix(movies, m.list)
         /\ \A i \in DOMAIN incoming :
               LET number == m.list[Len(movies) + i].number
               IN  \/ number = incoming[i].number /\ number \notin NumbersOf(movies)
                   \/ \A n \in NumbersOf(movies) : number > n
<1> DEFINE k == Len(movies)
           n == Len(incoming)
           result == m.list
<1>1. /\ k \in Nat /\ n \in Nat /\ DOMAIN movies = 1 .. k /\ DOMAIN incoming = 1 .. n
      /\ movies \in Seq(Row) /\ incoming \in Seq(Row) /\ result \in Seq(Row)
      /\ \A i \in 1 .. k : movies[i] \in Row
      /\ \A i \in 1 .. n : incoming[i] \in Row
  BY CatalogItems, MergeTyped
<1>2. /\ Len(result) = k + n
      /\ \A i \in 1 .. k : result[i] = movies[i]
      /\ \A i \in 1 .. n : result[k + i].work = incoming[i].work
  BY DEF Renumbers
<1>3. \A i \in 1 .. n :
        \/ result[k + i].number = incoming[i].number /\ incoming[i].number \notin NumbersOf(movies)
        \/ \A t \in NumbersOf(movies) : result[k + i].number > t
  BY DEF Renumbers
<1> HIDE DEF k, n, result
<1>4. DOMAIN result = 1 .. k + n
  BY <1>1, <1>2
<1>5. WorksOf(result) = WorksOf(movies) \o WorksOf(incoming)
  <2> DEFINE first == WorksOf(movies)
             second == WorksOf(incoming)
             all == WorksOf(result)
  <2>1. /\ first \in Seq(Works) /\ Len(first) = k
        /\ \A i \in 1 .. k : first[i] = movies[i].work
    <3>1. first = [i \in 1 .. k |-> movies[i].work]
      BY <1>1 DEF WorksOf
    <3>2. \A i \in 1 .. k : movies[i].work \in Works
      BY <1>1 DEF Row
    <3> HIDE DEF first
    <3>3. QED
      BY <1>1, <3>1, <3>2
  <2>2. /\ second \in Seq(Works) /\ Len(second) = n
        /\ \A i \in 1 .. n : second[i] = incoming[i].work
    BY <1>1 DEF WorksOf, Row
  <2>3. all = [i \in 1 .. k + n |-> result[i].work]
    BY <1>4 DEF WorksOf
  <2> HIDE DEF first, second, all
  <2>4. first \o second = [i \in 1 .. k + n |-> IF i <= k THEN first[i] ELSE second[i - k]]
    <3>1. /\ first \o second \in Seq(Works) /\ Len(first \o second) = k + n
          /\ \A i \in 1 .. k + n :
                (first \o second)[i] = IF i <= k THEN first[i] ELSE second[i - k]
      BY <2>1, <2>2, ConcatItems
    <3>2. QED
      BY <3>1, ListIsFunction, ZenonT(40)
  <2>5. ASSUME NEW i \in 1 .. k + n
        PROVE  result[i].work = IF i <= k THEN first[i] ELSE second[i - k]
    <3>1. CASE i <= k
      BY <1>1, <1>2, <2>1, <3>1
    <3>2. CASE ~(i <= k)
      <4>1. i - k \in 1 .. n /\ k + (i - k) = i
        BY <1>1, <3>2
      <4>2. result[k + (i - k)].work = incoming[i - k].work
        BY <1>2, <4>1
      <4>3. QED
        BY <2>2, <3>2, <4>1, <4>2
    <3>3. QED
      BY <3>1, <3>2
  <2>6. all = first \o second
    BY <2>3, <2>4, <2>5
  <2>7. QED
    BY <2>6 DEF first, second, all
<1>6. IsPrefix(movies, result)
  <2>1. k <= k + n
    BY <1>1
  <2>2. SubSeq(movies, 1, k) = SubSeq(result, 1, k)
    <3>1. /\ SubSeq(movies, 1, k) = [i \in 1 .. k |-> movies[i]]
          /\ SubSeq(result, 1, k) = [i \in 1 .. k |-> result[i]]
      BY <1>1, <1>2, <2>1, <1>4
    <3>2. QED
      BY <1>2, <3>1
  <2>3. QED
    BY <1>2, <2>1, <2>2 DEF IsPrefix, k
<1>7. QED
  BY <1>1, <1>3, <1>5, <1>6 DEF k, result

LEMMA MergeFollows ==
  ASSUME movies \in Catalogs, NEW incoming \in Catalogs, NEW collision \in Policies
  PROVE  FollowsPolicy(incoming, Merged(movies, incoming, collision), collision)
<1> DEFINE m == Merged(movies, incoming, collision)
           collide == Without(incoming, NumbersOf(movies)) # incoming
<1>1. m \in Merges /\ ByPolicy(movies, incoming, m, collision)
  BY MergedTyped, PolicyMerged
<1>2. collide <=> NumbersOf(incoming) \cap NumbersOf(movies) # {}
  BY NewsOfIncoming
<1>3. m.raised \in BOOLEAN
  BY <1>1, MergeTyped
<1> HIDE DEF m, collide
<1>4. m.raised <=> (collision = "error" /\ collide)
  BY <1>1, <1>2, <1>3 DEF ByPolicy, Errors, Skips, Replaces, Renumbers, Policies
<1>5. collision = "skip" => m.list = movies \o Without(incoming, NumbersOf(movies))
  BY <1>1 DEF ByPolicy, Skips
<1>6. collision = "replace" => m.list = Without(movies, NumbersOf(incoming)) \o incoming
  BY <1>1 DEF ByPolicy, Replaces
<1>7. (collision = "error" /\ ~collide) => m.list = movies \o incoming
  BY <1>1, <1>4 DEF ByPolicy, Errors
<1>8. collision = "renumber" =>
        /\ WorksOf(m.list) = WorksOf(movies) \o WorksOf(incoming)
        /\ IsPrefix(movies, m.list)
        /\ \A i \in DOMAIN incoming :
              LET number == m.list[Len(movies) + i].number
              IN  \/ number = incoming[i].number /\ number \notin NumbersOf(movies)
                  \/ \A n \in NumbersOf(movies) : number > n
  BY <1>1, RenumberedCatalog DEF ByPolicy
<1>9. FollowsPolicy(incoming, m, collision)
  BY <1>4, <1>5, <1>6, <1>7, <1>8 DEF FollowsPolicy, collide
<1>10. QED
  BY <1>9 DEF m

(* A merge does what README.md:180-183 says of its policy, for any rows.   *)
THEOREM MergeAlwaysFollowsPolicy == Spec => []MergeFollowsPolicy
<1>1. ASSUME IsCatalog, NEW rows \in Files, NEW collision \in Policies
      PROVE  FollowsPolicy(CatalogOf(rows), Merged(movies, Incoming(rows), collision), collision)
  <2>1. CatalogOf(rows) \in Catalogs
    BY FileIsRows, CatalogOfRows
  <2>2. QED
    BY <1>1, <2>1, MergeFollows DEF IsCatalog, Incoming
<1>2. IsCatalog => MergeFollowsPolicy
  BY <1>1 DEF MergeFollowsPolicy
<1>3. QED
  BY <1>2, CatalogInvariant, PTL

=============================================================================
