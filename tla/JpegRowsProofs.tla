---------------------------- MODULE JpegRowsProofs ----------------------------
(***************************************************************************)
(* Proofs about the rows of an image on their way into the compressor and  *)
(* out of the decompressor.                                                *)
(***************************************************************************)
EXTENDS JpegRows, LoopTheorems

InputFields == {"g", "toGo", "nextBuf", "this", "stop", "color", "out", "rowgroup", "curRow",
                "suspended", "next", "coded"}

\* The row groups that are done, and the image rows that have been read.
Groups(q) == q.curRow * DctSize + q.rowgroup
Fed(q)    == q.g.height - q.toGo

\* The row that the application has to write again: it counts as not consumed.
Owed(q) == IF q.suspended THEN 1 ELSE 0

\* Rows of an iMCU row are made of the right image rows.
RightRows(q, out, row, ci, k) == out[ci][k] = Downsampled(q.g, ci, row * q.g.v[ci] * DctSize + k)

GroupsRight(q, out, count) ==
  /\ DOMAIN out = Comps(q.g)
  /\ \A ci \in Comps(q.g) : /\ DOMAIN out[ci] = 0 .. q.g.v[ci] * DctSize - 1
                            /\ \A k \in DOMAIN out[ci] : k < count * q.g.v[ci] => RightRows(q, out, q.curRow, ci, k)

Prepared(q) ==
  /\ GroupsRight(q, q.out, q.rowgroup)
  /\ q.coded # <<>> => \A ci \in Comps(q.g) : \A k \in DOMAIN q.coded[2][ci] :
                          RightRows(q, q.coded[2], q.coded[1], ci, k)

\* The color buffer without context: the rows of one row group.
Strip(q) ==
  /\ DOMAIN q.color = 0 .. MaxV(q.g) - 1 /\ q.nextBuf \in 0 .. MaxV(q.g) - 1
  /\ \A j \in 0 .. q.nextBuf - 1 : q.color[j] = Groups(q) * MaxV(q.g) + j
  /\ q.toGo > 0 => Fed(q) = Groups(q) * MaxV(q.g) + q.nextBuf
  /\ q.toGo = 0 => /\ q.nextBuf = 0 /\ Groups(q) * MaxV(q.g) >= q.g.height
                   /\ q.rowgroup = DctSize \/ q.curRow >= ImcuRows(q.g)

\* With context: a ring of three row groups, in which a row is at its number modulo
\* the size of the ring.  What lies above and below the image is its first and its last row.
Filled(q) == (Groups(q) + 2) * MaxV(q.g) - (q.stop - q.nextBuf)
Ring(q) ==
  /\ DOMAIN q.color = 0 .. 3 * MaxV(q.g) - 1
  /\ q.this = (Groups(q) % 3) * MaxV(q.g) /\ q.stop = ((Groups(q) + 1) % 3) * MaxV(q.g) + MaxV(q.g)
  /\ q.nextBuf \in 0 .. q.stop - 1 /\ (q.stop - MaxV(q.g) <= q.nextBuf \/ Groups(q) = 0)
  /\ q.toGo > 0 => Fed(q) = Filled(q)
  /\ q.toGo = 0 => Filled(q) >= q.g.height
  /\ Filled(q) > 0 => \A w \in (Groups(q) - 1) * MaxV(q.g) .. Filled(q) - 1 :
                        q.color[w % (3 * MaxV(q.g))] = Clamp(w, q.g.height)

Object(q) ==
  /\ DOMAIN q = InputFields /\ q.g \in Inputs
  /\ q.toGo \in 0 .. q.g.height /\ q.next \in Int /\ q.curRow \in Nat
  /\ q.rowgroup \in 0 .. DctSize /\ q.suspended \in BOOLEAN

Reading(q) ==
  /\ Object(q) /\ Prepared(q) /\ (q.suspended => q.rowgroup = DctSize)
  /\ IF NeedContextRows(q.g) THEN Ring(q) ELSE Strip(q)

\* Within a call that may take n rows.
LoopFields == {"p", "taken", "room", "run", "more"}
Call(a, n) ==
  /\ DOMAIN a = LoopFields /\ Reading(a.p)
  /\ a.taken \in Int /\ a.p.next + a.taken = Fed(a.p) - Owed(a.p)
  /\ n \in Nat /\ a.p.next + n <= a.p.g.height

\* Between two calls.
Between(q) ==
  /\ Reading(q) /\ q.next = Fed(q) - Owed(q)
  /\ q.curRow <= ImcuRows(q.g) /\ (q.next >= q.g.height => q.curRow = ImcuRows(q.g))
InputsRight == p # NoImage => Between(p)

-----------------------------------------------------------------------------
(***************************************************************************)
(* The geometry of an image.                                               *)
(***************************************************************************)
LEMMA MaxVBound ==
  ASSUME NEW g \in Inputs
  PROVE  MaxV(g) \in 1 .. 4
<1> DEFINE S == {g.v[i] : i \in DOMAIN g.v}
<1>1. g.v \in Seq(1 .. 4) /\ g.v # <<>>
  BY InputsAssumption
<1>2. S \in SUBSET (1 .. 4)
  BY <1>1
<1>3. 1 \in DOMAIN g.v
  BY <1>1
<1>4. S # {}
  BY <1>3
<1>5. S \in SUBSET (0 .. 4)
  BY <1>2
<1>6. MaxV(g) = CHOOSE m \in S : \A i \in DOMAIN g.v : g.v[i] <= m
  BY DEF MaxV, MaxOf
<1>7. \E m \in S : \A i \in DOMAIN g.v : g.v[i] <= m
  <2>1. \A i \in DOMAIN g.v : g.v[i] \in S
    OBVIOUS
  <2> HIDE DEF S
  <2>2. Max(S) \in S /\ \A k \in S : k <= Max(S)
    BY <1>4, <1>5, MaxMember
  <2> QED
    BY <2>1, <2>2
<1>8. MaxV(g) \in S
  <2> HIDE DEF S
  <2> QED
    BY <1>6, <1>7
<1> QED
  BY <1>2, <1>8

LEMMA Sampling ==
  ASSUME NEW g \in Inputs, NEW ci \in Comps(g)
  PROVE  /\ g.v[ci] \in 1 .. 4 /\ Expand(g, ci) \in 1 .. 4
         /\ g.v[ci] * Expand(g, ci) = MaxV(g)
         /\ Context(g, ci) \in {0, 1}
         /\ ~NeedContextRows(g) => Context(g, ci) = 0
<1>1. g.v[ci] \in 1 .. 4 /\ MaxV(g) % g.v[ci] = 0
  <2>1. g.v \in Seq(1 .. 4) /\ ci \in DOMAIN g.v
    BY InputsAssumption DEF Comps
  <2> QED
    BY <2>1, InputsAssumption
<1>2. MaxV(g) \in 1 .. 4
  BY MaxVBound
<1> DEFINE m == MaxV(g)
           v == g.v[ci]
<1> HIDE DEF m, v
<1>3. \A a, b \in 1 .. 4 : a % b = 0 => a \div b \in 1 .. 4 /\ b * (a \div b) = a
  <2> SUFFICES ASSUME NEW a \in 1 .. 4, NEW b \in 1 .. 4, a % b = 0
               PROVE  a \div b \in 1 .. 4 /\ b * (a \div b) = a
    OBVIOUS
  <2>1. CASE b = 1 BY <2>1
  <2>2. CASE b = 2 BY <2>2
  <2>3. CASE b = 3 BY <2>3
  <2>4. CASE b = 4 BY <2>4
  <2> QED
    BY <2>1, <2>2, <2>3, <2>4
<1>4. m \div v \in 1 .. 4 /\ v * (m \div v) = m
  BY <1>1, <1>2, <1>3 DEF m, v
<1>5. Context(g, ci) \in {0, 1}
  BY DEF Context
<1>6. ~NeedContextRows(g) => Context(g, ci) = 0
  BY <1>5 DEF NeedContextRows
<1> QED
  BY <1>1, <1>4, <1>5, <1>6 DEF Expand, m, v

LEMMA Rounded ==
  ASSUME NEW a \in Nat, NEW b \in Nat \ {0}
  PROVE  /\ RoundUp(a, b) \in Nat
         /\ RoundUp(a, b) * b >= a
         /\ \A n \in Nat : n * b >= a => n >= RoundUp(a, b)
         /\ \A n \in Nat : n * b < a => n < RoundUp(a, b)
<1> DEFINE q == (a + b - 1) \div b
<1>1. q \in Int /\ q * b <= a + b - 1 /\ a + b - 1 < (q + 1) * b
  BY SMT
<1> HIDE DEF q
<1>2. q >= 0
  <2> SUFFICES ASSUME q < 0 PROVE FALSE
    BY <1>1
  <2>1. q + 1 <= 0
    BY <1>1
  <2>2. (q + 1) * b <= 0
    BY <1>1, <2>1
  <2> QED
    BY <1>1, <2>2
<1>3. (q + 1) * b = q * b + b
  BY <1>1
<1>4. ASSUME NEW n \in Nat, n * b >= a PROVE n >= q
  <2> SUFFICES ASSUME n + 1 <= q PROVE FALSE
    BY <1>1
  <2>1. (n + 1) * b <= q * b
    BY <1>1
  <2>2. (n + 1) * b = n * b + b
    OBVIOUS
  <2> QED
    BY <1>1, <1>4, <2>1, <2>2
<1>5. ASSUME NEW n \in Nat, n * b < a PROVE n < q
  <2> SUFFICES ASSUME q <= n PROVE FALSE
    BY <1>1
  <2>1. q * b <= n * b
    BY <1>1
  <2> QED
    BY <1>1, <1>3, <1>5, <2>1
<1>6. RoundUp(a, b) = q
  BY DEF RoundUp, q
<1> QED
  BY <1>1, <1>2, <1>3, <1>4, <1>5, <1>6

LEMMA ImcuRowsOf ==
  ASSUME NEW g \in Inputs
  PROVE  /\ ImcuRows(g) \in Nat
         /\ \A n \in Nat : n * DctSize * MaxV(g) >= g.height => n >= ImcuRows(g)
<1>1. MaxV(g) \in 1 .. 4 /\ DctSize \in Nat \ {0} /\ g.height \in Nat
  BY MaxVBound, InputsAssumption
<1>2. MaxV(g) * DctSize \in Nat \ {0}
  BY <1>1
<1>3. \A n \in Nat : n * DctSize * MaxV(g) = n * (MaxV(g) * DctSize)
  BY <1>1
<1> QED
  BY <1>1, <1>2, <1>3, Rounded DEF ImcuRows

\* A row of a component in terms of its row group, and the image row it begins with.
LEMMA RowOfGroup ==
  ASSUME NEW g \in Inputs, NEW ci \in Comps(g), NEW row \in Nat, NEW group \in Nat, NEW k \in 0 .. g.v[ci] - 1
  PROVE  /\ row * g.v[ci] * DctSize + (group * g.v[ci] + k) = (row * DctSize + group) * g.v[ci] + k
         /\ ((row * DctSize + group) * g.v[ci] + k) * Expand(g, ci) = (row * DctSize + group) * MaxV(g) + k * Expand(g, ci)
         /\ row * DctSize + group \in Nat
<1> DEFINE v == g.v[ci]
           e == Expand(g, ci)
           m == MaxV(g)
           dct == DctSize
<1>1. v \in 1 .. 4 /\ e \in 1 .. 4 /\ v * e = m /\ dct \in Nat
  BY Sampling, InputsAssumption
<1> HIDE DEF v, e, m, dct
<1>2. k \in Nat
  BY <1>1 DEF v
<1>3. row * v * dct + (group * v + k) = (row * dct + group) * v + k
  BY <1>1, <1>2
<1>4. row * dct + group \in Nat
  BY <1>1
<1> DEFINE n == row * dct + group
<1> HIDE DEF n
<1>5. (n * v + k) * e = n * m + k * e
  <2>1. n \in Nat
    BY <1>4 DEF n
  <2>2. (n * v + k) * e = n * (v * e) + k * e
    BY <2>1, <1>1, <1>2
  <2> QED
    BY <2>2, <1>1
<1> QED
  BY <1>3, <1>4, <1>5 DEF v, e, m, dct, n

LEMMA DownsampledOf ==
  ASSUME NEW g \in Inputs, NEW ci \in Comps(g), NEW n \in Nat, NEW k \in 0 .. g.v[ci] - 1,
         NeedContextRows(g) \/ n * MaxV(g) < g.height
  PROVE  Downsampled(g, ci, n * g.v[ci] + k) =
           [i \in 1 .. Expand(g, ci) + 2 * Context(g, ci) |->
              Clamp(n * MaxV(g) + k * Expand(g, ci) - Context(g, ci) + i - 1, g.height)]
<1> DEFINE v == g.v[ci]
           e == Expand(g, ci)
           m == MaxV(g)
           j == n * v + k
           real == RoundUp(g.height, m) * v
<1>1. v \in 1 .. 4 /\ e \in 1 .. 4 /\ v * e = m /\ m \in 1 .. 4 /\ g.height \in Nat
  BY Sampling, MaxVBound, InputsAssumption
<1>2. NeedContextRows(g) \/ j < real
  <2>1. CASE n * m < g.height
    <3>1. RoundUp(g.height, m) \in Nat /\ n < RoundUp(g.height, m)
      <4> HIDE DEF m
      <4>1. m \in Nat \ {0}
        BY <1>1
      <4>2. /\ RoundUp(g.height, m) \in Nat
            /\ \A x \in Nat : x * m < g.height => x < RoundUp(g.height, m)
        BY <1>1, <4>1, Rounded
      <4>3. n * m < g.height
        BY <2>1 DEF m
      <4> QED
        BY <4>2, <4>3
    <3> DEFINE r == RoundUp(g.height, m)
    <3> HIDE DEF r, v
    <3>2. n + 1 <= r /\ r \in Nat
      BY <3>1 DEF r
    <3>3. (n + 1) * v <= r * v
      BY <1>1, <3>2
    <3>4. (n + 1) * v = n * v + v /\ n * v \in Nat
      BY <1>1
    <3>5. k < v /\ k \in Nat
      BY <1>1 DEF v
    <3> QED
      BY <3>3, <3>4, <3>5, <1>1, <3>2 DEF r
  <2> QED
    BY <2>1
<1>3. j * e = n * m + k * e
  <2> HIDE DEF v, e, m
  <2>1. k \in Nat
    BY <1>1 DEF v
  <2>2. (n * v + k) * e = n * (v * e) + k * e
    BY <2>1, <1>1
  <2> QED
    BY <2>2, <1>1
<1>4. Downsampled(g, ci, j) =
        [i \in 1 .. e + 2 * Context(g, ci) |-> Clamp(j * e - Context(g, ci) + i - 1, g.height)]
  <2> HIDE DEF j, e, m
  <2> QED
    BY <1>2 DEF Downsampled, real, v, e, m
<1>9. v \in Int /\ k \in Int
  BY <1>1
<1>6. Context(g, ci) \in {0, 1}
  BY Sampling
<1> HIDE DEF j, e, m, v
<1>5. \A i \in Int : j * e - Context(g, ci) + i - 1 = n * m + k * e - Context(g, ci) + i - 1
  <2>1. n * m \in Int /\ k * e \in Int /\ Context(g, ci) \in Int
    BY <1>1, <1>6, <1>9
  <2> DEFINE s == n * m
             t == k * e
  <2> HIDE DEF s, t
  <2>2. j * e = s + t
    BY <1>3 DEF s, t
  <2>3. s \in Int /\ t \in Int
    BY <2>1 DEF s, t
  <2>4. \A i \in Int : j * e - Context(g, ci) + i - 1 = s + t - Context(g, ci) + i - 1
    BY <2>1, <2>2, <2>3
  <2> QED
    BY <2>4 DEF s, t
<1>7. \A i \in 1 .. e + 2 * Context(g, ci) : i \in Int
  BY <1>1, <1>6
<1>8. Downsampled(g, ci, j) =
        [i \in 1 .. e + 2 * Context(g, ci) |-> Clamp(n * m + k * e - Context(g, ci) + i - 1, g.height)]
  BY <1>4, <1>5, <1>7
<1> QED
  BY <1>8 DEF j, e, m, v

\* Without context the row groups below the image repeat the last row.
LEMMA DownsampledBelow ==
  ASSUME NEW g \in Inputs, NEW ci \in Comps(g), ~NeedContextRows(g), NEW n \in Nat,
         g.height <= n * MaxV(g), NEW k \in Nat, n * g.v[ci] <= k,
         n # 0, (n - 1) * MaxV(g) < g.height
  PROVE  Downsampled(g, ci, k) = Downsampled(g, ci, n * g.v[ci] - 1)
<1> DEFINE v == g.v[ci]
           m == MaxV(g)
<1>1. v \in 1 .. 4 /\ m \in 1 .. 4 /\ g.height \in Nat
  BY Sampling, MaxVBound, InputsAssumption
<1>2. RoundUp(g.height, m) = n
  <2>1. n - 1 \in Nat
    OBVIOUS
  <2>2. g.height <= n * m /\ (n - 1) * m < g.height
    OBVIOUS
  <2> HIDE DEF m
  <2>3. m \in Nat \ {0}
    BY <1>1
  <2>4. /\ RoundUp(g.height, m) \in Nat
        /\ \A x \in Nat : x * m < g.height => x < RoundUp(g.height, m)
        /\ \A x \in Nat : x * m >= g.height => x >= RoundUp(g.height, m)
    BY <1>1, <2>3, Rounded
  <2>5. n * m >= g.height
    BY <1>1, <2>2, <2>3
  <2>6. n - 1 < RoundUp(g.height, m)
    BY <2>1, <2>2, <2>4
  <2>7. n >= RoundUp(g.height, m)
    BY <2>4, <2>5
  <2> QED
    BY <2>1, <2>4, <2>6, <2>7
<1>3. n * v \in Nat \ {0}
  BY <1>1
<1>4. ~(k < n * v) /\ n * v - 1 < n * v
  BY <1>1, <1>3
<1> QED
  BY <1>2, <1>4 DEF Downsampled

-----------------------------------------------------------------------------
(***************************************************************************)
(* The loops.  A turn of one of them, and what it has made of base after   *)
(* each of the first m.                                                    *)
(***************************************************************************)

Goes(kind, g, n, x) ==
  CASE kind = "strip" -> x.taken < n /\ x.p.rowgroup < DctSize
    [] kind = "ring"  -> x.more /\ x.p.rowgroup < DctSize
    [] kind = "image" -> x.run /\ x.p.curRow < ImcuRows(g)

Turn(kind, g, n, x) ==
  IF Goes(kind, g, n, x)
  THEN CASE kind = "strip" -> PreProcessStep(x, n)
         [] kind = "ring"  -> PreProcessContextStep(x, n)
         [] kind = "image" -> ImcuRow(x, n)
  ELSE x

IsIteration(it, kind, g, n, m, base) ==
  it = [s \in SUBSET (1 .. m) |-> IF s = {} THEN base ELSE Turn(kind, g, n, it[s \ {Max(s)}])]

Turns(after, kind, g, n, m, base) ==
  /\ after[0] = base
  /\ \A i \in 1 .. m : after[i] = Turn(kind, g, n, after[i - 1])

LEMMA IterationExists ==
  ASSUME NEW kind, NEW g, NEW n, NEW m \in Nat, NEW base
  PROVE  \E it : IsIteration(it, kind, g, n, m, base)
<1> DEFINE F(w) == Turn(kind, g, n, w)
           Iterates(it, k) == it = [s \in SUBSET (1 .. k) |->
                                      IF s = {} THEN base ELSE F(it[s \ {Max(s)}])]
           P == {k \in 0 .. m : \E it : Iterates(it, k)}
<1>0. \A it : Iterates(it, m) <=> IsIteration(it, kind, g, n, m, base)
  BY DEF IsIteration
<1> HIDE DEF F
<1>1. 0 \in P
  <2>1. SUBSET (1 .. 0) = {{}}
    OBVIOUS
  <2>2. Iterates([s \in {{}} |-> base], 0)
    BY <2>1
  <2> HIDE DEF Iterates
  <2>3. QED
    BY <2>2
<1>2. ASSUME NEW k \in 1 .. m, k - 1 \in P PROVE k \in P
  <2>1. PICK it : Iterates(it, k - 1)
    BY <1>2
  <2> DEFINE next == [s \in SUBSET (1 .. k) |-> IF k \in s THEN F(it[s \ {k}]) ELSE it[s]]
  <2>2. ASSUME NEW s \in SUBSET (1 .. k), k \in s
        PROVE  Max(s) = k /\ s \ {k} \in SUBSET (1 .. (k - 1))
    <3>1. k \in Nat /\ s \in SUBSET (0 .. k) /\ s # {}
      BY <2>2
    <3>2. Max(s) \in s /\ \A j \in s : j <= Max(s)
      BY <3>1, MaxMember
    <3>3. Max(s) = k
      <4>1. Max(s) \in 1 .. k /\ k <= Max(s)
        BY <2>2, <3>2
      <4>2. QED
        BY <4>1
    <3>4. \A j \in s \ {k} : j \in 1 .. (k - 1)
      OBVIOUS
    <3>5. QED
      BY <3>3, <3>4
  <2>3. ASSUME NEW s \in SUBSET (1 .. k), k \notin s
        PROVE  s \in SUBSET (1 .. (k - 1)) /\ (s # {} => Max(s) \in s)
    <3>1. k \in Nat /\ s \in SUBSET (0 .. k)
      OBVIOUS
    <3>2. s # {} => Max(s) \in s
      BY <3>1, MaxMember
    <3>3. \A j \in s : j \in 1 .. (k - 1)
      BY <2>3
    <3>4. QED
      BY <3>2, <3>3
  <2>4. ASSUME NEW s \in SUBSET (1 .. k)
        PROVE  next[s] = IF s = {} THEN base ELSE F(next[s \ {Max(s)}])
    <3>1. CASE k \in s
      <4>1. next[s] = F(it[s \ {k}])
        BY <3>1
      <4>2. next[s \ {k}] = it[s \ {k}]
        BY <3>1, <2>2
      <4>3. QED
        BY <3>1, <4>1, <4>2, <2>2
    <3>2. CASE k \notin s
      <4>1. next[s] = it[s]
        BY <3>2
      <4>2. s # {} => next[s \ {Max(s)}] = it[s \ {Max(s)}]
        BY <3>2, <2>3
      <4>3. it[s] = IF s = {} THEN base ELSE F(it[s \ {Max(s)}])
        BY <2>1, <2>3, <3>2
      <4>4. QED
        BY <4>1, <4>2, <4>3
    <3>3. QED
      BY <3>1, <3>2
  <2>5. DOMAIN next = SUBSET (1 .. k) /\ next = [s \in SUBSET (1 .. k) |-> next[s]]
    OBVIOUS
  <2> HIDE DEF next
  <2>6. Iterates(next, k)
    BY <2>4, <2>5
  <2>7. QED
    <3> HIDE DEF Iterates
    <3>1. QED
      BY <2>6
<1>3. m \in P
  <2> HIDE DEF P
  <2>1. \A i \in 0 .. m : i \in P
    BY <1>1, <1>2, LoopInduction
  <2>2. QED
    BY <2>1
<1> HIDE DEF Iterates
<1>4. QED
  BY <1>0, <1>3

LEMMA IterationTurns ==
  ASSUME NEW kind, NEW g, NEW n, NEW m \in Nat, NEW base, NEW iteration,
         IsIteration(iteration, kind, g, n, m, base)
  PROVE  \E after : Turns(after, kind, g, n, m, base) /\ after[m] = iteration[1 .. m]
<1> DEFINE after == [j \in 0 .. m |-> iteration[1 .. j]]
<1>1. after[0] = base
  <2>1. 1 .. 0 = {} /\ {} \in SUBSET (1 .. m)
    OBVIOUS
  <2>2. iteration[{}] = base
    BY <2>1 DEF IsIteration
  <2> QED
    BY <2>1, <2>2
<1>2. ASSUME NEW j \in 1 .. m PROVE after[j] = Turn(kind, g, n, after[j - 1])
  <2>1. 1 .. j \in SUBSET (1 .. m) /\ j - 1 \in 0 .. m /\ j \in 0 .. m
    OBVIOUS
  <2>2. Max(1 .. j) = j /\ (1 .. j) \ {j} = 1 .. (j - 1) /\ 1 .. j # {}
    BY LastOfFirst
  <2>3. iteration[1 .. j] = Turn(kind, g, n, iteration[1 .. (j - 1)])
    BY <2>1, <2>2 DEF IsIteration
  <2> QED
    BY <2>1, <2>3
<1>3. after[m] = iteration[1 .. m]
  OBVIOUS
<1> HIDE DEF after
<1> QED
  BY <1>1, <1>2, <1>3 DEF Turns

LEMMA StripTurns ==
  ASSUME NEW a, NEW n \in Nat
  PROVE  \E after : /\ Turns(after, "strip", {}, n, n, a)
                    /\ PreProcessData(a, n) = after[n]
<1> DEFINE list == [i \in 1 .. n |-> i]
           Body(x, i) == IF x.taken < n /\ x.p.rowgroup < DctSize THEN PreProcessStep(x, n) ELSE x
           Folds(it) == it = [s \in SUBSET (1 .. n) |->
                                IF s = {} THEN a ELSE Body(it[s \ {Max(s)}], list[Max(s)])]
           iter == CHOOSE it : Folds(it)
<1>0. n \in Nat /\ DOMAIN list = 1 .. n
  OBVIOUS
<1>1. PreProcessData(a, n) = iter[1 .. n]
  BY <1>0 DEF PreProcessData, While, FoldLeft, MapThenFoldSet
<1> HIDE DEF list
<1>2. \A x, i : Body(x, i) = Turn("strip", {}, n, x)
  BY DEF Turn, Goes
<1> HIDE DEF Body
<1>3. \A it : Folds(it) <=> IsIteration(it, "strip", {}, n, n, a)
  BY <1>2 DEF IsIteration
<1> HIDE DEF Folds
<1>4. IsIteration(iter, "strip", {}, n, n, a)
  BY <1>0, <1>3, IterationExists
<1> HIDE DEF iter
<1>5. PICK after : Turns(after, "strip", {}, n, n, a) /\ after[n] = iter[1 .. n]
  BY <1>0, <1>4, IterationTurns
<1> QED
  BY <1>1, <1>5

LEMMA RingTurns ==
  ASSUME NEW a, NEW n \in Nat
  PROVE  \E after : /\ Turns(after, "ring", {}, n, n + DctSize + 1, [a EXCEPT !.more = TRUE])
                    /\ PreProcessContext(a, n) = after[n + DctSize + 1]
<1> DEFINE list == [i \in 1 .. n + DctSize + 1 |-> i]
           Body(x, i) == IF x.more /\ x.p.rowgroup < DctSize THEN PreProcessContextStep(x, n) ELSE x
           Folds(it) == it = [s \in SUBSET (1 .. n + DctSize + 1) |->
                                IF s = {} THEN [a EXCEPT !.more = TRUE] ELSE Body(it[s \ {Max(s)}], list[Max(s)])]
           iter == CHOOSE it : Folds(it)
<1>0. n + DctSize + 1 \in Nat /\ DOMAIN list = 1 .. n + DctSize + 1
  BY InputsAssumption
<1>1. PreProcessContext(a, n) = iter[1 .. n + DctSize + 1]
  BY <1>0 DEF PreProcessContext, While, FoldLeft, MapThenFoldSet
<1> HIDE DEF list
<1>2. \A x, i : Body(x, i) = Turn("ring", {}, n, x)
  BY DEF Turn, Goes
<1> HIDE DEF Body
<1>3. \A it : Folds(it) <=> IsIteration(it, "ring", {}, n, n + DctSize + 1, [a EXCEPT !.more = TRUE])
  BY <1>2 DEF IsIteration
<1> HIDE DEF Folds
<1>4. IsIteration(iter, "ring", {}, n, n + DctSize + 1, [a EXCEPT !.more = TRUE])
  BY <1>0, <1>3, IterationExists
<1> HIDE DEF iter
<1>5. PICK after : Turns(after, "ring", {}, n, n + DctSize + 1, [a EXCEPT !.more = TRUE]) /\ after[n + DctSize + 1] = iter[1 .. n + DctSize + 1]
  BY <1>0, <1>4, IterationTurns
<1> QED
  BY <1>1, <1>5

\* What jpeg_write_scanlines begins with.
Available(q, n) == Least(n, q.g.height - q.next)
Start(q, room) == [p |-> [q EXCEPT !.coded = <<>>], taken |-> 0, room |-> room, run |-> TRUE, more |-> TRUE]

LEMMA ImageTurns ==
  ASSUME NEW q, q.g \in Inputs, NEW n, NEW room
  PROVE  \E after : /\ Turns(after, "image", q.g, Available(q, n), ImcuRows(q.g) + 1, Start(q, room))
                    /\ WriteScanlines(q, n, room) = Taken(after[ImcuRows(q.g) + 1])
<1> DEFINE list == [i \in 1 .. ImcuRows(q.g) + 1 |-> i]
           Body(x, i) == IF x.run /\ x.p.curRow < ImcuRows(q.g) THEN ImcuRow(x, Available(q, n)) ELSE x
           Folds(it) == it = [s \in SUBSET (1 .. ImcuRows(q.g) + 1) |->
                                IF s = {} THEN Start(q, room) ELSE Body(it[s \ {Max(s)}], list[Max(s)])]
           iter == CHOOSE it : Folds(it)
<1>0. ImcuRows(q.g) + 1 \in Nat /\ DOMAIN list = 1 .. ImcuRows(q.g) + 1
  BY ImcuRowsOf
<1>1. WriteScanlines(q, n, room) = Taken(iter[1 .. ImcuRows(q.g) + 1])
  BY <1>0 DEF WriteScanlines, Available, Start, While, FoldLeft, MapThenFoldSet
<1> HIDE DEF list
<1>2. \A x, i : Body(x, i) = Turn("image", q.g, Available(q, n), x)
  BY DEF Turn, Goes
<1> HIDE DEF Body
<1>3. \A it : Folds(it) <=> IsIteration(it, "image", q.g, Available(q, n), ImcuRows(q.g) + 1, Start(q, room))
  BY <1>2 DEF IsIteration
<1> HIDE DEF Folds
<1>4. IsIteration(iter, "image", q.g, Available(q, n), ImcuRows(q.g) + 1, Start(q, room))
  BY <1>0, <1>3, IterationExists
<1> HIDE DEF iter
<1>5. PICK after : Turns(after, "image", q.g, Available(q, n), ImcuRows(q.g) + 1, Start(q, room)) /\ after[ImcuRows(q.g) + 1] = iter[1 .. ImcuRows(q.g) + 1]
  BY <1>0, <1>4, IterationTurns
<1> QED
  BY <1>1, <1>5

-----------------------------------------------------------------------------
(***************************************************************************)
(* What a function of the preprocessor leaves alone.                       *)
(***************************************************************************)

Changes(q, r, F) == DOMAIN r = DOMAIN q /\ \A f \in DOMAIN q \ F : r[f] = q[f]

LEMMA ChangesMore ==
  ASSUME NEW q, NEW r, NEW F, NEW H, Changes(q, r, F), F \subseteq H
  PROVE  Changes(q, r, H)
BY DEF Changes

LEMMA ChangesAfter ==
  ASSUME NEW q, NEW r, NEW s, NEW F, Changes(q, r, F), Changes(r, s, F)
  PROVE  Changes(q, s, F)
BY DEF Changes

\* color_convert puts num rows behind one another into the color buffer.
Stores(q, color, first, num) ==
  /\ DOMAIN color = DOMAIN q.color
  /\ \A k \in DOMAIN color :
       \/ \E j \in 0 .. num - 1 : Pointers(q.g)[q.nextBuf + j] = k /\ color[k] = first + j
       \/ (\A j \in 0 .. num - 1 : Pointers(q.g)[q.nextBuf + j] # k) /\ color[k] = q.color[k]

LEMMA ConvertStores ==
  ASSUME NEW a, NEW num, DOMAIN a = LoopFields, DOMAIN a.p = InputFields
  PROVE  LET b == ColorConvert(a, num)
         IN /\ Changes(a, b, {"p"}) /\ Changes(a.p, b.p, {"color"})
            /\ Stores(a.p, b.p.color, a.p.next + a.taken, num)
<1> DEFINE places == {<<Pointers(a.p.g)[a.p.nextBuf + j], a.p.next + a.taken + j>> : j \in 0 .. num - 1}
           stored == [k \in DOMAIN a.p.color |->
                        IF \E pl \in places : pl[1] = k THEN (CHOOSE pl \in places : pl[1] = k)[2] ELSE a.p.color[k]]
           b == [a EXCEPT !.p.color = stored]
<1>1. ColorConvert(a, num) = b
  BY DEF ColorConvert, LoopFields, InputFields
<1>2. Stores(a.p, stored, a.p.next + a.taken, num)
  <2>1. ASSUME NEW k \in DOMAIN stored
        PROVE  \/ \E j \in 0 .. num - 1 : Pointers(a.p.g)[a.p.nextBuf + j] = k /\ stored[k] = a.p.next + a.taken + j
               \/ (\A j \in 0 .. num - 1 : Pointers(a.p.g)[a.p.nextBuf + j] # k) /\ stored[k] = a.p.color[k]
    <3>1. CASE \E pl \in places : pl[1] = k
      <4> DEFINE pl == CHOOSE x \in places : x[1] = k
      <4>1. pl \in places /\ pl[1] = k
        BY <3>1
      <4>2. stored[k] = pl[2]
        BY <3>1
      <4>3. PICK j \in 0 .. num - 1 : pl = <<Pointers(a.p.g)[a.p.nextBuf + j], a.p.next + a.taken + j>>
        BY <4>1
      <4> HIDE DEF pl, stored
      <4>4. pl[1] = Pointers(a.p.g)[a.p.nextBuf + j] /\ pl[2] = a.p.next + a.taken + j
        BY <4>3
      <4> QED
        BY <4>1, <4>2, <4>4
    <3>2. CASE ~(\E pl \in places : pl[1] = k)
      <4>1. ASSUME NEW j \in 0 .. num - 1 PROVE Pointers(a.p.g)[a.p.nextBuf + j] # k
        <5> DEFINE pl == <<Pointers(a.p.g)[a.p.nextBuf + j], a.p.next + a.taken + j>>
        <5>1. pl \in places /\ pl[1] = Pointers(a.p.g)[a.p.nextBuf + j]
          OBVIOUS
        <5> QED
          BY <3>2, <5>1
      <4>2. stored[k] = a.p.color[k]
        BY <3>2
      <4> QED
        BY <4>1, <4>2
    <3> QED
      BY <3>1, <3>2
  <2>2. DOMAIN stored = DOMAIN a.p.color
    OBVIOUS
  <2> HIDE DEF stored
  <2> QED
    BY <2>1, <2>2 DEF Stores
<1> HIDE DEF stored
<1>3. Changes(a, b, {"p"}) /\ Changes(a.p, b.p, {"color"}) /\ b.p.color = stored
  BY DEF Changes, LoopFields, InputFields
<1> HIDE DEF b
<1> QED
  BY <1>1, <1>2, <1>3

LEMMA SumOfGroups ==
  \A row, v, size, group, k \in Int : row * v * size + (group * v + k) = (row * size + group) * v + k
OBVIOUS

\* The rows around place at of the color buffer are the image rows around row w.
Shows(q, at, w, around) ==
  \A o \in -around .. MaxV(q.g) - 1 + around : Color(q, at + o) = Clamp(w + o, q.g.height)

LEMMA DownsampleRight ==
  ASSUME NEW q, DOMAIN q = InputFields, q.g \in Inputs, q.curRow \in Nat, q.rowgroup \in 0 .. DctSize - 1,
         GroupsRight(q, q.out, q.rowgroup), NEW at \in Int,
         IF NeedContextRows(q.g) THEN Shows(q, at, Groups(q) * MaxV(q.g), 1)
         ELSE Shows(q, at, Groups(q) * MaxV(q.g), 0) /\ Groups(q) * MaxV(q.g) < q.g.height
  PROVE  LET r == SepDownsample(q, at, q.rowgroup)
         IN Changes(q, r, {"out"}) /\ GroupsRight(q, r.out, q.rowgroup + 1)
<1> DEFINE Made(ci, k) ==
             LET first == at + k * Expand(q.g, ci) - Context(q.g, ci)
             IN [i \in 1 .. Expand(q.g, ci) + 2 * Context(q.g, ci) |-> Color(q, first + i - 1)]
           out == [ci \in Comps(q.g) |-> [row \in DOMAIN q.out[ci] |->
                     IF row \div q.g.v[ci] = q.rowgroup THEN Made(ci, row % q.g.v[ci]) ELSE q.out[ci][row]]]
           r == [q EXCEPT !.out = out]
<1>1. SepDownsample(q, at, q.rowgroup) = r
  BY DEF SepDownsample, InputFields
<1> HIDE DEF Made
<1>2. ASSUME NEW ci \in Comps(q.g), NEW k \in 0 .. q.g.v[ci] * DctSize - 1, k < (q.rowgroup + 1) * q.g.v[ci]
      PROVE  RightRows(q, out, q.curRow, ci, k)
  <2> DEFINE v == q.g.v[ci]
             e == Expand(q.g, ci)
             c == Context(q.g, ci)
             m == MaxV(q.g)
             w == Groups(q) * m
  <2>1. /\ v \in 1 .. 4 /\ e \in 1 .. 4 /\ v * e = m /\ c \in {0, 1} /\ m \in 1 .. 4
        /\ (~NeedContextRows(q.g) => c = 0) /\ DctSize \in Nat
    BY Sampling, MaxVBound, InputsAssumption
  <2>2. DOMAIN q.out[ci] = 0 .. q.g.v[ci] * DctSize - 1
    BY DEF GroupsRight
  <2>3. out[ci][k] = IF k \div v = q.rowgroup THEN Made(ci, k % v) ELSE q.out[ci][k]
    BY <2>2
  <2> HIDE DEF out
  <2>4. k \in Nat /\ q.rowgroup \in Nat
    <3>1. v * DctSize \in Nat
      BY <2>1
    <3> QED
      BY <3>1, <2>1
  <2>5. CASE k < q.rowgroup * v
    <3>1. k \div v # q.rowgroup
      <4> HIDE DEF v
      <4> SUFFICES ASSUME k \div v = q.rowgroup PROVE FALSE
        OBVIOUS
      <4>1. (k \div v) * v <= k
        BY <2>1, <2>4
      <4> QED
        BY <4>1, <2>5, <2>1, <2>4
    <3>2. RightRows(q, q.out, q.curRow, ci, k)
      BY <2>2, <2>5 DEF GroupsRight
    <3> QED
      BY <2>3, <3>1, <3>2 DEF RightRows
  <2>6. CASE ~(k < q.rowgroup * v)
    <3> DEFINE h == k - q.rowgroup * v
    <3>1. h \in 0 .. v - 1 /\ k = q.rowgroup * v + h /\ k \div v = q.rowgroup /\ k % v = h
      <4> DEFINE rg == q.rowgroup
      <4>1. rg * v \in Nat /\ (rg + 1) * v = rg * v + v
        BY <2>1, <2>4
      <4>2. h \in 0 .. v - 1
        BY <4>1, <2>1, <2>4, <2>6, <1>2
      <4>3. k = rg * v + h
        BY <4>1, <2>4
      <4> HIDE DEF h, v, rg
      <4>4. \A x \in Nat, b \in 1 .. 4 : \A y \in 0 .. b - 1 : (x * b + y) \div b = x /\ (x * b + y) % b = y
        <5> SUFFICES ASSUME NEW x \in Nat, NEW b \in 1 .. 4, NEW y \in 0 .. b - 1
                     PROVE  (x * b + y) \div b = x /\ (x * b + y) % b = y
          OBVIOUS
        <5>1. CASE b = 1 BY <5>1
        <5>2. CASE b = 2 BY <5>2
        <5>3. CASE b = 3 BY <5>3
        <5>4. CASE b = 4 BY <5>4
        <5> QED
          BY <5>1, <5>2, <5>3, <5>4
      <4>5. k \div v = rg /\ k % v = h
        BY <4>2, <4>3, <4>4, <2>1, <2>4 DEF rg
      <4> QED
        BY <4>2, <4>3, <4>5 DEF rg
    <3> HIDE DEF h
    <3>2. out[ci][k] = Made(ci, h)
      BY <2>3, <3>1
    <3>3. q.curRow * v * DctSize + k = Groups(q) * v + h /\ Groups(q) \in Nat
      <4>1. h \in 0 .. q.g.v[ci] - 1
        BY <3>1
      <4>2. q.curRow * q.g.v[ci] * DctSize + (q.rowgroup * q.g.v[ci] + h) = (q.curRow * DctSize + q.rowgroup) * q.g.v[ci] + h
        <5> DEFINE x == q.curRow
                   y == q.rowgroup
        <5>1. x \in Int /\ y \in Int /\ h \in Int /\ v \in Int /\ DctSize \in Int
          BY <2>1, <2>4, <4>1
        <5> HIDE DEF x, y, v
        <5>2. x * v * DctSize + (y * v + h) = (x * DctSize + y) * v + h
          BY <5>1, SumOfGroups
        <5> QED
          BY <5>2 DEF x, y, v
      <4>3. q.curRow * DctSize + q.rowgroup \in Nat
        BY <2>1, <2>4
      <4> QED
        BY <3>1, <4>2, <4>3 DEF Groups
    <3>4. Downsampled(q.g, ci, Groups(q) * v + h) =
            [i \in 1 .. e + 2 * c |-> Clamp(w + h * e - c + i - 1, q.g.height)]
      BY <3>1, <3>3, DownsampledOf
    <3>5. ASSUME NEW i \in 1 .. e + 2 * c
          PROVE  Color(q, at + h * e - c + i - 1) = Clamp(w + h * e - c + i - 1, q.g.height)
      <4> DEFINE o == h * e - c + i - 1
      <4>1. h * e \in 0 .. m - e
        <5> HIDE DEF v, e, m
        <5>1. h * e <= (v - 1) * e /\ h * e >= 0
          BY <3>1, <2>1
        <5>2. (v - 1) * e = v * e - e
          BY <2>1
        <5>3. h * e \in Int
          BY <3>1, <2>1
        <5> QED
          BY <5>1, <5>2, <5>3, <2>1
      <4> DEFINE he == h * e
      <4> HIDE DEF he, e, m, c, v
      <4>2. o \in -c .. m - 1 + c
        BY <4>1, <2>1 DEF he
      <4>3. w \in Int
        BY <3>3, <2>1
      <4>4. at + h * e - c + i - 1 = at + o /\ w + h * e - c + i - 1 = w + o
        BY <4>1, <4>3, <2>1 DEF he
      <4>5. Color(q, at + o) = Clamp(w + o, q.g.height)
        <5>1. CASE NeedContextRows(q.g)
          <6>1. o \in -1 .. m - 1 + 1
            BY <4>2, <2>1
          <6> QED
            BY <5>1, <6>1 DEF Shows, m
        <5>2. CASE ~NeedContextRows(q.g)
          <6>1. o \in -0 .. m - 1 + 0
            BY <4>2, <5>2, <2>1
          <6> QED
            BY <5>2, <6>1 DEF Shows, m
        <5> QED
          BY <5>1, <5>2
      <4> QED
        BY <4>4, <4>5
    <3>6. Made(ci, h) = [i \in 1 .. e + 2 * c |-> Color(q, at + h * e - c + i - 1)]
      BY DEF Made
    <3>7. Made(ci, h) = Downsampled(q.g, ci, Groups(q) * v + h)
      BY <3>4, <3>5, <3>6
    <3> QED
      BY <3>2, <3>3, <3>7 DEF RightRows
  <2> QED
    BY <2>5, <2>6
<1>3. DOMAIN out = Comps(q.g) /\ \A ci \in Comps(q.g) : DOMAIN out[ci] = 0 .. q.g.v[ci] * DctSize - 1
  BY DEF GroupsRight
<1> HIDE DEF out
<1>4. GroupsRight(q, out, q.rowgroup + 1)
  BY <1>2, <1>3 DEF GroupsRight
<1>5. Changes(q, r, {"out"}) /\ r.out = out
  BY DEF Changes, InputFields
<1> QED
  BY <1>1, <1>4, <1>5

-----------------------------------------------------------------------------
(***************************************************************************)
(* The parts of a turn.                                                    *)
(***************************************************************************)
LEMMA CountedRows ==
  ASSUME NEW a, NEW num, DOMAIN a = LoopFields, DOMAIN a.p = InputFields
  PROVE  LET b == Counted(a, num)
         IN /\ Changes(a, b, {"p", "taken"}) /\ Changes(a.p, b.p, {"nextBuf", "toGo"})
            /\ b.taken = a.taken + num /\ b.p.nextBuf = a.p.nextBuf + num /\ b.p.toGo = a.p.toGo - num
BY DEF Counted, Changes, LoopFields, InputFields

LEMMA ReadRows ==
  ASSUME NEW a, NEW num, DOMAIN a = LoopFields, DOMAIN a.p = InputFields
  PROVE  LET b == Counted(ColorConvert(a, num), num)
         IN /\ Changes(a, b, {"p", "taken"}) /\ Changes(a.p, b.p, {"color", "nextBuf", "toGo"})
            /\ Stores(a.p, b.p.color, a.p.next + a.taken, num)
            /\ b.taken = a.taken + num /\ b.p.nextBuf = a.p.nextBuf + num /\ b.p.toGo = a.p.toGo - num
<1> DEFINE r == ColorConvert(a, num)
           b == Counted(r, num)
<1>1. /\ Changes(a, r, {"p"}) /\ Changes(a.p, r.p, {"color"})
      /\ Stores(a.p, r.p.color, a.p.next + a.taken, num)
  BY ConvertStores
<1> HIDE DEF r
<1>2. DOMAIN r = LoopFields /\ DOMAIN r.p = InputFields
  BY <1>1 DEF Changes
<1>3. /\ Changes(r, b, {"p", "taken"}) /\ Changes(r.p, b.p, {"nextBuf", "toGo"})
      /\ b.taken = r.taken + num /\ b.p.nextBuf = r.p.nextBuf + num /\ b.p.toGo = r.p.toGo - num
  BY <1>2, CountedRows
<1> HIDE DEF b
<1>4. Changes(a, b, {"p", "taken"})
  BY <1>1, <1>3 DEF Changes
<1>5. Changes(a.p, b.p, {"color", "nextBuf", "toGo"})
  BY <1>1, <1>3 DEF Changes
<1>6. r.taken = a.taken /\ r.p.nextBuf = a.p.nextBuf /\ r.p.toGo = a.p.toGo /\ b.p.color = r.p.color
  <2>1. r.taken = a.taken
    BY <1>1 DEF Changes, LoopFields
  <2>2. r.p.nextBuf = a.p.nextBuf /\ r.p.toGo = a.p.toGo
    BY <1>1 DEF Changes, InputFields
  <2>3. b.p.color = r.p.color
    BY <1>2, <1>3 DEF Changes, InputFields
  <2> QED
    BY <2>1, <2>2, <2>3
<1> QED
  BY <1>1, <1>3, <1>4, <1>5, <1>6 DEF b, r

\* expand_bottom_edge copies the row above "from".
Fills(q, color, from, to) ==
  /\ DOMAIN color = DOMAIN q.color
  /\ \A k \in DOMAIN q.color :
       color[k] = IF \E row \in from .. to - 1 : Pointers(q.g)[row] = k THEN Color(q, from - 1) ELSE q.color[k]

Expanded(q, from, to) == [ExpandColor(q, from, to) EXCEPT !.nextBuf = to]

LEMMA ColorExpanded ==
  ASSUME NEW q, NEW from, NEW to, DOMAIN q = InputFields,
         NEW r, r = Expanded(q, from, to)
  PROVE  Changes(q, r, {"color", "nextBuf"}) /\ r.nextBuf = to /\ Fills(q, r.color, from, to)
<1> DEFINE padded == {Pointers(q.g)[row] : row \in from .. to - 1}
           color == [k \in DOMAIN q.color |-> IF k \in padded THEN Color(q, from - 1) ELSE q.color[k]]
<1>1. \A k : k \in padded <=> \E row \in from .. to - 1 : Pointers(q.g)[row] = k
  OBVIOUS
<1>2. \A k \in DOMAIN q.color :
        color[k] = IF \E row \in from .. to - 1 : Pointers(q.g)[row] = k THEN Color(q, from - 1) ELSE q.color[k]
  BY <1>1
<1>3. r = [q EXCEPT !.color = color, !.nextBuf = to]
  BY DEF Expanded, ExpandColor, InputFields
<1>4. DOMAIN color = DOMAIN q.color
  OBVIOUS
<1> HIDE DEF color, padded
<1>5. Changes(q, r, {"color", "nextBuf"}) /\ r.nextBuf = to /\ r.color = color
  BY <1>3 DEF Changes, InputFields
<1> QED
  BY <1>2, <1>4, <1>5 DEF Fills

\* What the color buffer and the counters have no part in.
LEMMA SameOut ==
  ASSUME NEW q, NEW r, Object(q), Prepared(q), Changes(q, r, {"color", "nextBuf", "toGo", "this", "stop"}),
         r.toGo \in 0 .. q.g.height
  PROVE  /\ Object(r) /\ Prepared(r) /\ Groups(r) = Groups(q) /\ r.g = q.g /\ r.suspended = q.suspended
         /\ r.rowgroup = q.rowgroup /\ r.curRow = q.curRow /\ r.next = q.next /\ r.out = q.out /\ r.coded = q.coded
<1>1. /\ r.g = q.g /\ r.suspended = q.suspended /\ r.rowgroup = q.rowgroup /\ r.curRow = q.curRow
      /\ r.next = q.next /\ r.out = q.out /\ r.coded = q.coded /\ DOMAIN r = InputFields
  BY DEF Changes, Object, InputFields
<1>2. Object(r)
  BY <1>1 DEF Object
<1>3. Prepared(r)
  BY <1>1 DEF Prepared, GroupsRight, RightRows
<1> QED
  BY <1>1, <1>2, <1>3 DEF Groups

\* The downsampler takes the row group at "at" of the color buffer.
LEMMA GroupTaken ==
  ASSUME NEW q, Object(q), Prepared(q), q.rowgroup < DctSize, NEW at \in Int,
         IF NeedContextRows(q.g) THEN Shows(q, at, Groups(q) * MaxV(q.g), 1)
         ELSE Shows(q, at, Groups(q) * MaxV(q.g), 0) /\ Groups(q) * MaxV(q.g) < q.g.height
  PROVE  LET r == SepDownsample(q, at, q.rowgroup)
         IN Changes(q, r, {"out"}) /\ GroupsRight(q, r.out, q.rowgroup + 1)
<1>1. q.rowgroup \in 0 .. DctSize - 1 /\ DOMAIN q = InputFields /\ q.g \in Inputs /\ q.curRow \in Nat
  BY InputsAssumption DEF Object
<1>2. GroupsRight(q, q.out, q.rowgroup)
  BY DEF Prepared
<1> QED
  BY <1>1, <1>2, DownsampleRight

\* The object after it.
LEMMA GroupCounted ==
  ASSUME NEW q, NEW r, Object(q), Prepared(q), q.rowgroup < DctSize, DOMAIN r = InputFields,
         r.g = q.g, r.toGo = q.toGo, r.curRow = q.curRow, r.suspended = q.suspended, r.next = q.next,
         r.coded = q.coded, r.rowgroup = q.rowgroup + 1, GroupsRight(q, r.out, q.rowgroup + 1)
  PROVE  Object(r) /\ Prepared(r) /\ Groups(r) = Groups(q) + 1
<1>1. DctSize \in Nat /\ q.rowgroup \in 0 .. DctSize /\ q.curRow \in Nat
  BY InputsAssumption DEF Object
<1>2. Object(r)
  BY <1>1 DEF Object
<1>3. Prepared(r)
  BY DEF Prepared, GroupsRight, RightRows
<1>4. Groups(r) = Groups(q) + 1
  BY <1>1 DEF Groups
<1> QED
  BY <1>2, <1>3, <1>4

-----------------------------------------------------------------------------
(***************************************************************************)
(* Without context: the color buffer holds one row group.                  *)
(***************************************************************************)

\* Once rows have been read.
Loaded(q) ==
  /\ Object(q) /\ Prepared(q) /\ ~NeedContextRows(q.g) /\ q.rowgroup < DctSize /\ ~q.suspended
  /\ DOMAIN q.color = 0 .. MaxV(q.g) - 1 /\ q.nextBuf \in 1 .. MaxV(q.g)
  /\ \A j \in 0 .. q.nextBuf - 1 : q.color[j] = Groups(q) * MaxV(q.g) + j
  /\ Fed(q) = Groups(q) * MaxV(q.g) + q.nextBuf

\* Once the buffer has been padded at the bottom of the image.
Padded(q) ==
  /\ Object(q) /\ Prepared(q) /\ ~NeedContextRows(q.g) /\ q.rowgroup < DctSize /\ ~q.suspended
  /\ DOMAIN q.color = 0 .. MaxV(q.g) - 1 /\ q.nextBuf \in 1 .. MaxV(q.g)
  /\ Groups(q) * MaxV(q.g) < q.g.height
  /\ IF q.nextBuf = MaxV(q.g)
     THEN /\ Shows(q, 0, Groups(q) * MaxV(q.g), 0)
          /\ q.toGo > 0 => Fed(q) = (Groups(q) + 1) * MaxV(q.g)
          /\ q.toGo = 0 => q.g.height <= (Groups(q) + 1) * MaxV(q.g)
     ELSE /\ q.toGo > 0
          /\ \A j \in 0 .. q.nextBuf - 1 : q.color[j] = Groups(q) * MaxV(q.g) + j
          /\ Fed(q) = Groups(q) * MaxV(q.g) + q.nextBuf

LEMMA StripPointers ==
  ASSUME NEW q, q.g \in Inputs, ~NeedContextRows(q.g)
  PROVE  /\ \A i \in 0 .. MaxV(q.g) - 1 : Pointers(q.g)[i] = i /\ Color(q, i) = q.color[i]
BY DEF Pointers, Color

LEMMA GroupsInt ==
  ASSUME NEW q, Object(q)
  PROVE  /\ Groups(q) \in Nat /\ Groups(q) * MaxV(q.g) \in Nat
         /\ (Groups(q) + 1) * MaxV(q.g) = Groups(q) * MaxV(q.g) + MaxV(q.g)
         /\ MaxV(q.g) \in 1 .. 4 /\ q.g \in Inputs /\ q.g.height \in Nat \ {0} /\ q.toGo \in 0 .. q.g.height
<1>1. /\ q.g \in Inputs /\ q.curRow \in Nat /\ q.rowgroup \in 0 .. DctSize /\ DctSize \in Nat
      /\ q.g.height \in Nat \ {0} /\ q.toGo \in 0 .. q.g.height
  BY InputsAssumption DEF Object
<1>2. MaxV(q.g) \in 1 .. 4
  BY <1>1, MaxVBound
<1>3. Groups(q) \in Nat
  BY <1>1 DEF Groups
<1> DEFINE m == MaxV(q.g)
           n == Groups(q)
<1> HIDE DEF m, n
<1>4. n * m \in Nat /\ (n + 1) * m = n * m + m
  BY <1>2, <1>3 DEF m, n
<1> QED
  BY <1>1, <1>2, <1>3, <1>4 DEF m, n

LEMMA StripLoads ==
  ASSUME NEW a, NEW n, Call(a, n), ~NeedContextRows(a.p.g), a.taken < n, a.p.rowgroup < DctSize
  PROVE  LET num == Least(MaxV(a.p.g) - a.p.nextBuf, n - a.taken)
             b   == Counted(ColorConvert(a, num), num)
         IN /\ Loaded(b.p) /\ num > 0 /\ num <= n - a.taken
            /\ Changes(a, b, {"p", "taken"}) /\ Changes(a.p, b.p, {"color", "nextBuf", "toGo"})
            /\ b.taken = a.taken + num /\ b.p.next + b.taken = Fed(b.p)
<1> DEFINE q == a.p
           m == MaxV(q.g)
           w == Groups(q) * m
           num == Least(m - q.nextBuf, n - a.taken)
           b == Counted(ColorConvert(a, num), num)
<1>1. /\ DOMAIN a = LoopFields /\ Object(q) /\ Prepared(q) /\ Strip(q) /\ q.suspended = FALSE
      /\ a.taken \in Int /\ q.next + a.taken = Fed(q) - Owed(q) /\ n \in Nat /\ q.next + n <= q.g.height
  <2>1. Reading(q) /\ Object(q)
    BY DEF Call, Reading
  <2>2. q.rowgroup # DctSize
    BY <2>1, InputsAssumption DEF Object
  <2>3. q.suspended = FALSE
    BY <2>1, <2>2 DEF Reading, Object
  <2> QED
    BY <2>1, <2>3 DEF Call, Reading
<1>2. /\ w \in Nat /\ m \in 1 .. 4 /\ q.g \in Inputs /\ q.g.height \in Nat /\ q.toGo \in 0 .. q.g.height
      /\ q.next \in Int
  BY <1>1, GroupsInt DEF Object
<1>3. q.nextBuf \in 0 .. m - 1 /\ DOMAIN q.color = 0 .. m - 1 /\ \A j \in 0 .. q.nextBuf - 1 : q.color[j] = w + j
  BY <1>1 DEF Strip
<1>4. Fed(q) = q.g.height - q.toGo /\ q.next + a.taken = Fed(q)
  BY <1>1, <1>2 DEF Fed, Owed
<1>5. q.toGo > 0 /\ n - a.taken <= q.toGo /\ n - a.taken > 0
  BY <1>1, <1>2, <1>4
<1>6. Fed(q) = w + q.nextBuf
  BY <1>1, <1>5 DEF Strip
<1> HIDE DEF m, w
<1>n. /\ q.nextBuf \in 0 .. m - 1 /\ a.taken \in Int /\ n \in Nat /\ m \in 1 .. 4 /\ w \in Nat
      /\ q.g.height \in Nat /\ q.toGo \in 0 .. q.g.height /\ q.next \in Int
      /\ q.toGo > 0 /\ n - a.taken <= q.toGo /\ n - a.taken > 0
      /\ Fed(q) = q.g.height - q.toGo /\ q.next + a.taken = Fed(q) /\ Fed(q) = w + q.nextBuf
  BY <1>1, <1>2, <1>3, <1>4, <1>5, <1>6
<1>7. num \in 1 .. 4 /\ num <= m - q.nextBuf /\ num <= n - a.taken
  <2> DEFINE x == m - q.nextBuf
             y == n - a.taken
  <2>1. x \in 1 .. 4 /\ y \in Nat \ {0}
    BY <1>n
  <2> HIDE DEF x, y
  <2>2. Least(x, y) \in 1 .. 4 /\ Least(x, y) <= x /\ Least(x, y) <= y
    BY <2>1 DEF Least
  <2> QED
    BY <2>2 DEF x, y
<1> HIDE DEF num
<1>8. DOMAIN q = InputFields
  BY <1>1 DEF Object
<1>9. /\ Changes(a, b, {"p", "taken"}) /\ Changes(q, b.p, {"color", "nextBuf", "toGo"})
      /\ Stores(q, b.p.color, q.next + a.taken, num)
      /\ b.taken = a.taken + num /\ b.p.nextBuf = q.nextBuf + num /\ b.p.toGo = q.toGo - num
  BY <1>1, <1>8, ReadRows
<1> HIDE DEF b
<1>10. b.p.toGo \in 0 .. q.g.height
  <2>1. b.p.toGo = q.toGo - num
    BY <1>9
  <2> QED
    BY <1>n, <1>7, <2>1
<1>11. /\ Object(b.p) /\ Prepared(b.p) /\ Groups(b.p) = Groups(q) /\ b.p.g = q.g /\ b.p.suspended = FALSE
       /\ b.p.rowgroup = q.rowgroup /\ b.p.next = q.next
  <2>1. Changes(q, b.p, {"color", "nextBuf", "toGo", "this", "stop"})
    BY <1>9, ChangesMore
  <2> QED
    BY <1>1, <1>10, <2>1, SameOut
<1>12. ASSUME NEW k \in 0 .. q.nextBuf + num - 1 PROVE b.p.color[k] = w + k
  <2>1. k \in 0 .. m - 1
    BY <1>n, <1>7
  <2>2. \A j \in 0 .. num - 1 : Pointers(q.g)[q.nextBuf + j] = q.nextBuf + j
    <3>1. ASSUME NEW j \in 0 .. num - 1 PROVE q.nextBuf + j \in 0 .. m - 1
      BY <1>n, <1>7
    <3> QED
      BY <1>1, <1>2, <3>1, StripPointers DEF m
  <2>3. k \in DOMAIN q.color /\ DOMAIN b.p.color = DOMAIN q.color
    BY <1>3, <1>9, <2>1 DEF Stores
  <2>4. CASE k < q.nextBuf
    <3>1. \A j \in 0 .. num - 1 : q.nextBuf + j # k
      BY <2>1, <2>4, <1>n, <1>7
    <3>2. b.p.color[k] = q.color[k]
      BY <1>9, <2>2, <2>3, <3>1 DEF Stores
    <3>3. k \in 0 .. q.nextBuf - 1
      BY <1>n, <2>1, <2>4
    <3> QED
      BY <1>3, <3>2, <3>3
  <2>5. CASE k >= q.nextBuf
    <3> DEFINE i == k - q.nextBuf
    <3>1. i \in 0 .. num - 1 /\ q.nextBuf + i = k
      BY <1>n, <1>7, <2>5
    <3> HIDE DEF i
    <3>2. Pointers(q.g)[q.nextBuf + i] = k
      BY <2>2, <3>1
    <3>3. PICK j \in 0 .. num - 1 : Pointers(q.g)[q.nextBuf + j] = k /\ b.p.color[k] = q.next + a.taken + j
      BY <1>9, <2>3, <3>1, <3>2 DEF Stores
    <3>4. q.nextBuf + j = k
      BY <2>2, <3>3
    <3>5. q.next + a.taken + j = w + k
      <4>1. q.next + a.taken = w + q.nextBuf
        BY <1>n
      <4>2. j \in Int
        BY <1>7
      <4> QED
        <5>1. \A r, s, t, u, z \in Int : r + s = t + u => r + s + z = t + (u + z)
          OBVIOUS
        <5>2. q.next \in Int /\ a.taken \in Int /\ w \in Int /\ q.nextBuf \in Int
          BY <1>n
        <5>3. q.next + a.taken + j = w + (q.nextBuf + j)
          BY <4>1, <4>2, <5>1, <5>2
        <5> QED
          BY <3>4, <5>3
    <3> QED
      BY <3>3, <3>5
  <2> QED
    BY <2>1, <2>4, <2>5, <1>n
<1>13. Fed(b.p) = Fed(q) + num /\ b.p.nextBuf \in 1 .. m /\ DOMAIN b.p.color = 0 .. m - 1
  <2>1. b.p.toGo = q.toGo - num /\ b.p.nextBuf = q.nextBuf + num /\ b.p.g = q.g
    BY <1>9, <1>11
  <2>2. Fed(b.p) = q.g.height - b.p.toGo
    BY <2>1 DEF Fed
  <2>3. Fed(b.p) = Fed(q) + num /\ b.p.nextBuf \in 1 .. m
    BY <1>n, <1>7, <2>1, <2>2
  <2>4. DOMAIN b.p.color = 0 .. m - 1
    BY <1>3, <1>9 DEF Stores
  <2> QED
    BY <2>3, <2>4
<1>14. Loaded(b.p)
  <2>1. b.p.nextBuf = q.nextBuf + num
    BY <1>9
  <2>2. \A k \in 0 .. b.p.nextBuf - 1 : b.p.color[k] = w + k
    <3>1. 0 .. b.p.nextBuf - 1 = 0 .. (q.nextBuf + num) - 1
      BY <2>1
    <3>2. (q.nextBuf + num) - 1 = q.nextBuf + num - 1
      BY <1>n, <1>7
    <3> QED
      BY <1>12, <3>1, <3>2
  <2>3. Fed(b.p) = w + b.p.nextBuf
    BY <1>n, <1>7, <1>13, <2>1
  <2> QED
    BY <1>11, <1>13, <2>2, <2>3 DEF Loaded, m, w
<1>15. b.p.next + b.taken = Fed(b.p)
  <2>1. b.taken = a.taken + num /\ b.p.next = q.next
    BY <1>9, <1>11
  <2>2. q.next + (a.taken + num) = Fed(q) + num
    BY <1>n, <1>7
  <2> QED
    BY <1>13, <2>1, <2>2, Zenon
<1>16. num > 0
  BY <1>7
<1> QED
  <2>1. /\ Loaded(b.p) /\ num > 0 /\ num <= n - a.taken
        /\ Changes(a, b, {"p", "taken"}) /\ Changes(q, b.p, {"color", "nextBuf", "toGo"})
        /\ b.taken = a.taken + num /\ b.p.next + b.taken = Fed(b.p)
    BY <1>7, <1>9, <1>14, <1>15, <1>16, Zenon
  <2> QED
    BY <2>1 DEF b, num, m, q

LEMMA StripPads ==
  ASSUME NEW q, Loaded(q)
  PROVE  /\ Padded(PadColor(q)) /\ Changes(q, PadColor(q), {"color", "nextBuf"})
<1> DEFINE m == MaxV(q.g)
           w == Groups(q) * m
<1>1. /\ Object(q) /\ Prepared(q) /\ ~NeedContextRows(q.g) /\ q.rowgroup < DctSize /\ ~q.suspended
      /\ DOMAIN q.color = 0 .. m - 1 /\ q.nextBuf \in 1 .. m
      /\ \A j \in 0 .. q.nextBuf - 1 : q.color[j] = w + j
      /\ Fed(q) = w + q.nextBuf
  BY DEF Loaded
<1>2. /\ w \in Nat /\ m \in 1 .. 4 /\ q.g \in Inputs /\ q.g.height \in Nat /\ q.toGo \in 0 .. q.g.height
      /\ (Groups(q) + 1) * m = w + m
  BY <1>1, GroupsInt
<1>3. Fed(q) = q.g.height - q.toGo
  BY DEF Fed
<1>4. \A k \in 0 .. m - 1 : Pointers(q.g)[k] = k /\ Color(q, k) = q.color[k]
  BY <1>1, <1>2, StripPointers DEF m
<1>5. w < q.g.height
  BY <1>1, <1>2, <1>3
<1> HIDE DEF m, w
<1>n. /\ q.nextBuf \in 1 .. m /\ m \in 1 .. 4 /\ w \in Nat /\ q.g.height \in Nat /\ q.toGo \in 0 .. q.g.height
      /\ q.g.height - q.toGo = w + q.nextBuf
  BY <1>1, <1>2, <1>3
<1>6. CASE ~(q.toGo = 0 /\ q.nextBuf < m)
  <2>1. PadColor(q) = q
    BY <1>6 DEF PadColor, m
  <2>2. Changes(q, q, {"color", "nextBuf"})
    BY DEF Changes
  <2>3. ASSUME q.nextBuf = m PROVE Shows(q, 0, w, 0)
    <3> HIDE DEF w
    <3> SUFFICES ASSUME NEW o \in 0 .. m - 1 PROVE Color(q, 0 + o) = Clamp(w + o, q.g.height)
      <4>1. \A x \in -0 .. m - 1 + 0 : x \in 0 .. m - 1
        BY <1>n
      <4> QED
        BY <4>1 DEF Shows, m
    <3>1. 0 + o = o /\ o \in Int
      BY <1>n
    <3>2. ~(w + o < 0) /\ ~(w + o >= q.g.height)
      BY <1>n, <2>3
    <3>3. Color(q, o) = w + o
      BY <1>1, <1>4, <2>3
    <3> QED
      BY <3>1, <3>2, <3>3 DEF Clamp
  <2>4. Padded(q)
    BY <1>1, <1>2, <1>3, <1>5, <1>6, <2>3 DEF Padded, m, w
  <2> QED
    BY <2>1, <2>2, <2>4
<1>7. CASE q.toGo = 0 /\ q.nextBuf < m
  <2> DEFINE r == PadColor(q)
  <2>0. r = Expanded(q, q.nextBuf, m)
    BY <1>7 DEF PadColor, Expanded, m
  <2> HIDE DEF r
  <2>1. DOMAIN q = InputFields
    BY <1>1 DEF Object
  <2>2. /\ Changes(q, r, {"color", "nextBuf"}) /\ r.nextBuf = m /\ DOMAIN r.color = DOMAIN q.color
        /\ \A k \in DOMAIN q.color :
             r.color[k] = IF \E row \in q.nextBuf .. m - 1 : Pointers(q.g)[row] = k THEN Color(q, q.nextBuf - 1) ELSE q.color[k]
    <3>1. Changes(q, r, {"color", "nextBuf"}) /\ r.nextBuf = m /\ Fills(q, r.color, q.nextBuf, m)
      BY <2>0, <2>1, ColorExpanded
    <3> QED
      BY <3>1 DEF Fills
  <2>3. r.toGo = q.toGo
    BY <2>1, <2>2 DEF Changes, InputFields
  <2>4. /\ Object(r) /\ Prepared(r) /\ Groups(r) = Groups(q) /\ r.g = q.g /\ r.suspended = q.suspended
        /\ r.rowgroup = q.rowgroup
    <3>1. Changes(q, r, {"color", "nextBuf", "toGo", "this", "stop"})
      BY <2>2, ChangesMore
    <3> QED
      BY <1>1, <1>2, <2>3, <3>1, SameOut
  <2>5. q.g.height = w + q.nextBuf
    BY <1>n, <1>7
  <2>6. Color(q, q.nextBuf - 1) = w + q.nextBuf - 1
    <3>1. q.nextBuf - 1 \in 0 .. m - 1 /\ q.nextBuf - 1 \in 0 .. q.nextBuf - 1
      BY <1>n
    <3>2. Color(q, q.nextBuf - 1) = w + (q.nextBuf - 1)
      BY <1>1, <1>4, <3>1
    <3> QED
      BY <1>n, <3>2
  <2>7. ASSUME NEW o \in 0 .. m - 1 PROVE Color(r, 0 + o) = Clamp(w + o, q.g.height)
    <3>0. 0 + o = o /\ o \in Int
      BY <1>n
    <3>1. Color(r, o) = r.color[o]
      BY <1>1, <1>2, <2>4, StripPointers DEF m
    <3>2. CASE o < q.nextBuf
      <4>1. \A row \in q.nextBuf .. m - 1 : Pointers(q.g)[row] # o
        BY <1>n, <1>4, <3>2
      <4>2. o \in 0 .. q.nextBuf - 1
        BY <1>n, <3>2
      <4>3. r.color[o] = w + o
        BY <1>1, <2>2, <4>1, <4>2
      <4>4. ~(w + o >= q.g.height) /\ ~(w + o < 0)
        BY <1>n, <2>5, <3>2
      <4> QED
        BY <3>0, <3>1, <4>3, <4>4 DEF Clamp
    <3>3. CASE o >= q.nextBuf
      <4>1. o \in q.nextBuf .. m - 1
        BY <1>n, <3>3
      <4>2. r.color[o] = w + q.nextBuf - 1
        BY <1>1, <1>4, <2>2, <2>6, <4>1
      <4>3. w + o >= q.g.height /\ ~(w + o < 0) /\ w + q.nextBuf - 1 = q.g.height - 1
        BY <1>n, <2>5, <3>3
      <4> QED
        BY <3>0, <3>1, <4>2, <4>3 DEF Clamp
    <3> QED
      BY <1>n, <3>0, <3>2, <3>3
  <2>8. Shows(r, 0, Groups(r) * MaxV(r.g), 0)
    <3>1. \A x \in -0 .. m - 1 + 0 : x \in 0 .. m - 1
      BY <1>n
    <3> QED
      BY <2>4, <2>7, <3>1 DEF Shows, m, w
  <2>9. Padded(r)
    BY <1>1, <1>2, <1>5, <1>7, <2>2, <2>3, <2>4, <2>5, <2>8 DEF Padded, m, w
  <2> QED
    BY <2>2, <2>9 DEF r
<1> QED
  BY <1>6, <1>7

\* Once the downsampler has emptied it.
Emptied(q) ==
  /\ Object(q) /\ Prepared(q) /\ ~NeedContextRows(q.g) /\ ~q.suspended
  /\ DOMAIN q.color = 0 .. MaxV(q.g) - 1 /\ q.nextBuf \in 0 .. MaxV(q.g) - 1
  /\ \A j \in 0 .. q.nextBuf - 1 : q.color[j] = Groups(q) * MaxV(q.g) + j
  /\ q.toGo > 0 => Fed(q) = Groups(q) * MaxV(q.g) + q.nextBuf
  /\ q.toGo = 0 => /\ q.nextBuf = 0 /\ q.rowgroup > 0 /\ q.g.height <= Groups(q) * MaxV(q.g)
                   /\ (Groups(q) - 1) * MaxV(q.g) < q.g.height

LEMMA StripEmpties ==
  ASSUME NEW q, Padded(q)
  PROVE  Emptied(EmptyColor(q)) /\ Changes(q, EmptyColor(q), {"out", "nextBuf", "rowgroup"})
<1>1. /\ Object(q) /\ Prepared(q) /\ ~NeedContextRows(q.g) /\ q.rowgroup < DctSize /\ ~q.suspended
      /\ DOMAIN q.color = 0 .. MaxV(q.g) - 1 /\ q.nextBuf \in 1 .. MaxV(q.g)
      /\ Groups(q) * MaxV(q.g) < q.g.height
  BY DEF Padded
<1>2. /\ Groups(q) \in Nat /\ MaxV(q.g) \in 1 .. 4 /\ q.toGo \in 0 .. q.g.height
      /\ (Groups(q) + 1) * MaxV(q.g) = Groups(q) * MaxV(q.g) + MaxV(q.g)
  BY <1>1, GroupsInt
<1>3. q.rowgroup \in 0 .. DctSize /\ DctSize \in Nat
  BY <1>1, InputsAssumption DEF Object
<1>4. CASE q.nextBuf # MaxV(q.g)
  <2>1. EmptyColor(q) = q
    BY <1>4 DEF EmptyColor
  <2>2. Changes(q, q, {"out", "nextBuf", "rowgroup"})
    BY DEF Changes
  <2>3. /\ q.toGo > 0
        /\ \A j \in 0 .. q.nextBuf - 1 : q.color[j] = Groups(q) * MaxV(q.g) + j
        /\ Fed(q) = Groups(q) * MaxV(q.g) + q.nextBuf
    BY <1>4 DEF Padded
  <2>4. q.nextBuf \in 0 .. MaxV(q.g) - 1 /\ q.toGo # 0
    BY <1>1, <1>2, <1>4, <2>3
  <2>5. Emptied(q)
    BY <1>1, <2>3, <2>4 DEF Emptied
  <2> QED
    BY <2>1, <2>2, <2>5
<1>5. CASE q.nextBuf = MaxV(q.g)
  <2> DEFINE s == SepDownsample(q, 0, q.rowgroup)
             r == EmptyColor(q)
  <2>1. r = [s EXCEPT !.nextBuf = 0, !.rowgroup = @ + 1]
    BY <1>5 DEF EmptyColor
  <2>2. /\ Shows(q, 0, Groups(q) * MaxV(q.g), 0)
        /\ q.toGo > 0 => Fed(q) = (Groups(q) + 1) * MaxV(q.g)
        /\ q.toGo = 0 => q.g.height <= (Groups(q) + 1) * MaxV(q.g)
    BY <1>5 DEF Padded
  <2>3. Changes(q, s, {"out"}) /\ GroupsRight(q, s.out, q.rowgroup + 1)
    <3>1. 0 \in Int
      OBVIOUS
    <3> QED
      BY <1>1, <2>2, <3>1, GroupTaken
  <2> HIDE DEF s, r
  <2>4. DOMAIN q = InputFields /\ DOMAIN s = InputFields
    BY <1>1, <2>3 DEF Object, Changes
  <2>5. /\ DOMAIN r = InputFields /\ Changes(q, r, {"out", "nextBuf", "rowgroup"})
        /\ r.nextBuf = 0 /\ r.rowgroup = q.rowgroup + 1 /\ r.out = s.out
        /\ r.g = q.g /\ r.toGo = q.toGo /\ r.curRow = q.curRow /\ r.suspended = q.suspended
        /\ r.next = q.next /\ r.coded = q.coded /\ r.color = q.color
    <3>1. s.rowgroup = q.rowgroup
      BY <2>3, <2>4 DEF Changes, InputFields
    <3>2. /\ DOMAIN r = InputFields /\ Changes(s, r, {"nextBuf", "rowgroup"})
          /\ r.nextBuf = 0 /\ r.rowgroup = q.rowgroup + 1 /\ r.out = s.out
      BY <2>1, <2>4, <3>1 DEF Changes, InputFields
    <3>3. Changes(q, r, {"out", "nextBuf", "rowgroup"})
      BY <2>3, <3>2 DEF Changes
    <3> QED
      BY <2>4, <3>2, <3>3 DEF Changes, InputFields
  <2>6. Object(r) /\ Prepared(r) /\ Groups(r) = Groups(q) + 1
    BY <1>1, <2>3, <2>5, GroupCounted
  <2>7. (Groups(r) - 1) * MaxV(r.g) < r.g.height
    <3>1. Groups(r) - 1 = Groups(q)
      BY <1>2, <2>6
    <3> QED
      BY <1>1, <2>5, <3>1
  <2>8. r.toGo > 0 => Fed(r) = Groups(r) * MaxV(r.g) + r.nextBuf
    <3>1. Fed(r) = Fed(q)
      BY <2>5 DEF Fed
    <3>2. (Groups(q) + 1) * MaxV(q.g) \in Int
      BY <1>2
    <3>3. r.toGo > 0 => Fed(r) = (Groups(q) + 1) * MaxV(q.g)
      BY <2>2, <2>5, <3>1
    <3> QED
      BY <2>5, <2>6, <3>2, <3>3
  <2>9. r.toGo = 0 => r.g.height <= Groups(r) * MaxV(r.g)
    BY <2>2, <2>5, <2>6
  <2>10. r.nextBuf \in 0 .. MaxV(r.g) - 1 /\ r.rowgroup > 0
    BY <1>2, <1>3, <2>5
  <2>11. \A j \in 0 .. r.nextBuf - 1 : FALSE
    BY <2>5
  <2>12. ~r.suspended /\ ~NeedContextRows(r.g) /\ DOMAIN r.color = 0 .. MaxV(r.g) - 1
    BY <1>1, <2>5
  <2>13. Emptied(r)
    BY <2>5, <2>6, <2>7, <2>8, <2>9, <2>10, <2>11, <2>12 DEF Emptied
  <2> QED
    BY <2>5, <2>13 DEF r
<1> QED
  BY <1>4, <1>5

LEMMA StripFills ==
  ASSUME NEW q, Emptied(q)
  PROVE  LET r == PadOut(q)
         IN /\ Object(r) /\ Prepared(r) /\ ~r.suspended /\ Strip(r)
            /\ Changes(q, r, {"out", "rowgroup"})
<1>1. /\ Object(q) /\ Prepared(q) /\ ~NeedContextRows(q.g) /\ ~q.suspended
      /\ DOMAIN q.color = 0 .. MaxV(q.g) - 1 /\ q.nextBuf \in 0 .. MaxV(q.g) - 1
      /\ \A j \in 0 .. q.nextBuf - 1 : q.color[j] = Groups(q) * MaxV(q.g) + j
      /\ q.toGo > 0 => Fed(q) = Groups(q) * MaxV(q.g) + q.nextBuf
      /\ q.toGo = 0 => /\ q.nextBuf = 0 /\ q.rowgroup > 0 /\ q.g.height <= Groups(q) * MaxV(q.g)
                       /\ (Groups(q) - 1) * MaxV(q.g) < q.g.height
  BY DEF Emptied
<1>2. /\ Groups(q) \in Nat /\ MaxV(q.g) \in 1 .. 4 /\ q.toGo \in 0 .. q.g.height /\ q.g \in Inputs
      /\ q.g.height \in Nat \ {0}
  BY <1>1, GroupsInt
<1>3. q.rowgroup \in 0 .. DctSize /\ DctSize \in Nat /\ q.curRow \in Nat /\ DOMAIN q = InputFields
  BY <1>1, InputsAssumption DEF Object
<1>4. CASE ~(q.toGo = 0 /\ q.rowgroup < DctSize)
  <2>1. PadOut(q) = q
    BY <1>4 DEF PadOut
  <2>2. Changes(q, q, {"out", "rowgroup"})
    BY DEF Changes
  <2>3. q.toGo = 0 => q.rowgroup = DctSize
    BY <1>3, <1>4
  <2>4. Strip(q)
    BY <1>1, <2>3 DEF Strip
  <2> QED
    BY <1>1, <2>1, <2>2, <2>4
<1>5. CASE q.toGo = 0 /\ q.rowgroup < DctSize
  <2> DEFINE out == [ci \in Comps(q.g) |-> [row \in DOMAIN q.out[ci] |->
                       IF row >= q.rowgroup * q.g.v[ci] THEN q.out[ci][q.rowgroup * q.g.v[ci] - 1] ELSE q.out[ci][row]]]
             r == PadOut(q)
  <2>1. r = [q EXCEPT !.out = out, !.rowgroup = DctSize]
    BY <1>3, <1>5 DEF PadOut, ExpandOut, InputFields
  <2>2. GroupsRight(q, q.out, q.rowgroup)
    BY <1>1 DEF Prepared
  <2>3. ASSUME NEW ci \in Comps(q.g), NEW k \in 0 .. q.g.v[ci] * DctSize - 1
        PROVE  RightRows(q, out, q.curRow, ci, k)
    <3> DEFINE v == q.g.v[ci]
               rg == q.rowgroup
               cr == q.curRow
    <3>1. v \in 1 .. 4 /\ rg \in Nat \ {0} /\ cr \in Nat /\ rg <= DctSize - 1
      BY <1>1, <1>2, <1>3, <1>5, Sampling
    <3>2. DOMAIN q.out[ci] = 0 .. v * DctSize - 1
      BY <2>2 DEF GroupsRight
    <3>3. out[ci][k] = IF k >= rg * v THEN q.out[ci][rg * v - 1] ELSE q.out[ci][k]
      BY <3>2
    <3> HIDE DEF out, v, rg, cr
    <3>4. v * DctSize \in Nat /\ rg * v \in Nat /\ rg * v >= 1 /\ rg * v <= v * DctSize - v
      <4>1. rg * v <= (DctSize - 1) * v
        BY <1>3, <3>1
      <4>2. (DctSize - 1) * v = v * DctSize - v /\ v * DctSize \in Nat
        BY <1>3, <3>1
      <4>3. rg * v >= 1 * v /\ 1 * v = v
        BY <3>1
      <4> QED
        BY <3>1, <4>1, <4>2, <4>3
    <3>5. k \in Nat
      BY <3>4 DEF v
    <3>6. \A i \in 0 .. v * DctSize - 1 : i < rg * v => RightRows(q, q.out, q.curRow, ci, i)
      BY <2>2, <3>2 DEF GroupsRight, v, rg
    <3>7. CASE k < rg * v
      <4>1. RightRows(q, q.out, q.curRow, ci, k) /\ ~(k >= rg * v)
        BY <3>4, <3>5, <3>6, <3>7 DEF v
      <4> QED
        BY <3>3, <4>1 DEF RightRows
    <3>8. CASE k >= rg * v
      <4> DEFINE x == cr * v * DctSize
                 n == Groups(q)
      <4>1. x \in Nat /\ n \in Nat /\ n * v = x + rg * v /\ n # 0
        <5>1. x \in Nat
          BY <1>3, <3>1
        <5>2. n = cr * DctSize + rg
          BY DEF Groups, cr, rg
        <5>3. n * v = cr * v * DctSize + (rg * v + 0)
          <6>1. cr \in Int /\ v \in Int /\ DctSize \in Int /\ rg \in Int /\ 0 \in Int
            BY <1>3, <3>1
          <6>2. cr * v * DctSize + (rg * v + 0) = (cr * DctSize + rg) * v + 0
            BY <6>1, SumOfGroups
          <6>3. (cr * DctSize + rg) * v \in Int
            BY <6>1
          <6> QED
            BY <5>2, <6>2, <6>3
        <5>4. cr * DctSize \in Nat
          BY <1>3, <3>1
        <5> QED
          BY <3>1, <3>4, <5>1, <5>2, <5>3, <5>4
      <4> HIDE DEF x, n
      <4>2. rg * v - 1 \in 0 .. v * DctSize - 1 /\ rg * v - 1 < rg * v
        BY <3>1, <3>4
      <4>3. q.out[ci][rg * v - 1] = Downsampled(q.g, ci, x + (rg * v - 1))
        BY <3>6, <4>2 DEF RightRows, x, cr, v
      <4>4. x + (rg * v - 1) = n * v - 1
        BY <3>4, <4>1
      <4>5. x + k \in Nat /\ n * v <= x + k
        BY <3>4, <3>5, <3>8, <4>1
      <4>6. q.g.height <= n * MaxV(q.g) /\ (n - 1) * MaxV(q.g) < q.g.height
        BY <1>1, <1>5 DEF n
      <4>7. Downsampled(q.g, ci, x + k) = Downsampled(q.g, ci, n * v - 1)
        BY <1>1, <1>2, <4>1, <4>5, <4>6, DownsampledBelow DEF v
      <4> QED
        BY <3>3, <3>8, <4>3, <4>4, <4>7 DEF RightRows, x, cr, v
    <3> QED
      BY <3>4, <3>5, <3>7, <3>8
  <2>4. DOMAIN out = Comps(q.g) /\ \A ci \in Comps(q.g) : DOMAIN out[ci] = 0 .. q.g.v[ci] * DctSize - 1
    BY <2>2 DEF GroupsRight
  <2> HIDE DEF out, r
  <2>5. /\ DOMAIN r = InputFields /\ Changes(q, r, {"out", "rowgroup"})
        /\ r.rowgroup = DctSize /\ r.out = out
        /\ r.g = q.g /\ r.toGo = q.toGo /\ r.curRow = q.curRow /\ r.suspended = q.suspended
        /\ r.next = q.next /\ r.coded = q.coded /\ r.color = q.color /\ r.nextBuf = q.nextBuf
    BY <1>3, <2>1 DEF Changes, InputFields
  <2>6. Object(r)
    BY <1>1, <1>3, <2>5 DEF Object
  <2>7. Prepared(r)
    <3>1. GroupsRight(r, r.out, r.rowgroup)
      <4>1. ASSUME NEW ci \in Comps(r.g), NEW k \in DOMAIN r.out[ci]
            PROVE  RightRows(r, r.out, r.curRow, ci, k)
        <5>1. ci \in Comps(q.g) /\ k \in 0 .. q.g.v[ci] * DctSize - 1
          BY <2>4, <2>5
        <5>2. RightRows(q, out, q.curRow, ci, k)
          BY <2>3, <5>1
        <5> QED
          BY <2>5, <5>2 DEF RightRows
      <4>2. DOMAIN r.out = Comps(r.g) /\ \A ci \in Comps(r.g) : DOMAIN r.out[ci] = 0 .. r.g.v[ci] * DctSize - 1
        BY <2>4, <2>5
      <4> QED
        BY <4>1, <4>2 DEF GroupsRight
    <3> QED
      BY <1>1, <2>5, <3>1 DEF Prepared, RightRows
  <2>8. Groups(r) * MaxV(r.g) >= r.g.height
    <3> DEFINE m == MaxV(q.g)
               cr == q.curRow
               rg == q.rowgroup
    <3>1. Groups(r) = cr * DctSize + DctSize /\ Groups(q) = cr * DctSize + rg
      BY <2>5 DEF Groups
    <3> HIDE DEF m, cr, rg
    <3>2. cr * DctSize \in Nat /\ rg \in Nat /\ rg <= DctSize /\ m \in 1 .. 4
      BY <1>2, <1>3 DEF cr, rg, m
    <3>3. Groups(r) \in Nat /\ Groups(q) <= Groups(r)
      BY <1>3, <3>1, <3>2
    <3> DEFINE x == Groups(r)
               y == Groups(q)
    <3>4. x \in Nat /\ y \in Nat /\ y <= x
      BY <1>2, <3>3
    <3> HIDE DEF x, y
    <3>5. y * m <= x * m /\ y * m \in Nat /\ x * m \in Nat
      BY <3>2, <3>4
    <3>6. q.g.height <= y * m
      BY <1>1, <1>5 DEF y, m
    <3> QED
      BY <1>2, <2>5, <3>5, <3>6 DEF x, m
  <2>9. Strip(r)
    <3>1. r.toGo = 0 /\ r.nextBuf = 0 /\ ~(r.toGo > 0)
      BY <1>1, <1>5, <2>5
    <3>2. \A j \in 0 .. r.nextBuf - 1 : FALSE
      BY <3>1
    <3> QED
      BY <1>1, <1>5, <2>5, <2>8, <3>1, <3>2 DEF Strip
  <2> QED
    BY <1>1, <2>5, <2>6, <2>7, <2>9 DEF r
<1> QED
  BY <1>4, <1>5

\* What the turns of a call leave alone.
Same(a, b) ==
  /\ b.room = a.room /\ b.run = a.run /\ b.p.g = a.p.g /\ b.p.curRow = a.p.curRow
  /\ b.p.next = a.p.next /\ b.p.suspended = a.p.suspended

LEMMA StripStep ==
  ASSUME NEW a, NEW n, Call(a, n), ~NeedContextRows(a.p.g), a.taken < n, a.p.rowgroup < DctSize
  PROVE  LET b == PreProcessStep(a, n)
         IN Call(b, n) /\ Same(a, b) /\ b.taken > a.taken /\ b.taken <= n
<1> DEFINE num == Least(MaxV(a.p.g) - a.p.nextBuf, n - a.taken)
           c == Counted(ColorConvert(a, num), num)
           b == [c EXCEPT !.p = PadOut(EmptyColor(PadColor(@)))]
<1>1. PreProcessStep(a, n) = b
  BY DEF PreProcessStep
<1>2. /\ Loaded(c.p) /\ num > 0 /\ num <= n - a.taken
      /\ Changes(a, c, {"p", "taken"}) /\ Changes(a.p, c.p, {"color", "nextBuf", "toGo"})
      /\ c.taken = a.taken + num /\ c.p.next + c.taken = Fed(c.p)
  BY StripLoads
<1>0. num \in Int /\ a.taken \in Int /\ n \in Nat
  <2>1. a.taken \in Int /\ n \in Nat
    BY DEF Call
  <2>2. MaxV(a.p.g) - a.p.nextBuf \in Int
    <3>1. Object(a.p) /\ Strip(a.p)
      BY DEF Call, Reading
    <3>2. MaxV(a.p.g) \in Int /\ a.p.nextBuf \in 0 .. MaxV(a.p.g) - 1
      BY <3>1, GroupsInt DEF Strip
    <3> QED
      BY <3>2
  <2> QED
    BY <2>1, <2>2 DEF Least
<1>3. DOMAIN a = LoopFields /\ DOMAIN a.p = InputFields
  BY DEF Call, Reading, Object
<1> HIDE DEF c, num
<1> DEFINE pad == PadColor(c.p)
           emptied == EmptyColor(pad)
           out == PadOut(emptied)
<1>4. Padded(pad) /\ Changes(c.p, pad, {"color", "nextBuf"})
  BY <1>2, StripPads
<1> HIDE DEF pad
<1>5. Emptied(emptied) /\ Changes(pad, emptied, {"out", "nextBuf", "rowgroup"})
  BY <1>4, StripEmpties
<1> HIDE DEF emptied
<1>6. Object(out) /\ Prepared(out) /\ ~out.suspended /\ Strip(out) /\ Changes(emptied, out, {"out", "rowgroup"})
  BY <1>5, StripFills
<1> HIDE DEF out
<1>7. /\ Changes(c, b, {"p"}) /\ b.p = out
  <2>1. DOMAIN c = LoopFields
    BY <1>2, <1>3 DEF Changes
  <2> QED
    BY <2>1 DEF Changes, LoopFields, out, emptied, pad
<1> HIDE DEF b
<1>8. /\ out.g = c.p.g /\ out.toGo = c.p.toGo /\ out.next = c.p.next /\ out.curRow = c.p.curRow
  <2>1. DOMAIN c.p = InputFields
    BY <1>2, <1>3 DEF Changes
  <2>2. pad.g = c.p.g /\ pad.toGo = c.p.toGo /\ pad.next = c.p.next /\ pad.curRow = c.p.curRow /\ DOMAIN pad = InputFields
    BY <1>4, <2>1 DEF Changes, InputFields
  <2>3. emptied.g = c.p.g /\ emptied.toGo = c.p.toGo /\ emptied.next = c.p.next /\ emptied.curRow = c.p.curRow /\ DOMAIN emptied = InputFields
    BY <1>5, <2>2 DEF Changes, InputFields
  <2> QED
    BY <1>6, <2>3 DEF Changes, InputFields
<1>9. c.p.g = a.p.g /\ c.p.next = a.p.next /\ c.p.curRow = a.p.curRow /\ c.p.suspended = a.p.suspended
  BY <1>2, <1>3 DEF Changes, InputFields
<1>10. DOMAIN b = LoopFields /\ b.taken = c.taken /\ b.room = a.room /\ b.run = a.run
  <2>1. DOMAIN c = LoopFields /\ c.room = a.room /\ c.run = a.run
    BY <1>2, <1>3 DEF Changes, LoopFields
  <2> QED
    BY <1>7, <2>1 DEF Changes, LoopFields
<1>11. ~a.p.suspended
  BY <1>2, <1>9 DEF Loaded
<1>12. out.suspended = a.p.suspended
  <2>1. out.suspended \in BOOLEAN /\ a.p.suspended \in BOOLEAN
    BY <1>6 DEF Object, Call, Reading
  <2> QED
    BY <1>6, <1>11, <2>1
<1>13. Fed(out) = Fed(c.p) /\ Owed(out) = 0 /\ Fed(out) \in Int
  <2>1. Fed(out) = Fed(c.p)
    BY <1>8 DEF Fed
  <2>2. Fed(out) \in Int
    <3>1. out.toGo \in 0 .. out.g.height /\ out.g.height \in Nat \ {0}
      BY <1>6, GroupsInt
    <3> QED
      BY <3>1 DEF Fed
  <2> QED
    BY <1>6, <2>1, <2>2 DEF Owed
<1>14. Reading(out)
  <2>1. ~NeedContextRows(out.g)
    BY <1>8, <1>9
  <2> QED
    BY <1>6, <2>1 DEF Reading
<1>15. Call(b, n)
  <2>1. b.taken \in Int
    BY <1>0, <1>2, <1>10
  <2>2. b.p.next + b.taken = Fed(b.p) - Owed(b.p)
    BY <1>2, <1>7, <1>8, <1>10, <1>13
  <2>3. b.p.next + n <= b.p.g.height
    <3>1. a.p.next + n <= a.p.g.height
      BY DEF Call
    <3> QED
      BY <1>7, <1>8, <1>9, <3>1
  <2> QED
    BY <1>0, <1>7, <1>10, <1>14, <2>1, <2>2, <2>3 DEF Call
<1>16. Same(a, b)
  BY <1>7, <1>8, <1>9, <1>10, <1>12 DEF Same
<1>17. b.taken > a.taken /\ b.taken <= n
  BY <1>0, <1>2, <1>10
<1> QED
  BY <1>1, <1>15, <1>16, <1>17

\* pre_process_data as a whole: it stops when the rows are used up or the iMCU row is full.
LEMMA StripCall ==
  ASSUME NEW a, NEW n, Call(a, n), ~NeedContextRows(a.p.g), 0 <= a.taken, a.taken + Owed(a.p) <= n
  PROVE  LET b == PreProcessData(a, n)
         IN /\ Call(b, n) /\ Same(a, b) /\ 0 <= b.taken /\ b.taken <= n
            /\ b.taken = n \/ b.p.rowgroup = DctSize
<1>0. n \in Nat /\ a.taken \in Int /\ DctSize \in Nat /\ Owed(a.p) \in {0, 1}
  BY InputsAssumption DEF Call, Owed
<1>1. PICK after : Turns(after, "strip", {}, n, n, a) /\ PreProcessData(a, n) = after[n]
  BY <1>0, StripTurns
<1> DEFINE P == {i \in 0 .. n : /\ Call(after[i], n) /\ Same(a, after[i]) /\ 0 <= after[i].taken
                                /\ after[i].taken <= n
                                /\ i <= after[i].taken \/ after[i].taken = n \/ after[i].p.rowgroup = DctSize}
<1>2. 0 \in P
  <2>1. Same(a, a)
    BY DEF Same
  <2>2. after[0] = a
    BY <1>1 DEF Turns
  <2>3. a.taken <= n
    BY <1>0
  <2> QED
    BY <1>0, <2>1, <2>2, <2>3
<1>3. ASSUME NEW i \in 1 .. n, i - 1 \in P PROVE i \in P
  <2> DEFINE x == after[i - 1]
             y == after[i]
  <2>1. y = Turn("strip", {}, n, x)
    BY <1>1 DEF Turns
  <2>2. /\ Call(x, n) /\ Same(a, x) /\ 0 <= x.taken /\ x.taken <= n
        /\ i - 1 <= x.taken \/ x.taken = n \/ x.p.rowgroup = DctSize
    BY <1>3
  <2> HIDE DEF x, y
  <2>3. x.taken \in Int /\ x.p.rowgroup \in 0 .. DctSize
    BY <2>2 DEF Call, Reading, Object
  <2>4. CASE x.taken < n /\ x.p.rowgroup < DctSize
    <3>1. y = PreProcessStep(x, n)
      BY <2>1, <2>4 DEF Turn, Goes
    <3>2. ~NeedContextRows(x.p.g)
      BY <2>2 DEF Same
    <3>3. Call(y, n) /\ Same(x, y) /\ y.taken > x.taken /\ y.taken <= n
      BY <2>2, <2>4, <3>1, <3>2, StripStep
    <3>4. Same(a, y)
      BY <2>2, <3>3 DEF Same
    <3>5. y.taken \in Int
      BY <3>3 DEF Call
    <3>6. 0 <= y.taken /\ i <= y.taken
      <4>1. i - 1 <= x.taken
        BY <1>0, <2>2, <2>3, <2>4
      <4> QED
        BY <2>2, <2>3, <3>3, <3>5, <4>1
    <3> QED
      BY <3>3, <3>4, <3>6 DEF y
  <2>5. CASE ~(x.taken < n /\ x.p.rowgroup < DctSize)
    <3>1. y = x
      BY <2>1, <2>5 DEF Turn, Goes
    <3>2. x.taken = n \/ x.p.rowgroup = DctSize
      BY <1>0, <2>2, <2>3, <2>5
    <3> QED
      BY <2>2, <3>1, <3>2 DEF y
  <2> QED
    BY <2>4, <2>5
<1> HIDE DEF P
<1>4. \A i \in 0 .. n : i \in P
  BY <1>0, <1>2, <1>3, LoopInduction
<1>5. n \in P
  BY <1>0, <1>4
<1>6. after[n].taken \in Int
  BY <1>5 DEF P, Call
<1> QED
  BY <1>0, <1>1, <1>5, <1>6 DEF P

-----------------------------------------------------------------------------
(***************************************************************************)
(* With context: the color buffer is a ring of three row groups.           *)
(***************************************************************************)
LEMMA PlaceMoved ==
  ASSUME NEW m \in 1 .. 4
  PROVE  /\ \A x, z \in Int : (x + z * (3 * m)) % (3 * m) = x % (3 * m)
         /\ \A x \in Int : x % (3 * m) \in 0 .. 3 * m - 1
         /\ \A x \in 0 .. 3 * m - 1 : x % (3 * m) = x
         /\ \A x, y \in Int : x < y /\ y < x + 3 * m => x % (3 * m) # y % (3 * m)
<1>1. CASE m = 1 BY <1>1
<1>2. CASE m = 2 BY <1>2
<1>3. CASE m = 3 BY <1>3
<1>4. CASE m = 4 BY <1>4
<1> QED
  BY <1>1, <1>2, <1>3, <1>4

LEMMA TurnsOfRing ==
  ASSUME NEW n \in Nat, NEW m \in 1 .. 4
  PROVE  \E z \in Int : n * m = (n % 3) * m + z * (3 * m)
<1> DEFINE z == n \div 3
           r == n % 3
<1>1. z \in Int /\ r \in 0 .. 2 /\ n = 3 * z + r
  OBVIOUS
<1> HIDE DEF z, r
<1>2. n * m = r * m + z * (3 * m)
  <2>1. CASE m = 1 BY <1>1, <2>1
  <2>2. CASE m = 2 BY <1>1, <2>2
  <2>3. CASE m = 3 BY <1>1, <2>3
  <2>4. CASE m = 4 BY <1>1, <2>4
  <2> QED
    BY <2>1, <2>2, <2>3, <2>4
<1> QED
  BY <1>1, <1>2 DEF r

\* Where the ring is.
AtRing(q) ==
  /\ q.this = (Groups(q) % 3) * MaxV(q.g)
  /\ q.stop = ((Groups(q) + 1) % 3) * MaxV(q.g) + MaxV(q.g)

LEMMA RingPlaces ==
  ASSUME NEW q, Object(q), AtRing(q)
  PROVE  /\ q.this \in 0 .. 2 * MaxV(q.g) /\ q.stop \in MaxV(q.g) .. 3 * MaxV(q.g)
         /\ (Groups(q) + 2) * MaxV(q.g) = Groups(q) * MaxV(q.g) + 2 * MaxV(q.g)
         /\ (Groups(q) - 1) * MaxV(q.g) = Groups(q) * MaxV(q.g) - MaxV(q.g)
         /\ \A o \in Int : (q.this + o) % (3 * MaxV(q.g)) = (Groups(q) * MaxV(q.g) + o) % (3 * MaxV(q.g))
         /\ \A o \in Int : (q.stop + o) % (3 * MaxV(q.g))
                             = (Groups(q) * MaxV(q.g) + 2 * MaxV(q.g) + o) % (3 * MaxV(q.g))
<1> DEFINE m == MaxV(q.g)
           n == Groups(q)
<1>1. m \in 1 .. 4 /\ n \in Nat
  BY GroupsInt
<1>2. q.this = (n % 3) * m /\ q.stop = ((n + 1) % 3) * m + m
  BY DEF AtRing
<1> HIDE DEF m, n
<1>3. (n + 2) * m = n * m + 2 * m /\ (n - 1) * m = n * m - m /\ (n + 1) * m = n * m + m /\ n * m \in Nat
  BY <1>1
<1>4. ASSUME NEW r \in 0 .. 2 PROVE r * m \in 0 .. 2 * m
  <2>1. CASE r = 0 BY <2>1, <1>1
  <2>2. CASE r = 1 BY <2>2, <1>1
  <2>3. CASE r = 2 BY <2>3, <1>1
  <2> QED
    BY <2>1, <2>2, <2>3
<1>5. n % 3 \in 0 .. 2 /\ (n + 1) % 3 \in 0 .. 2
  BY <1>1
<1>6. q.this \in 0 .. 2 * m /\ q.stop \in m .. 3 * m
  <2>1. (n % 3) * m \in 0 .. 2 * m /\ ((n + 1) % 3) * m \in 0 .. 2 * m
    BY <1>4, <1>5
  <2> QED
    BY <1>1, <1>2, <2>1
<1>7. ASSUME NEW o \in Int PROVE (q.this + o) % (3 * m) = (n * m + o) % (3 * m)
  <2>1. PICK z \in Int : n * m = (n % 3) * m + z * (3 * m)
    BY <1>1, TurnsOfRing
  <2> DEFINE u == z * (3 * m)
  <2>2. u \in Int
    BY <1>1
  <2> HIDE DEF u
  <2>3. n * m + o = (q.this + o) + u
    BY <1>1, <1>2, <1>3, <1>6, <2>1, <2>2 DEF u
  <2>4. q.this + o \in Int
    BY <1>6, <1>1
  <2> QED
    BY <1>1, <2>3, <2>4, PlaceMoved DEF u
<1>8. ASSUME NEW o \in Int PROVE (q.stop + o) % (3 * m) = (n * m + 2 * m + o) % (3 * m)
  <2>0. n + 1 \in Nat
    BY <1>1
  <2>1. PICK z \in Int : (n + 1) * m = ((n + 1) % 3) * m + z * (3 * m)
    BY <1>1, <2>0, TurnsOfRing
  <2> DEFINE u == z * (3 * m)
  <2>2. u \in Int
    BY <1>1
  <2> HIDE DEF u
  <2> DEFINE x == q.stop + o
  <2>3. n * m + 2 * m + o = x + u
    BY <1>1, <1>2, <1>3, <1>6, <2>1, <2>2 DEF u
  <2>4. x \in Int
    BY <1>6, <1>1
  <2> HIDE DEF x
  <2>5. (x + z * (3 * m)) % (3 * m) = x % (3 * m)
    BY <1>1, <2>4, PlaceMoved
  <2> QED
    BY <2>3, <2>5 DEF u, x
<1> QED
  BY <1>3, <1>6, <1>7, <1>8 DEF m, n

LEMMA RingPointers ==
  ASSUME NEW q, q.g \in Inputs, NeedContextRows(q.g), NEW i \in -MaxV(q.g) .. 4 * MaxV(q.g) - 1
  PROVE  Pointers(q.g)[i] = i % (3 * MaxV(q.g)) /\ Color(q, i) = q.color[i % (3 * MaxV(q.g))]
BY DEF Pointers, Color

\* Before the downsampler takes the row group.
Held(q) ==
  /\ Object(q) /\ Prepared(q) /\ NeedContextRows(q.g) /\ ~q.suspended
  /\ DOMAIN q.color = 0 .. 3 * MaxV(q.g) - 1 /\ AtRing(q)
  /\ q.nextBuf \in 0 .. q.stop /\ (q.stop - MaxV(q.g) <= q.nextBuf \/ Groups(q) = 0)
  /\ q.toGo > 0 => Fed(q) = Filled(q)
  /\ q.toGo = 0 => Filled(q) >= q.g.height
  /\ \A w \in (Groups(q) - 1) * MaxV(q.g) .. Filled(q) - 1 :
       q.color[w % (3 * MaxV(q.g))] = Clamp(w, q.g.height)

\* The numbers of the ring.
LEMMA RingNumbers ==
  ASSUME NEW q, Object(q), AtRing(q), q.nextBuf \in 0 .. q.stop
  PROVE  LET m == MaxV(q.g)
             w == Groups(q) * m
         IN /\ m \in 1 .. 4 /\ w \in Nat /\ q.stop \in m .. 3 * m /\ q.this \in 0 .. 2 * m
            /\ q.nextBuf \in 0 .. 3 * m /\ (Groups(q) - 1) * m = w - m
            /\ Filled(q) = w + 2 * m - q.stop + q.nextBuf
            /\ q.toGo \in Nat /\ q.g.height \in Nat \ {0} /\ q.toGo <= q.g.height
            /\ Fed(q) = q.g.height - q.toGo
            /\ \A j \in Int : (q.nextBuf + j) % (3 * m) = (Filled(q) + j) % (3 * m)
            /\ \A o \in Int : (q.this + o) % (3 * m) = (w + o) % (3 * m)
<1> DEFINE m == MaxV(q.g)
           w == Groups(q) * m
<1>1. /\ m \in 1 .. 4 /\ w \in Nat /\ q.stop \in m .. 3 * m /\ q.this \in 0 .. 2 * m
      /\ (Groups(q) - 1) * m = w - m /\ (Groups(q) + 2) * m = w + 2 * m
      /\ q.toGo \in 0 .. q.g.height /\ q.g.height \in Nat \ {0}
  BY GroupsInt, RingPlaces
<1>7. /\ \A o \in Int : (q.this + o) % (3 * m) = (w + o) % (3 * m)
      /\ \A o \in Int : (q.stop + o) % (3 * m) = (w + 2 * m + o) % (3 * m)
  BY GroupsInt, RingPlaces
<1>2. Filled(q) = (Groups(q) + 2) * m - (q.stop - q.nextBuf)
  BY DEF Filled
<1> HIDE DEF m, w
<1>3. q.nextBuf \in 0 .. 3 * m
  BY <1>1
<1>4. Filled(q) = w + 2 * m - q.stop + q.nextBuf
  <2>1. (Groups(q) + 2) * m = w + 2 * m /\ m \in Int /\ w \in Int /\ q.stop \in Int /\ q.nextBuf \in Int
    BY <1>1, <1>3
  <2> QED
    BY <1>2, <2>1
<1>5. ASSUME NEW j \in Int PROVE (q.nextBuf + j) % (3 * m) = (Filled(q) + j) % (3 * m)
  <2> DEFINE o == q.nextBuf + j - q.stop
  <2>1. o \in Int /\ q.stop + o = q.nextBuf + j /\ w + 2 * m + o = Filled(q) + j
    <3>1. m \in Int /\ w \in Int /\ q.stop \in Int /\ q.nextBuf \in Int
      BY <1>1, <1>3
    <3> QED
      BY <1>4, <3>1
  <2> HIDE DEF o
  <2> QED
    BY <1>7, <2>1
<1>6. Fed(q) = q.g.height - q.toGo
  BY DEF Fed
<1> QED
  BY <1>1, <1>3, <1>4, <1>5, <1>6, <1>7 DEF m, w

\* The first row of the image is the context above it as well.
Tops(q) == q.toGo = q.g.height
Topped(q, a) ==
  IF Tops(q) THEN [a EXCEPT !.p.color = [k \in DOMAIN @ |-> IF k >= 2 * MaxV(q.g) THEN @[0] ELSE @[k]]] ELSE a

LEMMA TopRows ==
  ASSUME NEW a, DOMAIN a = LoopFields, DOMAIN a.p = InputFields, NEW q
  PROVE  LET b == Topped(q, a)
         IN /\ Changes(a, b, {"p"}) /\ Changes(a.p, b.p, {"color"})
            /\ DOMAIN b.p.color = DOMAIN a.p.color \/ ~Tops(q)
            /\ ~Tops(q) => b = a
            /\ Tops(q) => \A k \in DOMAIN a.p.color : b.p.color[k] = IF k >= 2 * MaxV(q.g) THEN a.p.color[0] ELSE a.p.color[k]
<1> DEFINE b == Topped(q, a)
<1>1. CASE Tops(q)
  <2> DEFINE color == [k \in DOMAIN a.p.color |-> IF k >= 2 * MaxV(q.g) THEN a.p.color[0] ELSE a.p.color[k]]
  <2>1. b = [a EXCEPT !.p.color = color]
    BY <1>1 DEF Topped, LoopFields, InputFields
  <2>2. DOMAIN color = DOMAIN a.p.color
        /\ \A k \in DOMAIN a.p.color : color[k] = IF k >= 2 * MaxV(q.g) THEN a.p.color[0] ELSE a.p.color[k]
    OBVIOUS
  <2> HIDE DEF color, b
  <2>3. Changes(a, b, {"p"}) /\ Changes(a.p, b.p, {"color"}) /\ b.p.color = color
    BY <2>1 DEF Changes, LoopFields, InputFields
  <2> QED
    BY <1>1, <2>2, <2>3 DEF b
<1>2. CASE ~Tops(q)
  <2>1. b = a
    BY <1>2 DEF Topped
  <2> QED
    BY <1>2, <2>1 DEF Changes
<1> QED
  BY <1>1, <1>2

LEMMA RingTops ==
  ASSUME NEW a, NEW num, DOMAIN a = LoopFields, DOMAIN a.p = InputFields
  PROVE  LET read == ColorConvert(a, num)
             b    == Counted(Topped(a.p, read), num)
         IN /\ Changes(a, b, {"p", "taken"}) /\ Changes(a.p, b.p, {"color", "nextBuf", "toGo"})
            /\ b.taken = a.taken + num /\ b.p.nextBuf = a.p.nextBuf + num /\ b.p.toGo = a.p.toGo - num
            /\ Stores(a.p, read.p.color, a.p.next + a.taken, num)
            /\ ~Tops(a.p) => b.p.color = read.p.color
            /\ Tops(a.p) => /\ DOMAIN b.p.color = DOMAIN a.p.color
                        /\ \A k \in DOMAIN a.p.color :
                             b.p.color[k] = IF k >= 2 * MaxV(a.p.g) THEN read.p.color[0] ELSE read.p.color[k]
<1> DEFINE read == ColorConvert(a, num)
           top  == Topped(a.p, read)
           b    == Counted(top, num)
<1>1. /\ Changes(a, read, {"p"}) /\ Changes(a.p, read.p, {"color"})
      /\ Stores(a.p, read.p.color, a.p.next + a.taken, num)
  BY ConvertStores
<1> HIDE DEF read
<1>2. DOMAIN read = LoopFields /\ DOMAIN read.p = InputFields /\ read.taken = a.taken
      /\ read.p.nextBuf = a.p.nextBuf /\ read.p.toGo = a.p.toGo /\ DOMAIN read.p.color = DOMAIN a.p.color
  BY <1>1 DEF Changes, LoopFields, InputFields, Stores
<1>3. /\ Changes(read, top, {"p"}) /\ Changes(read.p, top.p, {"color"})
      /\ DOMAIN top.p.color = DOMAIN read.p.color \/ ~Tops(a.p)
      /\ ~Tops(a.p) => top = read
      /\ Tops(a.p) => \A k \in DOMAIN read.p.color :
                    top.p.color[k] = IF k >= 2 * MaxV(a.p.g) THEN read.p.color[0] ELSE read.p.color[k]
  BY <1>2, TopRows
<1> HIDE DEF top
<1>4. DOMAIN top = LoopFields /\ DOMAIN top.p = InputFields /\ top.taken = a.taken
      /\ top.p.nextBuf = a.p.nextBuf /\ top.p.toGo = a.p.toGo
  BY <1>2, <1>3 DEF Changes, LoopFields, InputFields
<1>5. /\ Changes(top, b, {"p", "taken"}) /\ Changes(top.p, b.p, {"nextBuf", "toGo"})
      /\ b.taken = top.taken + num /\ b.p.nextBuf = top.p.nextBuf + num /\ b.p.toGo = top.p.toGo - num
  BY <1>4, CountedRows
<1> HIDE DEF b
<1>6. Changes(a, b, {"p", "taken"})
  BY <1>1, <1>3, <1>5 DEF Changes
<1>7. Changes(a.p, b.p, {"color", "nextBuf", "toGo"})
  BY <1>1, <1>3, <1>5 DEF Changes
<1>8. b.p.color = top.p.color
  BY <1>4, <1>5 DEF Changes, InputFields
<1>9. ~Tops(a.p) => b.p.color = read.p.color
  BY <1>3, <1>8
<1>10. Tops(a.p) => /\ DOMAIN b.p.color = DOMAIN a.p.color
                /\ \A k \in DOMAIN a.p.color :
                     b.p.color[k] = IF k >= 2 * MaxV(a.p.g) THEN read.p.color[0] ELSE read.p.color[k]
  BY <1>2, <1>3, <1>8
<1> QED
  BY <1>1, <1>4, <1>5, <1>6, <1>7, <1>9, <1>10 DEF b, top, read

LEMMA RingReads ==
  ASSUME NEW a, NEW n, Call(a, n), NeedContextRows(a.p.g), a.taken < n, a.p.rowgroup < DctSize
  PROVE  LET num == Least(a.p.stop - a.p.nextBuf, n - a.taken)
             b   == Counted(Topped(a.p, ColorConvert(a, num)), num)
         IN /\ Held(b.p) /\ num \in Nat \ {0} /\ num <= n - a.taken
            /\ Changes(a, b, {"p", "taken"}) /\ Changes(a.p, b.p, {"color", "nextBuf", "toGo"})
            /\ b.taken = a.taken + num /\ b.p.next + b.taken = Fed(b.p)
<1> DEFINE q == a.p
           m == MaxV(q.g)
           w == Groups(q) * m
           num == Least(q.stop - q.nextBuf, n - a.taken)
           first == Tops(q)
           read == ColorConvert(a, num)
           b == Counted(Topped(q, read), num)
<1>1. /\ DOMAIN a = LoopFields /\ Object(q) /\ Prepared(q) /\ Ring(q) /\ q.suspended = FALSE
      /\ a.taken \in Int /\ q.next + a.taken = Fed(q) - Owed(q) /\ n \in Nat /\ q.next + n <= q.g.height
  <2>1. Reading(q) /\ Object(q)
    BY DEF Call, Reading
  <2>2. q.rowgroup # DctSize
    BY <2>1, InputsAssumption DEF Object
  <2>3. q.suspended = FALSE
    BY <2>1, <2>2 DEF Reading, Object
  <2> QED
    BY <2>1, <2>3 DEF Call, Reading
<1>2. AtRing(q) /\ q.nextBuf \in 0 .. q.stop
  <2>1. AtRing(q) /\ q.nextBuf \in 0 .. q.stop - 1
    BY <1>1 DEF Ring, AtRing
  <2>2. q.stop \in Int
    BY <1>1, <2>1, RingPlaces, GroupsInt
  <2> QED
    BY <2>1, <2>2
<1>3. /\ m \in 1 .. 4 /\ w \in Nat /\ q.stop \in m .. 3 * m
      /\ q.nextBuf \in 0 .. 3 * m /\ (Groups(q) - 1) * m = w - m
      /\ Filled(q) = w + 2 * m - q.stop + q.nextBuf
      /\ q.toGo \in Nat /\ q.g.height \in Nat \ {0} /\ q.toGo <= q.g.height
      /\ Fed(q) = q.g.height - q.toGo
  BY <1>1, <1>2, RingNumbers
<1>4. \A j \in Int : (q.nextBuf + j) % (3 * m) = (Filled(q) + j) % (3 * m)
  BY <1>1, <1>2, RingNumbers
<1>5. /\ q.nextBuf < q.stop /\ (q.stop - m <= q.nextBuf \/ w = 0)
      /\ q.next \in Int /\ a.taken \in Int /\ n \in Nat /\ q.next + a.taken = Fed(q) /\ q.next + n <= q.g.height
  <2>1. q.nextBuf \in 0 .. q.stop - 1 /\ (q.stop - m <= q.nextBuf \/ Groups(q) = 0)
    BY <1>1 DEF Ring
  <2>2. Groups(q) = 0 => w = 0
    BY <1>3
  <2>3. Owed(q) = 0 /\ q.next \in Int
    BY <1>1 DEF Owed, Object
  <2> QED
    BY <1>1, <1>3, <2>1, <2>2, <2>3
<1>6. q.toGo > 0 /\ n - a.taken <= q.toGo /\ n - a.taken > 0
  <2> HIDE DEF m, w
  <2> QED
    BY <1>3, <1>5
<1>7. Fed(q) = Filled(q)
  BY <1>1, <1>6 DEF Ring
<1>8. \A v \in (Groups(q) - 1) * m .. Filled(q) - 1 : Filled(q) > 0 => q.color[v % (3 * m)] = Clamp(v, q.g.height)
  BY <1>1 DEF Ring
<1>9. DOMAIN q.color = 0 .. 3 * m - 1 /\ DOMAIN q = InputFields
  BY <1>1 DEF Ring, Object
<1> HIDE DEF m, w
<1>n. /\ m \in 1 .. 4 /\ w \in Nat /\ q.stop \in m .. 3 * m /\ q.nextBuf \in 0 .. 3 * m /\ q.nextBuf < q.stop
      /\ q.g.height \in Nat \ {0} /\ q.toGo \in Nat /\ q.toGo <= q.g.height /\ q.toGo > 0
      /\ n - a.taken <= q.toGo /\ n - a.taken > 0 /\ q.next \in Int /\ a.taken \in Int /\ n \in Nat
      /\ q.next + a.taken = Filled(q) /\ Filled(q) \in Int /\ Filled(q) = q.g.height - q.toGo
      /\ Filled(q) = w + 2 * m - q.stop + q.nextBuf /\ (q.stop - m <= q.nextBuf \/ w = 0)
  <2>1. Filled(q) = q.g.height - q.toGo /\ q.next + a.taken = Filled(q)
    BY <1>3, <1>5, <1>7
  <2>2. Filled(q) \in Int
    BY <1>3, <2>1
  <2> QED
    BY <1>3, <1>5, <1>6, <2>1, <2>2
<1>f. (first => Filled(q) = 0) /\ (~first => Filled(q) > 0) /\ first \in BOOLEAN
  <2> DEFINE x == q.toGo
             y == q.g.height
  <2>1. x \in Nat /\ y \in Nat /\ x <= y /\ Filled(q) = y - x
    BY <1>n
  <2> HIDE DEF x, y
  <2>2. (x = y => Filled(q) = 0) /\ (~(x = y) => Filled(q) > 0)
    BY <2>1
  <2> QED
    BY <2>2 DEF x, y, Tops
<1> HIDE DEF first
<1>t. first => w = 0 /\ q.nextBuf = q.stop - 2 * m
  <2> SUFFICES ASSUME Filled(q) = 0 PROVE w = 0 /\ q.nextBuf = q.stop - 2 * m
    BY <1>f
  <2> DEFINE z == q.stop
             u == q.nextBuf
  <2>1. /\ m \in Int /\ m > 0 /\ w \in Nat /\ z \in Int /\ u \in Int
        /\ Filled(q) = w + 2 * m - z + u /\ (z - m <= u \/ w = 0)
    BY <1>n
  <2> HIDE DEF z, u
  <2>2. 0 = w + 2 * m - z + u
    BY <2>1
  <2>3. w = 0
    BY <2>1, <2>2
  <2>4. u = z - 2 * m
    BY <2>1, <2>2, <2>3
  <2> QED
    BY <2>3, <2>4 DEF z, u
<1>10. num \in Nat \ {0} /\ num <= q.stop - q.nextBuf /\ num <= n - a.taken
  <2> DEFINE x == q.stop - q.nextBuf
             y == n - a.taken
  <2>1. x \in Nat \ {0} /\ y \in Nat \ {0}
    BY <1>n
  <2> HIDE DEF x, y
  <2>2. Least(x, y) \in Nat \ {0} /\ Least(x, y) <= x /\ Least(x, y) <= y
    BY <2>1 DEF Least
  <2> QED
    BY <2>2 DEF x, y
<1> HIDE DEF num
<1>11. /\ Changes(a, b, {"p", "taken"}) /\ Changes(q, b.p, {"color", "nextBuf", "toGo"})
       /\ b.taken = a.taken + num /\ b.p.nextBuf = q.nextBuf + num /\ b.p.toGo = q.toGo - num
       /\ Stores(q, read.p.color, q.next + a.taken, num)
       /\ ~first => b.p.color = read.p.color
       /\ first => /\ DOMAIN b.p.color = DOMAIN q.color
                   /\ \A k \in DOMAIN q.color :
                        b.p.color[k] = IF k >= 2 * m THEN read.p.color[0] ELSE read.p.color[k]
  <2>1. DOMAIN a = LoopFields /\ DOMAIN a.p = InputFields
    BY <1>1, <1>9
  <2> QED
    BY <2>1, RingTops DEF first, m
<1> HIDE DEF b, read
<1>12. \A j \in 0 .. num - 1 : Pointers(q.g)[q.nextBuf + j] = q.nextBuf + j /\ q.nextBuf + j \in 0 .. 3 * m - 1
  <2> SUFFICES ASSUME NEW j \in 0 .. num - 1
               PROVE  Pointers(q.g)[q.nextBuf + j] = q.nextBuf + j /\ q.nextBuf + j \in 0 .. 3 * m - 1
    OBVIOUS
  <2> DEFINE x == q.nextBuf + j
  <2>1. x \in 0 .. 3 * m - 1 /\ x \in -m .. 4 * m - 1
    BY <1>n, <1>10
  <2> HIDE DEF x
  <2>2. x % (3 * m) = x
    BY <1>n, <2>1, PlaceMoved
  <2>3. Pointers(q.g)[x] = x % (3 * m)
    BY <1>1, <2>1, RingPointers DEF Object, m
  <2> QED
    BY <2>1, <2>2, <2>3 DEF x
<1>13. ASSUME NEW j \in 0 .. num - 1 PROVE read.p.color[q.nextBuf + j] = Filled(q) + j
  <2> DEFINE k == q.nextBuf + j
  <2>1. k \in DOMAIN read.p.color /\ Pointers(q.g)[q.nextBuf + j] = k
    BY <1>9, <1>11, <1>12 DEF Stores
  <2>2. PICK i \in 0 .. num - 1 : Pointers(q.g)[q.nextBuf + i] = k /\ read.p.color[k] = q.next + a.taken + i
    BY <1>11, <2>1 DEF Stores
  <2>3. q.nextBuf + i = q.nextBuf + j
    BY <1>12, <2>2
  <2>4. i = j
    BY <1>n, <1>10, <2>3
  <2>5. q.next + a.taken + i = Filled(q) + j
    BY <1>n, <2>4
  <2> QED
    BY <2>2, <2>5
<1>14. ASSUME NEW k \in 0 .. 3 * m - 1, \A j \in 0 .. num - 1 : q.nextBuf + j # k
       PROVE  read.p.color[k] = q.color[k]
  <2>1. k \in DOMAIN read.p.color
    BY <1>9, <1>11 DEF Stores
  <2>2. \A j \in 0 .. num - 1 : Pointers(q.g)[q.nextBuf + j] # k
    BY <1>12, <1>14
  <2> QED
    BY <1>11, <2>1, <2>2 DEF Stores
<1>15. ASSUME NEW v \in w - m .. Filled(q) + num - 1 PROVE b.p.color[v % (3 * m)] = Clamp(v, q.g.height)
  <2> DEFINE place == v % (3 * m)
  <2>1. v \in Int /\ w - m <= v /\ v < Filled(q) + num
    BY <1>n, <1>10
  <2>2. place \in 0 .. 3 * m - 1
    BY <1>n, <2>1, PlaceMoved
  <2> HIDE DEF place
  <2>3. v >= 0 => ~(v < 0) /\ ~(v >= q.g.height)
    BY <1>n, <1>10, <2>1
  <2>4. CASE v >= Filled(q) /\ v >= 0
    <3> DEFINE j == v - Filled(q)
    <3>1. j \in 0 .. num - 1 /\ Filled(q) + j = v
      BY <1>n, <1>10, <2>1, <2>4
    <3> HIDE DEF j
    <3>2. place = q.nextBuf + j
      <4> DEFINE x == q.nextBuf + j
      <4>1. x \in 0 .. 3 * m - 1 /\ j \in Int
        BY <1>10, <1>12, <3>1
      <4>2. x % (3 * m) = (Filled(q) + j) % (3 * m)
        BY <1>4, <4>1
      <4> HIDE DEF x
      <4>3. x % (3 * m) = x
        BY <1>n, <4>1, PlaceMoved
      <4> QED
        BY <3>1, <4>2, <4>3 DEF x, place
    <3>3. read.p.color[place] = v
      BY <1>13, <3>1, <3>2
    <3>4. first => ~(place >= 2 * m)
      <4> SUFFICES ASSUME first PROVE place < 2 * m
        BY <1>n, <2>2
      <4>1. Filled(q) = 0
        BY <1>f
      <4>2. w = 0 /\ q.nextBuf = q.stop - 2 * m
        BY <1>t
      <4>3. q.nextBuf % (3 * m) = 0
        <5>1. (q.nextBuf + 0) % (3 * m) = (0 + 0) % (3 * m)
          BY <1>4, <4>1
        <5>2. q.nextBuf + 0 = q.nextBuf /\ 0 + 0 = 0 /\ 0 \in 0 .. 3 * m - 1
          BY <1>n
        <5>3. 0 % (3 * m) = 0
          BY <1>n, <5>2, PlaceMoved
        <5> QED
          BY <5>1, <5>2, <5>3
      <4>4. q.nextBuf \in 0 .. 3 * m - 1
        BY <1>n
      <4>5. q.nextBuf = 0
        BY <1>n, <4>3, <4>4, PlaceMoved
      <4> QED
        <5>1. place = 0 + j
          BY <3>2, <4>5
        <5>2. q.stop = 2 * m
          <6>1. m \in Int /\ q.stop \in Int
            BY <1>n
          <6> QED
            BY <4>2, <4>5, <6>1
        <5>3. num <= 2 * m
          BY <1>n, <1>10, <4>5, <5>2
        <5> QED
          BY <1>n, <1>10, <3>1, <5>1, <5>3
    <3>5. b.p.color[place] = read.p.color[place]
      BY <1>9, <1>11, <2>2, <3>4
    <3> QED
      BY <2>3, <2>4, <3>3, <3>5 DEF Clamp, place
  <2>5. CASE v < Filled(q) /\ ~first
    <3>1. Filled(q) > 0
      BY <1>f, <2>5
    <3>2. ASSUME NEW j \in 0 .. num - 1 PROVE q.nextBuf + j # place
      <4> DEFINE x == q.nextBuf + j
                 y == Filled(q) + j
      <4>1. x \in 0 .. 3 * m - 1 /\ j \in Int
        BY <1>10, <1>12
      <4>2. x % (3 * m) = y % (3 * m)
        BY <1>4, <4>1
      <4>3. y \in Int /\ v < y /\ y < v + 3 * m
        BY <1>n, <1>10, <2>1, <2>5
      <4> HIDE DEF x, y
      <4>4. x % (3 * m) = x
        BY <1>n, <4>1, PlaceMoved
      <4>5. v % (3 * m) # y % (3 * m)
        BY <1>n, <2>1, <4>3, PlaceMoved
      <4> QED
        BY <4>2, <4>4, <4>5 DEF x, place
    <3>3. read.p.color[place] = q.color[place]
      BY <1>14, <2>2, <3>2
    <3>4. v \in (Groups(q) - 1) * m .. Filled(q) - 1
      BY <1>n, <1>3, <2>1, <2>5
    <3>5. q.color[place] = Clamp(v, q.g.height)
      BY <1>8, <3>1, <3>4 DEF place
    <3> QED
      BY <1>11, <2>5, <3>3, <3>5 DEF place
  <2>6. CASE v < 0 /\ first
    <3>1. Filled(q) = 0
      BY <1>f, <2>6
    <3>2. w = 0
      BY <1>n, <3>1
    <3>3. place = v + 3 * m
      <4> DEFINE x == v + 3 * m
      <4>1. x \in 0 .. 3 * m - 1 /\ v + 1 * (3 * m) = x
        BY <1>n, <2>1, <2>6, <3>2
      <4>2. (v + 1 * (3 * m)) % (3 * m) = v % (3 * m)
        BY SMTT(20), <1>n, <2>1, PlaceMoved
      <4> HIDE DEF x
      <4>3. x % (3 * m) = x
        BY <1>n, <4>1, PlaceMoved
      <4> QED
        BY <4>1, <4>2, <4>3 DEF x, place
    <3>4. place >= 2 * m
      BY <1>n, <2>1, <3>2, <3>3
    <3>5. q.nextBuf % (3 * m) = 0
      <4>1. (q.nextBuf + 0) % (3 * m) = (0 + 0) % (3 * m)
        BY <1>4, <3>1
      <4>2. q.nextBuf + 0 = q.nextBuf /\ 0 + 0 = 0 /\ 0 \in 0 .. 3 * m - 1
        BY <1>n
      <4>3. 0 % (3 * m) = 0
        BY <1>n, <4>2, PlaceMoved
      <4> QED
        BY <4>1, <4>2, <4>3
    <3>6. q.nextBuf = 0
      <4>1. q.nextBuf \in 0 .. 3 * m - 1
        BY <1>n
      <4> QED
        BY <1>n, <3>5, <4>1, PlaceMoved
    <3>7. read.p.color[0] = 0
      <4>1. 0 \in 0 .. num - 1 /\ q.nextBuf + 0 = 0 /\ Filled(q) + 0 = 0
        BY <1>10, <3>1, <3>6
      <4>2. read.p.color[q.nextBuf + 0] = Filled(q) + 0
        BY <1>13, <4>1
      <4> QED
        BY <4>1, <4>2
    <3>8. b.p.color[place] = 0
      BY <1>9, <1>11, <2>2, <2>6, <3>4, <3>7
    <3> QED
      BY <2>6, <3>8 DEF Clamp, place
  <2>7. first => Filled(q) = 0
    BY <1>f
  <2>8. ~first => Filled(q) > 0
    BY <1>f
  <2> QED
    BY <1>n, <2>1, <2>4, <2>5, <2>6, <2>7, <2>8 DEF place
<1>16. b.p.toGo \in 0 .. q.g.height /\ b.p.nextBuf \in 0 .. q.stop
       /\ (q.stop - m <= b.p.nextBuf \/ w = 0)
  <2>1. b.p.toGo = q.toGo - num /\ b.p.nextBuf = q.nextBuf + num
    BY <1>11
  <2> QED
    BY <1>n, <1>10, <2>1
<1>17. /\ Object(b.p) /\ Prepared(b.p) /\ Groups(b.p) = Groups(q) /\ b.p.g = q.g /\ b.p.suspended = FALSE
       /\ b.p.next = q.next
  <2>1. Changes(q, b.p, {"color", "nextBuf", "toGo", "this", "stop"})
    BY <1>11, ChangesMore
  <2> QED
    BY <1>1, <1>16, <2>1, SameOut
<1>18. b.p.this = q.this /\ b.p.stop = q.stop
  BY <1>9, <1>11 DEF Changes, InputFields
<1>19. AtRing(b.p)
  BY <1>2, <1>17, <1>18 DEF AtRing
<1>20. /\ Filled(b.p) = Filled(q) + num /\ Fed(b.p) = Filled(q) + num
  <2>1. b.p.nextBuf \in 0 .. b.p.stop
    BY <1>16, <1>18
  <2>2. Filled(b.p) = w + 2 * m - q.stop + b.p.nextBuf
    BY <1>17, <1>18, <1>19, <2>1, RingNumbers DEF w, m
  <2>3. Fed(b.p) = q.g.height - b.p.toGo
    BY <1>17 DEF Fed
  <2>4. b.p.toGo = q.toGo - num /\ b.p.nextBuf = q.nextBuf + num
    BY <1>11
  <2> QED
    BY <1>n, <1>10, <2>2, <2>3, <2>4
<1>21. DOMAIN b.p.color = 0 .. 3 * m - 1
  <2>1. DOMAIN read.p.color = DOMAIN q.color
    BY <1>11 DEF Stores
  <2> QED
    BY <1>9, <1>11, <2>1
<1>22. Held(b.p)
  <2>1. b.p.toGo = 0 => Filled(b.p) >= q.g.height
    <3>1. b.p.toGo = q.toGo - num
      BY <1>11
    <3> QED
      BY <1>n, <1>10, <1>20, <3>1
  <2>2. \A v \in (Groups(b.p) - 1) * MaxV(b.p.g) .. Filled(b.p) - 1 :
          b.p.color[v % (3 * MaxV(b.p.g))] = Clamp(v, b.p.g.height)
    <3>1. (Groups(b.p) - 1) * MaxV(b.p.g) = w - m /\ MaxV(b.p.g) = m
      BY <1>3, <1>17 DEF m
    <3>2. Filled(b.p) - 1 = Filled(q) + num - 1
      BY <1>n, <1>10, <1>20
    <3> QED
      BY <1>15, <1>17, <3>1, <3>2
  <2>3. b.p.stop - MaxV(b.p.g) <= b.p.nextBuf \/ Groups(b.p) = 0
    <3>1. q.stop - m <= q.nextBuf \/ Groups(q) = 0
      BY <1>1 DEF Ring, m
    <3>2. b.p.nextBuf = q.nextBuf + num
      BY <1>11
    <3>3. q.stop - m <= q.nextBuf => q.stop - m <= b.p.nextBuf
      BY <1>n, <1>10, <3>2
    <3> QED
      BY <1>17, <1>18, <3>1, <3>3 DEF m
  <2>4. NeedContextRows(b.p.g) /\ DOMAIN b.p.color = 0 .. 3 * MaxV(b.p.g) - 1
    BY <1>17, <1>21 DEF m
  <2>5. b.p.nextBuf \in 0 .. b.p.stop
    BY <1>16, <1>18
  <2>6. Fed(b.p) = Filled(b.p)
    BY <1>20
  <2> QED
    BY <1>17, <1>19, <2>1, <2>2, <2>3, <2>4, <2>5, <2>6 DEF Held
<1>23. b.p.next + b.taken = Fed(b.p)
  <2>1. b.taken = a.taken + num
    BY <1>11
  <2>2. q.next + (a.taken + num) = Filled(q) + num
    BY <1>n, <1>10
  <2> QED
    BY <1>17, <1>20, <2>1, <2>2
<1> QED
  BY <1>10, <1>11, <1>22, <1>23 DEF b, num, m, read, first

\* At the bottom of the image the last row fills the row group.
LEMMA RingPads ==
  ASSUME NEW q, Object(q), Prepared(q), Ring(q), NeedContextRows(q.g), ~q.suspended, q.toGo = 0
  PROVE  LET r == [ExpandColor(q, q.nextBuf, q.stop) EXCEPT !.nextBuf = q.stop]
         IN Held(r) /\ Changes(q, r, {"color", "nextBuf"}) /\ r.nextBuf = r.stop
<1> DEFINE m == MaxV(q.g)
           w == Groups(q) * m
           r == [ExpandColor(q, q.nextBuf, q.stop) EXCEPT !.nextBuf = q.stop]
<1>2. AtRing(q) /\ q.nextBuf \in 0 .. q.stop
  <2>1. AtRing(q) /\ q.nextBuf \in 0 .. q.stop - 1
    BY DEF Ring, AtRing
  <2>2. q.stop \in Int
    BY <2>1, RingPlaces, GroupsInt
  <2> QED
    BY <2>1, <2>2
<1>3. /\ m \in 1 .. 4 /\ w \in Nat /\ q.stop \in m .. 3 * m
      /\ q.nextBuf \in 0 .. 3 * m /\ (Groups(q) - 1) * m = w - m
      /\ Filled(q) = w + 2 * m - q.stop + q.nextBuf
      /\ q.g.height \in Nat \ {0}
  BY <1>2, RingNumbers
<1>4. \A j \in Int : (q.nextBuf + j) % (3 * m) = (Filled(q) + j) % (3 * m)
  BY <1>2, RingNumbers
<1>5. /\ q.nextBuf < q.stop /\ (q.stop - m <= q.nextBuf \/ w = 0) /\ Filled(q) >= q.g.height
  <2>1. q.nextBuf \in 0 .. q.stop - 1 /\ (q.stop - m <= q.nextBuf \/ Groups(q) = 0) /\ Filled(q) >= q.g.height
    BY DEF Ring
  <2>2. Groups(q) = 0 => w = 0
    BY <1>3
  <2> QED
    BY <1>3, <2>1, <2>2
<1>6. \A v \in (Groups(q) - 1) * m .. Filled(q) - 1 : Filled(q) > 0 => q.color[v % (3 * m)] = Clamp(v, q.g.height)
  BY DEF Ring
<1>7. DOMAIN q.color = 0 .. 3 * m - 1 /\ DOMAIN q = InputFields /\ q.g \in Inputs
  BY DEF Ring, Object
<1>8. /\ Changes(q, r, {"color", "nextBuf"}) /\ r.nextBuf = q.stop /\ DOMAIN r.color = DOMAIN q.color
      /\ \A k \in DOMAIN q.color :
           r.color[k] = IF \E row \in q.nextBuf .. q.stop - 1 : Pointers(q.g)[row] = k THEN Color(q, q.nextBuf - 1) ELSE q.color[k]
  <2>1. r = Expanded(q, q.nextBuf, q.stop)
    BY DEF Expanded
  <2>2. DOMAIN q = InputFields
    BY <1>7
  <2> HIDE DEF r
  <2> QED
    <3>1. Changes(q, r, {"color", "nextBuf"}) /\ r.nextBuf = q.stop /\ Fills(q, r.color, q.nextBuf, q.stop)
      BY <2>1, <2>2, ColorExpanded
    <3> QED
      BY <3>1 DEF Fills
<1> HIDE DEF r, m, w
<1>n. /\ m \in 1 .. 4 /\ w \in Nat /\ q.stop \in m .. 3 * m /\ q.nextBuf \in 0 .. 3 * m /\ q.nextBuf < q.stop
      /\ q.g.height \in Nat \ {0} /\ Filled(q) \in Nat \ {0} /\ Filled(q) >= q.g.height
      /\ Filled(q) = w + 2 * m - q.stop + q.nextBuf /\ (q.stop - m <= q.nextBuf \/ w = 0)
  <2>1. Filled(q) \in Int
    BY <1>3
  <2> QED
    BY <1>3, <1>5, <2>1
<1>9. \A row \in q.nextBuf .. q.stop - 1 : Pointers(q.g)[row] = row /\ row \in 0 .. 3 * m - 1
  <2> SUFFICES ASSUME NEW row \in q.nextBuf .. q.stop - 1 PROVE Pointers(q.g)[row] = row /\ row \in 0 .. 3 * m - 1
    OBVIOUS
  <2>1. row \in 0 .. 3 * m - 1 /\ row \in -m .. 4 * m - 1
    BY <1>n
  <2>2. row % (3 * m) = row
    BY <1>n, <2>1, PlaceMoved
  <2>3. Pointers(q.g)[row] = row % (3 * m)
    BY <1>7, <2>1, RingPointers DEF m
  <2> QED
    BY <2>1, <2>2, <2>3
<1>10. Color(q, q.nextBuf - 1) = q.g.height - 1
  <2> DEFINE x == q.nextBuf - 1
             v == Filled(q) - 1
  <2>1. x \in -m .. 4 * m - 1 /\ v \in Int /\ v >= q.g.height - 1 /\ v >= 0
    BY <1>n
  <2>2. v \in w - m .. Filled(q) - 1
    BY <1>n
  <2>3. x % (3 * m) = v % (3 * m)
    <3>1. (q.nextBuf + (-1)) % (3 * m) = (Filled(q) + (-1)) % (3 * m)
      BY <1>4
    <3>2. q.nextBuf + (-1) = x /\ Filled(q) + (-1) = v
      BY <1>n
    <3> QED
      BY <3>1, <3>2
  <2> HIDE DEF x, v
  <2>4. q.color[v % (3 * m)] = Clamp(v, q.g.height)
    BY <1>n, <1>3, <1>6, <2>2
  <2>5. Clamp(v, q.g.height) = q.g.height - 1
    BY <1>n, <2>1 DEF Clamp
  <2>6. Color(q, x) = q.color[x % (3 * m)]
    BY <1>7, <2>1, RingPointers DEF m
  <2> QED
    BY <2>3, <2>4, <2>5, <2>6 DEF x
<1>11. ASSUME NEW v \in w - m .. w + 2 * m - 1 PROVE r.color[v % (3 * m)] = Clamp(v, q.g.height)
  <2> DEFINE place == v % (3 * m)
  <2>1. v \in Int /\ w - m <= v /\ v < w + 2 * m
    BY <1>n
  <2>2. place \in 0 .. 3 * m - 1
    BY <1>n, <2>1, PlaceMoved
  <2> HIDE DEF place
  <2>3. CASE v >= Filled(q)
    <3> DEFINE j == v - Filled(q)
    <3>1. j \in Int /\ Filled(q) + j = v /\ q.nextBuf + j \in q.nextBuf .. q.stop - 1
      BY <1>n, <2>1, <2>3
    <3> HIDE DEF j
    <3>2. place = q.nextBuf + j
      <4> DEFINE x == q.nextBuf + j
      <4>1. x \in 0 .. 3 * m - 1
        BY <1>9, <3>1
      <4>2. x % (3 * m) = (Filled(q) + j) % (3 * m)
        BY <1>4, <3>1
      <4> HIDE DEF x
      <4>3. x % (3 * m) = x
        BY <1>n, <4>1, PlaceMoved
      <4> QED
        BY <3>1, <4>2, <4>3 DEF x, place
    <3>3. r.color[place] = Color(q, q.nextBuf - 1)
      <4>1. place \in q.nextBuf .. q.stop - 1 /\ Pointers(q.g)[place] = place
        BY <1>9, <3>1, <3>2
      <4> QED
        BY <1>7, <1>8, <2>2, <4>1
    <3>4. ~(v < 0) /\ v >= q.g.height
      BY <1>n, <2>1, <2>3
    <3> QED
      BY <1>10, <3>3, <3>4 DEF Clamp, place
  <2>4. CASE v < Filled(q)
    <3>1. ASSUME NEW row \in q.nextBuf .. q.stop - 1 PROVE Pointers(q.g)[row] # place
      <4> DEFINE j == row - q.nextBuf
                 y == Filled(q) + j
      <4>1. row \in 0 .. 3 * m - 1 /\ j \in Int /\ q.nextBuf + j = row
        BY <1>n, <1>9
      <4>2. row % (3 * m) = y % (3 * m)
        <5>1. (q.nextBuf + j) % (3 * m) = y % (3 * m)
          BY <1>4, <4>1
        <5> QED
          BY <4>1, <5>1
      <4>3. y \in Int /\ v < y /\ y < v + 3 * m
        BY <1>n, <2>1, <2>4
      <4> HIDE DEF y, j
      <4>4. row % (3 * m) = row
        BY <1>n, <4>1, PlaceMoved
      <4>5. v % (3 * m) # y % (3 * m)
        BY <1>n, <2>1, <4>3, PlaceMoved
      <4> QED
        BY <1>9, <4>2, <4>4, <4>5 DEF place
    <3>2. r.color[place] = q.color[place]
      BY <1>7, <1>8, <2>2, <3>1
    <3>3. v \in (Groups(q) - 1) * m .. Filled(q) - 1
      BY <1>n, <1>3, <2>1, <2>4
    <3>4. q.color[place] = Clamp(v, q.g.height)
      BY <1>n, <1>6, <3>3 DEF place
    <3> QED
      BY <3>2, <3>4 DEF place
  <2> QED
    BY <1>n, <2>1, <2>3, <2>4
<1>12. /\ Object(r) /\ Prepared(r) /\ Groups(r) = Groups(q) /\ r.g = q.g /\ r.suspended = q.suspended
  <2>1. Changes(q, r, {"color", "nextBuf", "toGo", "this", "stop"})
    BY <1>8, ChangesMore
  <2>2. r.toGo = q.toGo
    BY <1>7, <1>8 DEF Changes, InputFields
  <2>3. r.toGo \in 0 .. q.g.height
    BY <1>n, <2>2
  <2> QED
    BY <2>1, <2>3, SameOut
<1>13. r.this = q.this /\ r.stop = q.stop /\ r.toGo = q.toGo
  BY <1>7, <1>8 DEF Changes, InputFields
<1>14. AtRing(r)
  BY <1>2, <1>12, <1>13 DEF AtRing
<1>15. r.nextBuf \in 0 .. r.stop
  BY <1>n, <1>8, <1>13
<1>16. Filled(r) = w + 2 * m
  <2>1. Filled(r) = w + 2 * m - q.stop + q.stop
    BY <1>8, <1>12, <1>13, <1>14, <1>15, RingNumbers DEF w, m
  <2> QED
    BY <1>n, <2>1
<1>17. Held(r)
  <2>1. r.toGo = 0 /\ ~(r.toGo > 0)
    BY <1>13
  <2>2. Filled(r) >= r.g.height
    BY <1>n, <1>12, <1>16
  <2>3. \A v \in (Groups(r) - 1) * MaxV(r.g) .. Filled(r) - 1 :
          r.color[v % (3 * MaxV(r.g))] = Clamp(v, r.g.height)
    <3>1. (Groups(r) - 1) * MaxV(r.g) = w - m /\ MaxV(r.g) = m
      BY <1>3, <1>12 DEF m
    <3>2. Filled(r) - 1 = w + 2 * m - 1
      BY <1>n, <1>16
    <3> QED
      BY <1>11, <1>12, <3>1, <3>2
  <2>4. r.stop - MaxV(r.g) <= r.nextBuf
    BY <1>n, <1>8, <1>12, <1>13 DEF m
  <2>5. NeedContextRows(r.g) /\ DOMAIN r.color = 0 .. 3 * MaxV(r.g) - 1 /\ ~r.suspended
    BY <1>7, <1>8, <1>12 DEF m
  <2> QED
    BY <1>12, <1>14, <1>15, <2>1, <2>2, <2>3, <2>4, <2>5 DEF Held
<1> QED
  BY <1>8, <1>13, <1>17 DEF r

LEMMA RingAdvances ==
  ASSUME NEW n \in Nat, NEW m \in 1 .. 4
  PROVE  LET this == (n % 3) * m
             stop == ((n + 1) % 3) * m + m
             next == IF stop >= 3 * m THEN 0 ELSE stop
         IN /\ (IF this + m >= 3 * m THEN 0 ELSE this + m) = ((n + 1) % 3) * m
            /\ next = ((n + 2) % 3) * m /\ next \in 0 .. 2 * m
<1>1. CASE n % 3 = 0
  <2>1. (n + 1) % 3 = 1 /\ (n + 2) % 3 = 2
    BY <1>1
  <2> QED
    BY <1>1, <2>1
<1>2. CASE n % 3 = 1
  <2>1. (n + 1) % 3 = 2 /\ (n + 2) % 3 = 0
    BY <1>2
  <2> QED
    BY <1>2, <2>1
<1>3. CASE n % 3 = 2
  <2>1. (n + 1) % 3 = 0 /\ (n + 2) % 3 = 1
    BY <1>3
  <2> QED
    BY <1>3, <2>1
<1>4. n % 3 \in 0 .. 2
  OBVIOUS
<1> QED
  BY <1>1, <1>2, <1>3, <1>4

LEMMA RingTakes ==
  ASSUME NEW q, Held(q), q.nextBuf = q.stop, q.rowgroup < DctSize
  PROVE  LET r == NextRowGroup(SepDownsample(q, q.this, q.rowgroup))
         IN /\ Object(r) /\ Prepared(r) /\ Ring(r) /\ r.rowgroup = q.rowgroup + 1
            /\ Changes(q, r, {"out", "rowgroup", "this", "stop", "nextBuf"})
<1> DEFINE m == MaxV(q.g)
           w == Groups(q) * m
           s == SepDownsample(q, q.this, q.rowgroup)
           r == NextRowGroup(s)
<1>1. /\ Object(q) /\ Prepared(q) /\ NeedContextRows(q.g) /\ ~q.suspended
      /\ DOMAIN q.color = 0 .. 3 * m - 1 /\ AtRing(q) /\ q.nextBuf \in 0 .. q.stop
      /\ q.toGo > 0 => Fed(q) = Filled(q)
      /\ q.toGo = 0 => Filled(q) >= q.g.height
      /\ \A v \in (Groups(q) - 1) * m .. Filled(q) - 1 : q.color[v % (3 * m)] = Clamp(v, q.g.height)
  BY DEF Held
<1>2. /\ m \in 1 .. 4 /\ w \in Nat /\ q.stop \in m .. 3 * m /\ q.this \in 0 .. 2 * m
      /\ q.nextBuf \in 0 .. 3 * m /\ (Groups(q) - 1) * m = w - m
      /\ Filled(q) = w + 2 * m - q.stop + q.nextBuf
      /\ Fed(q) = q.g.height - q.toGo
  BY <1>1, RingNumbers
<1>3. \A o \in Int : (q.this + o) % (3 * m) = (w + o) % (3 * m)
  BY <1>1, RingNumbers
<1>4. DOMAIN q = InputFields /\ q.g \in Inputs /\ q.rowgroup \in 0 .. DctSize /\ DctSize \in Nat /\ Groups(q) \in Nat
  BY <1>1, InputsAssumption, GroupsInt DEF Object
<1>5. Filled(q) = w + 2 * m
  <2> HIDE DEF m, w
  <2> QED
    BY <1>2
<1>6. Shows(q, q.this, w, 1)
  <2> HIDE DEF m, w
  <2> SUFFICES ASSUME NEW o \in -1 .. m - 1 + 1 PROVE Color(q, q.this + o) = Clamp(w + o, q.g.height)
    BY DEF Shows, m
  <2>1. o \in Int /\ q.this + o \in -m .. 4 * m - 1 /\ w + o \in w - m .. w + 2 * m - 1
    BY <1>2
  <2>2. Color(q, q.this + o) = q.color[(q.this + o) % (3 * m)]
    BY <1>1, <1>4, <2>1, RingPointers DEF m
  <2>3. q.color[(w + o) % (3 * m)] = Clamp(w + o, q.g.height)
    <3>1. w + o \in (Groups(q) - 1) * m .. Filled(q) - 1
      BY <1>2, <1>5, <2>1
    <3> QED
      BY <1>1, <3>1
  <2> QED
    BY <1>3, <2>1, <2>2, <2>3
<1>7. Changes(q, s, {"out"}) /\ GroupsRight(q, s.out, q.rowgroup + 1)
  <2>1. q.this \in Int
    <3> HIDE DEF m
    <3> QED
      BY <1>2
  <2> QED
    BY <1>1, <1>6, <2>1, GroupTaken
<1> HIDE DEF s
<1>8. DOMAIN s = InputFields /\ s.this = q.this /\ s.nextBuf = q.stop /\ s.g = q.g /\ s.rowgroup = q.rowgroup
  BY <1>4, <1>7 DEF Changes, InputFields
<1> DEFINE this == IF q.this + m >= 3 * m THEN 0 ELSE q.this + m
           next == IF q.stop >= 3 * m THEN 0 ELSE q.stop
<1>9. r = [s EXCEPT !.rowgroup = @ + 1, !.this = this, !.nextBuf = next, !.stop = next + m]
  BY <1>8 DEF NextRowGroup
<1> HIDE DEF r
<1>10. this = ((Groups(q) + 1) % 3) * m /\ next = ((Groups(q) + 2) % 3) * m /\ next \in 0 .. 2 * m
  <2> DEFINE k == Groups(q)
  <2>1. k \in Nat /\ m \in 1 .. 4 /\ q.this = (k % 3) * m /\ q.stop = ((k + 1) % 3) * m + m
    BY <1>1, <1>2, <1>4 DEF AtRing
  <2> HIDE DEF m, k
  <2> QED
    BY <2>1, RingAdvances DEF k
<1> HIDE DEF this, next
<1>11. /\ Changes(s, r, {"rowgroup", "this", "nextBuf", "stop"}) /\ r.rowgroup = q.rowgroup + 1
       /\ r.this = this /\ r.nextBuf = next /\ r.stop = next + m /\ DOMAIN r = InputFields
  BY <1>8, <1>9 DEF Changes, InputFields
<1>12. Changes(q, r, {"out", "rowgroup", "this", "stop", "nextBuf"})
  BY <1>7, <1>11 DEF Changes
<1>13. /\ r.g = q.g /\ r.toGo = q.toGo /\ r.curRow = q.curRow /\ r.suspended = q.suspended
       /\ r.next = q.next /\ r.coded = q.coded /\ r.color = q.color
  BY <1>4, <1>12 DEF Changes, InputFields
<1>14. r.out = s.out
  BY <1>8, <1>11 DEF Changes, InputFields
<1>15. Object(r) /\ Prepared(r) /\ Groups(r) = Groups(q) + 1
  BY <1>1, <1>7, <1>11, <1>13, <1>14, GroupCounted
<1>16. AtRing(r)
  <2>1. Groups(q) + 1 + 1 = Groups(q) + 2
    BY <1>4
  <2> QED
    BY <1>10, <1>11, <1>13, <1>15, <2>1 DEF AtRing
<1>17. r.nextBuf \in 0 .. r.stop - 1 /\ r.stop - m <= r.nextBuf /\ r.nextBuf \in 0 .. r.stop
  <2> HIDE DEF m
  <2> QED
    BY <1>2, <1>10, <1>11
<1>18. Filled(r) = Filled(q)
  <2>1. Groups(r) * m = w + m
    <3> DEFINE k == Groups(q)
    <3>1. k \in Nat /\ m \in 1 .. 4
      BY <1>2, <1>4
    <3> HIDE DEF m, k
    <3>2. (k + 1) * m = k * m + m
      BY <3>1
    <3> QED
      BY <1>15, <3>2 DEF k
  <2>2. Filled(r) = Groups(r) * m + 2 * m - r.stop + r.nextBuf
    BY <1>13, <1>15, <1>16, <1>17, RingNumbers
  <2> HIDE DEF m, w
  <2>3. next \in Int /\ m \in Int /\ w \in Int
    BY <1>2, <1>10
  <2> QED
    BY <1>5, <1>11, <2>1, <2>2, <2>3
<1>19. Ring(r)
  <2>1. Fed(r) = Fed(q)
    BY <1>13 DEF Fed
  <2>2. \A v \in (Groups(r) - 1) * MaxV(r.g) .. Filled(r) - 1 :
          r.color[v % (3 * MaxV(r.g))] = Clamp(v, r.g.height)
    <3>1. (Groups(r) - 1) * MaxV(r.g) = w
      <4>1. Groups(r) - 1 = Groups(q)
        BY <1>4, <1>15
      <4> QED
        BY <1>13, <4>1
    <3>2. \A v \in w .. w + 2 * m - 1 : v \in w - m .. w + 2 * m - 1
      <4> HIDE DEF m, w
      <4> QED
        BY <1>2
    <3>3. \A v \in w - m .. w + 2 * m - 1 : q.color[v % (3 * m)] = Clamp(v, q.g.height)
      <4> HIDE DEF w, m
      <4> QED
        BY SMTT(20), <1>1, <1>2, <1>5
    <3> HIDE DEF w, m
    <3>5. Filled(r) - 1 = w + 2 * m - 1 /\ MaxV(r.g) = m
      <4>1. MaxV(r.g) = m
        BY <1>13 DEF m
      <4>2. w \in Int /\ m \in Int
        BY <1>2
      <4> QED
        BY <1>5, <1>18, <4>1, <4>2
    <3>4. \A v \in w .. w + 2 * m - 1 : q.color[v % (3 * m)] = Clamp(v, q.g.height)
      BY <3>2, <3>3
    <3> QED
      BY <1>13, <3>1, <3>4, <3>5
  <2>3. DOMAIN r.color = 0 .. 3 * MaxV(r.g) - 1
    BY <1>1, <1>13
  <2> QED
    BY <1>1, <1>13, <1>16, <1>17, <1>18, <2>1, <2>2, <2>3 DEF Ring, AtRing
<1> QED
  BY <1>11, <1>12, <1>15, <1>19 DEF r, s

LEMMA LeastOne ==
  ASSUME NEW a, NEW n, Call(a, n), NeedContextRows(a.p.g), a.taken < n
  PROVE  Least(a.p.stop - a.p.nextBuf, n - a.taken) \in Int
<1>1. Object(a.p) /\ Ring(a.p) /\ a.taken \in Int /\ n \in Nat
  BY DEF Call, Reading
<1>2. a.p.stop \in Int
  <2>1. AtRing(a.p)
    BY <1>1 DEF Ring, AtRing
  <2> QED
    BY <1>1, <2>1, RingPlaces, GroupsInt
<1>3. a.p.nextBuf \in 0 .. a.p.stop - 1
  BY <1>1 DEF Ring
<1>4. a.p.stop - a.p.nextBuf \in Int /\ n - a.taken \in Int
  BY <1>1, <1>2, <1>3
<1> QED
  BY <1>4 DEF Least

\* Once the row group is in the ring, the downsampler takes it when it is complete.
LEMMA RingGoesOn ==
  ASSUME NEW n \in Nat, NEW a, DOMAIN a = LoopFields, Held(a.p), a.p.rowgroup < DctSize,
         a.taken \in Int, a.p.next + a.taken = Fed(a.p), a.p.next + n <= a.p.g.height
  PROVE  LET b == IF a.p.nextBuf = a.p.stop
                  THEN [a EXCEPT !.p = NextRowGroup(SepDownsample(@, @.this, @.rowgroup))] ELSE a
         IN /\ Call(b, n) /\ Same(a, b) /\ b.taken = a.taken
            /\ b.p.rowgroup = IF a.p.nextBuf = a.p.stop THEN a.p.rowgroup + 1 ELSE a.p.rowgroup
<1>1. /\ Object(a.p) /\ Prepared(a.p) /\ NeedContextRows(a.p.g) /\ ~a.p.suspended /\ a.p.suspended \in BOOLEAN
  BY DEF Held, Object
<1>2. CASE a.p.nextBuf = a.p.stop
  <2> DEFINE r == NextRowGroup(SepDownsample(a.p, a.p.this, a.p.rowgroup))
             b == [a EXCEPT !.p = r]
  <2>1. /\ Object(r) /\ Prepared(r) /\ Ring(r) /\ r.rowgroup = a.p.rowgroup + 1
        /\ Changes(a.p, r, {"out", "rowgroup", "this", "stop", "nextBuf"})
    BY <1>2, RingTakes
  <2> HIDE DEF r
  <2>2. r.g = a.p.g /\ r.curRow = a.p.curRow /\ r.next = a.p.next /\ r.suspended = a.p.suspended /\ r.toGo = a.p.toGo
    BY <1>1, <2>1 DEF Changes, Object, InputFields
  <2>3. DOMAIN b = LoopFields /\ b.p = r /\ b.taken = a.taken /\ b.room = a.room /\ b.run = a.run
    BY DEF LoopFields
  <2> HIDE DEF b
  <2>4. Fed(r) = Fed(a.p) /\ Owed(r) = 0
    BY <1>1, <2>2 DEF Fed, Owed
  <2>5. Fed(r) - Owed(r) = Fed(a.p)
    <3>1. Fed(a.p) \in Int
      <4>1. a.p.toGo \in 0 .. a.p.g.height /\ a.p.g.height \in Nat \ {0}
        BY <1>1, GroupsInt
      <4> QED
        BY <4>1 DEF Fed
    <3> QED
      BY <2>4, <3>1
  <2>6. Reading(r)
    BY <1>1, <2>1, <2>2 DEF Reading
  <2>7. Call(b, n)
    BY <2>2, <2>3, <2>5, <2>6 DEF Call
  <2> QED
    BY <1>2, <2>1, <2>2, <2>3, <2>7 DEF Same, b, r
<1>3. CASE a.p.nextBuf # a.p.stop
  <2>1. Ring(a.p)
    <3>1. a.p.nextBuf \in 0 .. a.p.stop - 1
      <4>1. AtRing(a.p) /\ a.p.nextBuf \in 0 .. a.p.stop
        BY DEF Held
      <4>2. a.p.stop \in Int
        BY <1>1, <4>1, RingPlaces, GroupsInt
      <4> QED
        BY <1>3, <4>1, <4>2
    <3> QED
      BY <3>1 DEF Held, Ring, AtRing
  <2>2. Fed(a.p) - Owed(a.p) = Fed(a.p)
    <3>1. a.p.toGo \in 0 .. a.p.g.height /\ a.p.g.height \in Nat \ {0}
      BY <1>1, GroupsInt
    <3>2. Fed(a.p) \in Int
      BY <3>1 DEF Fed
    <3> QED
      BY <1>1, <3>2 DEF Owed
  <2>3. Reading(a.p)
    BY <1>1, <2>1 DEF Reading
  <2>4. Call(a, n)
    BY <2>2, <2>3 DEF Call
  <2> QED
    BY <1>3, <2>4 DEF Same
<1> QED
  BY <1>2, <1>3

LEMMA RingStep ==
  ASSUME NEW a, NEW n, Call(a, n), NeedContextRows(a.p.g), a.p.rowgroup < DctSize, a.taken <= n, a.more = TRUE
  PROVE  LET b == PreProcessContextStep(a, n)
         IN \/ b = [a EXCEPT !.more = FALSE] /\ a.taken = n /\ a.p.toGo # 0
            \/ Call(b, n) /\ Same(a, b) /\ b.taken <= n /\ a.taken <= b.taken
               /\ b.taken + b.p.rowgroup > a.taken + a.p.rowgroup /\ b.more = TRUE
<1> DEFINE num  == Least(a.p.stop - a.p.nextBuf, n - a.taken)
           read == Counted(Topped(a.p, ColorConvert(a, num)), num)
           GoOn(x) == IF x.p.nextBuf = x.p.stop
                      THEN [x EXCEPT !.p = NextRowGroup(SepDownsample(@, @.this, @.rowgroup))] ELSE x
           b == PreProcessContextStep(a, n)
<1>1. /\ DOMAIN a = LoopFields /\ Object(a.p) /\ Prepared(a.p) /\ Ring(a.p) /\ a.p.suspended = FALSE
      /\ a.taken \in Int /\ a.p.next + a.taken = Fed(a.p) /\ n \in Nat /\ a.p.next + n <= a.p.g.height
      /\ a.p.rowgroup \in 0 .. DctSize /\ DctSize \in Nat
  <2>1. Reading(a.p) /\ Object(a.p)
    BY DEF Call, Reading
  <2>2. a.p.rowgroup # DctSize
    BY <2>1, InputsAssumption DEF Object
  <2>3. a.p.suspended = FALSE
    BY <2>1, <2>2 DEF Reading, Object
  <2>4. a.p.next + a.taken = Fed(a.p)
    <3>1. a.p.toGo \in 0 .. a.p.g.height /\ a.p.g.height \in Nat \ {0}
      BY <2>1, GroupsInt
    <3>2. Fed(a.p) \in Int
      BY <3>1 DEF Fed
    <3>3. a.p.next + a.taken = Fed(a.p) - Owed(a.p) /\ Owed(a.p) = 0
      BY <2>3 DEF Call, Owed
    <3> QED
      BY <3>2, <3>3
  <2> QED
    BY <2>1, <2>3, <2>4, InputsAssumption DEF Call, Reading, Object
<1>2. CASE a.taken < n
  <2>1. /\ Held(read.p) /\ num \in Nat \ {0} /\ num <= n - a.taken
        /\ Changes(a, read, {"p", "taken"}) /\ Changes(a.p, read.p, {"color", "nextBuf", "toGo"})
        /\ read.taken = a.taken + num /\ read.p.next + read.taken = Fed(read.p)
    BY <1>2, RingReads
  <2>2. b = GoOn(read)
    <3>1. ~(a.taken >= n)
      BY <1>1, <1>2
    <3> DEFINE stored == ColorConvert(a, num)
               top == IF a.p.toGo = a.p.g.height
                      THEN [stored EXCEPT !.p.color = [k \in DOMAIN @ |-> IF k >= 2 * MaxV(a.p.g) THEN @[0] ELSE @[k]]]
                      ELSE stored
    <3>2. b = GoOn(Counted(top, num))
      BY <1>2, <3>1, Zenon DEF PreProcessContextStep
    <3> HIDE DEF stored
    <3>3. top = Topped(a.p, stored)
      BY DEF Topped, Tops
    <3> HIDE DEF top, GoOn
    <3>4. b = GoOn(Counted(Topped(a.p, stored), num))
      BY <3>2, <3>3
    <3> QED
      BY <3>4 DEF stored
  <2> HIDE DEF b, read, num
  <2>3. DOMAIN read = LoopFields /\ read.room = a.room /\ read.run = a.run /\ read.more = a.more
    BY <1>1, <2>1 DEF Changes, LoopFields
  <2>4. /\ read.p.g = a.p.g /\ read.p.curRow = a.p.curRow /\ read.p.next = a.p.next
        /\ read.p.suspended = a.p.suspended /\ read.p.rowgroup = a.p.rowgroup
    BY <1>1, <2>1 DEF Changes, Object, InputFields
  <2>5. read.taken \in Int /\ read.taken <= n /\ read.taken > a.taken
    BY <1>1, <2>1
  <2>6. /\ Call(b, n) /\ Same(read, b) /\ b.taken = read.taken
        /\ b.p.rowgroup = IF read.p.nextBuf = read.p.stop THEN read.p.rowgroup + 1 ELSE read.p.rowgroup
    BY <1>1, <2>1, <2>2, <2>3, <2>4, <2>5, RingGoesOn
  <2>7. b.more = read.more
    <3> DEFINE r == NextRowGroup(SepDownsample(read.p, read.p.this, read.p.rowgroup))
    <3>1. b = [read EXCEPT !.p = r] \/ b = read
      BY <2>2
    <3> HIDE DEF r
    <3> QED
      BY <2>3, <3>1 DEF LoopFields
  <2>8. Same(a, b)
    BY <2>3, <2>4, <2>6 DEF Same
  <2>9. b.taken + b.p.rowgroup > a.taken + a.p.rowgroup
    <3>1. b.p.rowgroup \in Int /\ b.p.rowgroup >= a.p.rowgroup
      BY <1>1, <2>4, <2>6
    <3> QED
      BY <1>1, <2>5, <2>6, <3>1
  <2> QED
    BY <1>1, <2>3, <2>5, <2>6, <2>7, <2>8, <2>9 DEF b
<1>3. CASE ~(a.taken < n) /\ a.p.toGo # 0
  <2>1. a.taken = n /\ a.taken >= n
    BY <1>1, <1>3
  <2>2. b = [a EXCEPT !.more = FALSE]
    BY <1>3, <2>1 DEF PreProcessContextStep
  <2> QED
    BY <1>3, <2>1, <2>2
<1>4. CASE ~(a.taken < n) /\ a.p.toGo = 0
  <2> DEFINE r == [ExpandColor(a.p, a.p.nextBuf, a.p.stop) EXCEPT !.nextBuf = a.p.stop]
             pad == [a EXCEPT !.p = r]
  <2>1. Held(r) /\ Changes(a.p, r, {"color", "nextBuf"}) /\ r.nextBuf = r.stop
    BY <1>1, <1>4, RingPads
  <2>2. a.p.nextBuf < a.p.stop
    <3>1. a.p.stop \in Int
      <4>1. AtRing(a.p)
        BY <1>1 DEF Ring, AtRing
      <4> QED
        BY <1>1, <4>1, RingPlaces, GroupsInt
    <3> QED
      BY <1>1, <3>1 DEF Ring
  <2>3. b = GoOn(pad)
    <3>1. ~(a.taken >= n /\ a.p.toGo # 0) /\ ~(a.taken < n)
      BY <1>4
    <3> DEFINE stored == ColorConvert(a, num)
               top == IF a.p.toGo = a.p.g.height
                      THEN [stored EXCEPT !.p.color = [k \in DOMAIN @ |-> IF k >= 2 * MaxV(a.p.g) THEN @[0] ELSE @[k]]]
                      ELSE stored
               padded == IF a.p.nextBuf < a.p.stop
                         THEN [a EXCEPT !.p = [ExpandColor(@, @.nextBuf, @.stop) EXCEPT !.nextBuf = a.p.stop]] ELSE a
               fed == IF a.taken < n THEN Counted(top, num) ELSE padded
               idle == [a EXCEPT !.more = FALSE]
    <3>2. b = IF a.taken >= n /\ a.p.toGo # 0 THEN idle ELSE GoOn(fed)
      BY Zenon DEF PreProcessContextStep
    <3>3. padded = pad
      BY <2>2
    <3> HIDE DEF padded, pad, b, idle, GoOn, top, num
    <3>4. b = GoOn(fed)
      BY <3>1, <3>2
    <3>5. fed = padded
      BY <3>1
    <3> QED
      BY <3>3, <3>4, <3>5
  <2> HIDE DEF b, r
  <2>4. DOMAIN pad = LoopFields /\ pad.p = r /\ pad.taken = a.taken /\ pad.room = a.room /\ pad.run = a.run
        /\ pad.more = a.more
    BY <1>1 DEF LoopFields
  <2> HIDE DEF pad
  <2>5. /\ r.g = a.p.g /\ r.curRow = a.p.curRow /\ r.next = a.p.next /\ r.toGo = a.p.toGo
        /\ r.suspended = a.p.suspended /\ r.rowgroup = a.p.rowgroup
    BY <1>1, <2>1 DEF Changes, Object, InputFields
  <2>6. Fed(r) = Fed(a.p)
    BY <2>5 DEF Fed
  <2>7. /\ Call(b, n) /\ Same(pad, b) /\ b.taken = pad.taken
        /\ b.p.rowgroup = IF pad.p.nextBuf = pad.p.stop THEN pad.p.rowgroup + 1 ELSE pad.p.rowgroup
    BY <1>1, <2>1, <2>3, <2>4, <2>5, <2>6, RingGoesOn
  <2>8. b.more = pad.more
    <3> DEFINE t == NextRowGroup(SepDownsample(pad.p, pad.p.this, pad.p.rowgroup))
    <3>1. b = [pad EXCEPT !.p = t] \/ b = pad
      BY <2>3
    <3> HIDE DEF t
    <3> QED
      BY <2>4, <3>1 DEF LoopFields
  <2>9. Same(a, b)
    BY <2>4, <2>5, <2>7 DEF Same
  <2>10. b.taken = a.taken /\ b.p.rowgroup = a.p.rowgroup + 1
    BY <2>1, <2>4, <2>5, <2>7
  <2>11. b.taken + b.p.rowgroup > a.taken + a.p.rowgroup
    BY <1>1, <2>10
  <2> QED
    BY <1>1, <2>4, <2>7, <2>8, <2>9, <2>10, <2>11 DEF b
<1> QED
  BY <1>2, <1>3, <1>4

LEMMA MoreChanged ==
  ASSUME NEW a, NEW n, Call(a, n), NEW more
  PROVE  LET b == [a EXCEPT !.more = more]
         IN Call(b, n) /\ Same(a, b) /\ b.taken = a.taken /\ b.p = a.p /\ b.more = more
<1> DEFINE b == [a EXCEPT !.more = more]
<1>1. DOMAIN a = LoopFields
  BY DEF Call
<1>2. /\ DOMAIN b = LoopFields /\ b.taken = a.taken /\ b.p = a.p /\ b.more = more
      /\ b.room = a.room /\ b.run = a.run
  BY <1>1 DEF LoopFields
<1> HIDE DEF b
<1> QED
  BY <1>2 DEF Call, Same, b

\* pre_process_context as a whole: it stops when the iMCU row is full or it needs more rows.
LEMMA RingCall ==
  ASSUME NEW a, NEW n, Call(a, n), NeedContextRows(a.p.g), 0 <= a.taken, a.taken <= n
  PROVE  LET b == PreProcessContext(a, n)
         IN /\ Call(b, n) /\ Same(a, b) /\ 0 <= b.taken /\ b.taken <= n
            /\ b.p.rowgroup = DctSize \/ (b.taken = n /\ b.p.toGo # 0)
<1> DEFINE N == n + DctSize + 1
           base == [a EXCEPT !.more = TRUE]
<1>0. n \in Nat /\ a.taken \in Int /\ DctSize \in Nat /\ N \in Nat
  BY InputsAssumption DEF Call
<1>1. PICK after : Turns(after, "ring", {}, n, N, base) /\ PreProcessContext(a, n) = after[N]
  BY <1>0, RingTurns
<1> DEFINE Stopped(x) == x.more = FALSE /\ x.taken = n /\ x.p.toGo # 0
           Goes1(x, i) == x.more = TRUE /\ (x.p.rowgroup = DctSize \/ i <= x.taken + x.p.rowgroup)
           P == {i \in 0 .. N : /\ Call(after[i], n) /\ Same(a, after[i]) /\ 0 <= after[i].taken
                                /\ after[i].taken <= n /\ (Stopped(after[i]) \/ Goes1(after[i], i))}
<1>2. 0 \in P
  <2>1. Call(base, n) /\ Same(a, base) /\ base.taken = a.taken /\ base.more = TRUE
    BY MoreChanged
  <2>2. after[0] = base
    BY <1>1 DEF Turns
  <2> HIDE DEF base
  <2>3. base.p.rowgroup \in 0 .. DctSize
    BY <2>1 DEF Call, Reading, Object
  <2>4. 0 <= base.taken + base.p.rowgroup
    BY <1>0, <2>1, <2>3
  <2> QED
    BY <1>0, <2>1, <2>2, <2>4
<1> HIDE DEF base
<1>3. ASSUME NEW i \in 1 .. N, i - 1 \in P PROVE i \in P
  <2> DEFINE x == after[i - 1]
             y == after[i]
  <2>0. i \in Nat
    BY <1>0
  <2>1. y = Turn("ring", {}, n, x)
    BY <1>1 DEF Turns
  <2>2. /\ Call(x, n) /\ Same(a, x) /\ 0 <= x.taken /\ x.taken <= n
        /\ Stopped(x) \/ Goes1(x, i - 1)
    BY <1>3
  <2> HIDE DEF x, y
  <2>3. x.taken \in Int /\ x.p.rowgroup \in 0 .. DctSize
    BY <2>2 DEF Call, Reading, Object
  <2>4. CASE x.more = TRUE /\ x.p.rowgroup < DctSize
    <3>1. y = PreProcessContextStep(x, n)
      BY <2>1, <2>4 DEF Turn, Goes
    <3>2. NeedContextRows(x.p.g)
      BY <2>2 DEF Same
    <3>3. \/ y = [x EXCEPT !.more = FALSE] /\ x.taken = n /\ x.p.toGo # 0
          \/ Call(y, n) /\ Same(x, y) /\ y.taken <= n /\ x.taken <= y.taken
             /\ y.taken + y.p.rowgroup > x.taken + x.p.rowgroup /\ y.more = TRUE
      BY <2>2, <2>4, <3>1, <3>2, RingStep
    <3>4. CASE y = [x EXCEPT !.more = FALSE] /\ x.taken = n /\ x.p.toGo # 0
      <4>1. Call(y, n) /\ Same(x, y) /\ y.taken = x.taken /\ y.p = x.p /\ y.more = FALSE
        BY <2>2, <3>4, MoreChanged
      <4>2. Same(a, y) /\ Stopped(y)
        BY <2>2, <3>4, <4>1 DEF Same
      <4> QED
        BY <2>2, <4>1, <4>2 DEF y
    <3>5. CASE Call(y, n) /\ Same(x, y) /\ y.taken <= n /\ x.taken <= y.taken
               /\ y.taken + y.p.rowgroup > x.taken + x.p.rowgroup /\ y.more = TRUE
      <4>1. y.taken \in Int /\ y.p.rowgroup \in 0 .. DctSize
        BY <3>5 DEF Call, Reading, Object
      <4>2. Same(a, y)
        BY <2>2, <3>5 DEF Same
      <4>3. i - 1 <= x.taken + x.p.rowgroup
        BY <1>0, <2>2, <2>3, <2>4
      <4>4. i <= y.taken + y.p.rowgroup /\ 0 <= y.taken
        BY <1>0, <2>0, <2>2, <2>3, <3>5, <4>1, <4>3
      <4> QED
        BY <3>5, <4>2, <4>4 DEF y
    <3> QED
      BY <3>3, <3>4, <3>5
  <2>5. CASE ~(x.more = TRUE /\ x.p.rowgroup < DctSize)
    <3>1. x.more = FALSE \/ x.more = TRUE
      BY <2>2
    <3>2. y = x
      BY <2>1, <2>5, <3>1 DEF Turn, Goes
    <3>3. Stopped(x) \/ Goes1(x, i)
      BY <1>0, <2>2, <2>3, <2>5
    <3> QED
      BY <2>2, <3>2, <3>3 DEF y
  <2> QED
    BY <2>4, <2>5
<1> HIDE DEF P
<1>4. \A i \in 0 .. N : i \in P
  <2> HIDE DEF N
  <2> QED
    BY <1>0, <1>2, <1>3, LoopInduction
<1>5. N \in P
  <2> HIDE DEF N
  <2> QED
    BY <1>0, <1>4
<1> DEFINE z == after[N]
<1>6. /\ Call(z, n) /\ Same(a, z) /\ 0 <= z.taken /\ z.taken <= n /\ (Stopped(z) \/ Goes1(z, N))
  BY <1>5 DEF P
<1> HIDE DEF z
<1>7. z.taken \in Int /\ z.p.rowgroup \in 0 .. DctSize
  BY <1>6 DEF Call, Reading, Object
<1>8. z.p.rowgroup = DctSize \/ (z.taken = n /\ z.p.toGo # 0)
  <2>1. CASE Stopped(z)
    BY <2>1
  <2>2. CASE Goes1(z, N)
    <3>1. ~(n + DctSize + 1 <= z.taken + z.p.rowgroup)
      BY <1>0, <1>6, <1>7
    <3> QED
      BY <2>2, <3>1
  <2> QED
    BY <1>6, <2>1, <2>2
<1> QED
  BY <1>1, <1>6, <1>8 DEF z

-----------------------------------------------------------------------------
(***************************************************************************)
(* The coefficient controller.                                             *)
(***************************************************************************)
LEMMA SentRight ==
  ASSUME NEW q, Reading(q), q.rowgroup = DctSize, q.curRow < ImcuRows(q.g)
  PROVE  LET r == Sent(q)
         IN /\ Reading(r) /\ Fed(r) = Fed(q) /\ Owed(r) = 0 /\ r.curRow = q.curRow + 1
            /\ r.g = q.g /\ r.next = q.next
<1> DEFINE r == Sent(q)
<1>1. /\ Object(q) /\ Prepared(q) /\ DOMAIN q = InputFields /\ q.g \in Inputs /\ q.curRow \in Nat
      /\ DctSize \in Nat \ {0}
  BY InputsAssumption DEF Reading, Object
<1>2. /\ DOMAIN r = InputFields /\ r.suspended = FALSE /\ r.rowgroup = 0 /\ r.curRow = q.curRow + 1
      /\ r.coded = <<q.curRow, q.out>> /\ r.g = q.g /\ r.toGo = q.toGo /\ r.nextBuf = q.nextBuf
      /\ r.this = q.this /\ r.stop = q.stop /\ r.color = q.color /\ r.out = q.out /\ r.next = q.next
  BY <1>1 DEF Sent, InputFields
<1> HIDE DEF r
<1>3. Object(r)
  <2>1. r.curRow \in Nat /\ r.rowgroup \in 0 .. DctSize /\ r.suspended \in BOOLEAN
    <3>1. r.curRow = q.curRow + 1 /\ r.rowgroup = 0 /\ r.suspended = FALSE
      BY <1>2
    <3>2. q.curRow + 1 \in Nat /\ 0 \in 0 .. DctSize
      BY <1>1
    <3> QED
      BY <3>1, <3>2
  <2>2. r.toGo \in 0 .. r.g.height /\ r.next \in Int /\ r.g \in Inputs
    BY <1>1, <1>2 DEF Object
  <2> QED
    BY <1>2, <2>1, <2>2 DEF Object
<1>4. Groups(r) = Groups(q)
  <2> DEFINE c == q.curRow
  <2>1. c \in Nat /\ DctSize \in Nat
    BY <1>1
  <2> HIDE DEF c
  <2>2. (c + 1) * DctSize + 0 = c * DctSize + DctSize
    BY <2>1
  <2> QED
    BY <1>2, <2>2 DEF Groups, c
<1>5. \A ci \in Comps(q.g) : /\ DOMAIN q.out[ci] = 0 .. q.g.v[ci] * DctSize - 1
                             /\ \A k \in DOMAIN q.out[ci] : k < DctSize * q.g.v[ci] => RightRows(q, q.out, q.curRow, ci, k)
  BY <1>1 DEF Prepared, GroupsRight
<1>6. ASSUME NEW ci \in Comps(q.g), NEW k \in DOMAIN q.out[ci]
      PROVE  RightRows(q, q.out, q.curRow, ci, k) /\ ~(k < 0 * q.g.v[ci])
  <2> DEFINE v == q.g.v[ci]
  <2>1. v \in 1 .. 4
    BY <1>1, Sampling
  <2>2. k \in 0 .. v * DctSize - 1
    BY <1>5
  <2> HIDE DEF v
  <2>3. k < DctSize * v /\ ~(k < 0 * v)
    <3>1. v * DctSize = DctSize * v /\ v * DctSize \in Nat /\ 0 * v = 0
      BY <1>1, <2>1
    <3> QED
      BY <2>2, <3>1
  <2> QED
    BY <1>5, <2>3 DEF v
<1>7. Prepared(r)
  <2>1. GroupsRight(r, r.out, r.rowgroup)
    <3>1. DOMAIN q.out = Comps(q.g)
      BY <1>1 DEF Prepared, GroupsRight
    <3> QED
      BY <1>2, <1>5, <1>6, <3>1 DEF GroupsRight
  <2>2. r.coded[1] = q.curRow /\ r.coded[2] = q.out
    BY <1>2
  <2>3. \A ci \in Comps(r.g) : \A k \in DOMAIN r.coded[2][ci] : RightRows(r, r.coded[2], r.coded[1], ci, k)
    BY <1>2, <1>6, <2>2 DEF RightRows
  <2> QED
    BY <2>1, <2>3 DEF Prepared
<1>8. Filled(r) = Filled(q) /\ Fed(r) = Fed(q)
  BY <1>2, <1>4 DEF Filled, Fed
<1>9. CASE NeedContextRows(q.g)
  <2>1. Ring(q)
    BY <1>9 DEF Reading
  <2>2. Ring(r)
    BY <1>2, <1>4, <1>8, <2>1 DEF Ring
  <2>3. NeedContextRows(r.g)
    BY <1>2, <1>9
  <2>4. Reading(r)
    BY <1>2, <1>3, <1>7, <2>2, <2>3 DEF Reading
  <2> QED
    BY <1>2, <1>8, <2>4 DEF Owed, r
<1>10. CASE ~NeedContextRows(q.g)
  <2>1. Strip(q)
    BY <1>10 DEF Reading
  <2>2. r.toGo = 0 => r.curRow >= ImcuRows(r.g)
    <3> SUFFICES ASSUME q.toGo = 0 PROVE q.curRow + 1 >= ImcuRows(q.g)
      BY <1>2
    <3>1. Groups(q) * MaxV(q.g) >= q.g.height
      BY <2>1 DEF Strip
    <3>2. Groups(q) = (q.curRow + 1) * DctSize
      BY <1>1, <1>2, <1>4 DEF Groups
    <3>3. (q.curRow + 1) * DctSize * MaxV(q.g) >= q.g.height
      BY <3>1, <3>2
    <3>4. q.curRow + 1 \in Nat
      BY <1>1
    <3> QED
      BY <1>1, <3>3, <3>4, ImcuRowsOf
  <2>3. Strip(r)
    BY <1>2, <1>4, <1>8, <2>1, <2>2 DEF Strip
  <2>4. Reading(r)
    BY <1>2, <1>3, <1>7, <1>10, <2>3 DEF Reading
  <2> QED
    BY <1>2, <1>8, <2>4 DEF Owed, r
<1> QED
  BY <1>9, <1>10

\* The state between two turns of process_data_simple_main: it goes on, or the call ends
\* before the image does.
Running(a, n) == a.run = TRUE /\ 0 <= a.taken /\ a.taken + Owed(a.p) <= n
Ended(a)      == a.run = FALSE /\ a.p.next + a.taken < a.p.g.height

LEMMA Compressed ==
  ASSUME NEW a, NEW n, Call(a, n), Running(a, n), a.p.curRow < ImcuRows(a.p.g),
         a.p.rowgroup = DctSize \/ (a.taken = n /\ a.p.toGo # 0)
  PROVE  LET b == CompressData(a)
         IN /\ Call(b, n) /\ b.p.g = a.p.g /\ b.p.next = a.p.next
            /\ \/ Ended(b) /\ b.p.curRow = a.p.curRow
               \/ Running(b, n) /\ b.p.curRow = a.p.curRow + 1
<1> DEFINE q == a.p
           b == CompressData(a)
<1>1. /\ DOMAIN a = LoopFields /\ Reading(q) /\ a.taken \in Int /\ q.next + a.taken = Fed(q) - Owed(q)
      /\ n \in Nat /\ q.next + n <= q.g.height
  BY DEF Call
<1>2. /\ Object(q) /\ DOMAIN q = InputFields /\ q.suspended \in BOOLEAN /\ q.next \in Int
  BY <1>1 DEF Reading, Object
<1>3. /\ q.toGo \in 0 .. q.g.height /\ q.g.height \in Nat \ {0} /\ Fed(q) = q.g.height - q.toGo
  BY <1>2, GroupsInt DEF Fed
<1>4. Owed(q) = IF q.suspended THEN 1 ELSE 0
  BY DEF Owed
<1>5. CASE q.rowgroup # DctSize
  <2>1. b = [a EXCEPT !.run = FALSE]
    BY <1>5 DEF CompressData
  <2>2. DOMAIN b = LoopFields /\ b.p = q /\ b.taken = a.taken /\ b.run = FALSE
    BY <1>1, <2>1 DEF LoopFields
  <2> HIDE DEF b
  <2>3. Call(b, n)
    BY <2>2 DEF Call
  <2>4. b.p.next + b.taken < b.p.g.height
    <3>1. q.toGo > 0 /\ Owed(q) \in {0, 1}
      BY <1>3, <1>4, <1>5
    <3>2. Fed(q) - Owed(q) < q.g.height
      BY <1>3, <3>1
    <3> QED
      BY <1>1, <2>2, <3>2
  <2> QED
    BY <2>2, <2>3, <2>4 DEF Ended, b
<1>6. CASE q.rowgroup = DctSize /\ a.room = 0
  <2> DEFINE r == [q EXCEPT !.suspended = TRUE]
             taken == IF q.suspended THEN a.taken ELSE a.taken - 1
  <2>1. b = [a EXCEPT !.p = r, !.run = FALSE, !.taken = taken]
    BY <1>1, <1>2, <1>6 DEF CompressData, LoopFields, InputFields
  <2>2. /\ DOMAIN r = InputFields /\ Changes(q, r, {"suspended"}) /\ r.suspended = TRUE
    BY <1>2 DEF Changes, InputFields
  <2>3. taken \in Int /\ taken = IF q.suspended THEN a.taken ELSE a.taken - 1
    BY <1>1
  <2> HIDE DEF r, taken
  <2>4. DOMAIN b = LoopFields /\ b.p = r /\ b.taken = taken /\ b.run = FALSE
    BY <1>1, <2>1 DEF LoopFields
  <2> HIDE DEF b
  <2>5. /\ r.g = q.g /\ r.toGo = q.toGo /\ r.nextBuf = q.nextBuf /\ r.this = q.this /\ r.stop = q.stop
        /\ r.color = q.color /\ r.out = q.out /\ r.rowgroup = q.rowgroup /\ r.curRow = q.curRow
        /\ r.next = q.next /\ r.coded = q.coded
    BY <1>2, <2>2 DEF Changes, InputFields
  <2>6. Groups(r) = Groups(q) /\ Fed(r) = Fed(q) /\ Owed(r) = 1
    BY <2>2, <2>5 DEF Groups, Fed, Owed
  <2>7. Filled(r) = Filled(q)
    BY <2>5, <2>6 DEF Filled
  <2>8. Reading(r)
    <3>1. Object(r)
      BY <1>2, <2>2, <2>5 DEF Object
    <3>2. Prepared(r)
      BY SMTT(30), <1>1, <2>5 DEF Reading, Prepared, GroupsRight, RightRows
    <3>3. NeedContextRows(q.g) => Ring(r)
      <4> SUFFICES ASSUME Ring(q) PROVE Ring(r)
        BY <1>1 DEF Reading
      <4> QED
        BY <2>5, <2>6, <2>7 DEF Ring
    <3>4. ~NeedContextRows(q.g) => Strip(r)
      <4> SUFFICES ASSUME Strip(q) PROVE Strip(r)
        BY <1>1 DEF Reading
      <4> QED
        BY <2>5, <2>6 DEF Strip
    <3> QED
      BY <1>6, <2>5, <3>1, <3>2, <3>3, <3>4 DEF Reading
  <2>9. r.next + taken = Fed(r) - Owed(r)
    <3>1. Fed(q) \in Int
      BY <1>3
    <3>2. q.next + taken = Fed(q) - 1
      <4>1. CASE q.suspended
        <5>1. taken = a.taken /\ q.next + a.taken = Fed(q) - 1
          BY <1>1, <1>4, <2>3, <4>1
        <5> QED
          BY <5>1
      <4>2. CASE ~q.suspended
        <5>1. taken = a.taken - 1 /\ q.next + a.taken = Fed(q) - 0
          BY <1>1, <1>4, <2>3, <4>2
        <5> QED
          BY <1>1, <1>2, <3>1, <5>1
      <4> QED
        BY <4>1, <4>2
    <3> QED
      BY <2>5, <2>6, <3>2
  <2>10. Call(b, n)
    BY <1>1, <2>3, <2>4, <2>5, <2>8, <2>9 DEF Call
  <2>11. b.p.next + b.taken < b.p.g.height
    <3>1. Fed(q) - 1 < q.g.height
      BY <1>3
    <3> QED
      BY <2>4, <2>5, <2>6, <2>9, <3>1
  <2> QED
    BY <2>4, <2>5, <2>10, <2>11 DEF Ended, b
<1>7. CASE q.rowgroup = DctSize /\ a.room # 0
  <2> DEFINE r == Sent(q)
             taken == IF q.suspended THEN a.taken + 1 ELSE a.taken
             room == a.room - 1
  <2>1. b = [a EXCEPT !.p = r, !.room = room, !.taken = taken]
    BY <1>1, <1>7 DEF CompressData, LoopFields
  <2>2. /\ Reading(r) /\ Fed(r) = Fed(q) /\ Owed(r) = 0 /\ r.curRow = q.curRow + 1
        /\ r.g = q.g /\ r.next = q.next
    BY <1>1, <1>7, SentRight
  <2>3. taken \in Int /\ taken = IF q.suspended THEN a.taken + 1 ELSE a.taken
    BY <1>1
  <2> HIDE DEF r, taken, room
  <2>4. DOMAIN b = LoopFields /\ b.p = r /\ b.taken = taken /\ b.run = a.run
    BY <1>1, <2>1 DEF LoopFields
  <2> HIDE DEF b
  <2>5. r.next + taken = Fed(r) - Owed(r)
    <3>1. Fed(q) \in Int
      BY <1>3
    <3>2. q.next + taken = Fed(q)
      BY <1>1, <1>2, <1>4, <2>3, <3>1
    <3> QED
      BY <2>2, <3>1, <3>2
  <2>6. Call(b, n)
    BY <1>1, <2>2, <2>3, <2>4, <2>5 DEF Call
  <2>7. Running(b, n)
    <3>1. a.run = TRUE /\ 0 <= a.taken /\ a.taken + Owed(q) <= n
      BY DEF Running
    <3>2. 0 <= taken /\ taken + 0 <= n
      BY <1>1, <1>2, <1>4, <2>3, <3>1
    <3> QED
      BY <2>2, <2>4, <3>1, <3>2 DEF Running
  <2> QED
    BY <2>2, <2>4, <2>6, <2>7 DEF b
<1> QED
  BY <1>5, <1>6, <1>7

\* A turn of process_data_simple_main.
LEMMA ImageStep ==
  ASSUME NEW a, NEW n, Call(a, n), Running(a, n), a.p.curRow < ImcuRows(a.p.g)
  PROVE  LET b == ImcuRow(a, n)
         IN /\ Call(b, n) /\ b.p.g = a.p.g /\ b.p.next = a.p.next
            /\ \/ Ended(b) /\ b.p.curRow = a.p.curRow
               \/ Running(b, n) /\ b.p.curRow = a.p.curRow + 1
<1> DEFINE c == IF a.p.rowgroup = DctSize THEN a
                ELSE IF NeedContextRows(a.p.g) THEN PreProcessContext(a, n) ELSE PreProcessData(a, n)
<1>1. ImcuRow(a, n) = CompressData(c)
  BY DEF ImcuRow
<1>2. a.run = TRUE /\ 0 <= a.taken /\ a.taken + Owed(a.p) <= n /\ a.taken \in Int /\ n \in Nat
  BY DEF Running, Call
<1>3. /\ Call(c, n) /\ Running(c, n) /\ c.p.curRow = a.p.curRow /\ c.p.g = a.p.g /\ c.p.next = a.p.next
      /\ c.p.rowgroup = DctSize \/ (c.taken = n /\ c.p.toGo # 0)
  <2>1. CASE a.p.rowgroup = DctSize
    BY <2>1
  <2>2. CASE a.p.rowgroup # DctSize
    <3>1. a.p.suspended = FALSE /\ Owed(a.p) = 0
      <4>1. a.p.suspended \in BOOLEAN /\ (a.p.suspended => a.p.rowgroup = DctSize)
        BY DEF Call, Reading, Object
      <4> QED
        BY <2>2, <4>1 DEF Owed
    <3>2. ASSUME NEW b, Call(b, n), Same(a, b), 0 <= b.taken, b.taken <= n
          PROVE  Running(b, n) /\ b.p.curRow = a.p.curRow /\ b.p.g = a.p.g /\ b.p.next = a.p.next
      <4>1. b.run = TRUE /\ b.p.suspended = FALSE
        BY <1>2, <3>1, <3>2 DEF Same
      <4>2. Owed(b.p) = 0 /\ b.taken \in Int
        BY <3>2, <4>1 DEF Owed, Call
      <4>3. b.taken + 0 <= n
        BY <3>2, <4>2
      <4> QED
        BY <3>2, <4>1, <4>2, <4>3 DEF Same, Running
    <3>3. CASE NeedContextRows(a.p.g)
      <4>1. c = PreProcessContext(a, n)
        BY <2>2, <3>3
      <4>2. a.taken <= n
        BY <1>2, <3>1
      <4> HIDE DEF c
      <4>3. /\ Call(c, n) /\ Same(a, c) /\ 0 <= c.taken /\ c.taken <= n
            /\ c.p.rowgroup = DctSize \/ (c.taken = n /\ c.p.toGo # 0)
        BY <1>2, <3>3, <4>1, <4>2, RingCall
      <4> QED
        BY <3>2, <4>3
    <3>4. CASE ~NeedContextRows(a.p.g)
      <4>1. c = PreProcessData(a, n)
        BY <2>2, <3>4
      <4> HIDE DEF c
      <4>2. /\ Call(c, n) /\ Same(a, c) /\ 0 <= c.taken /\ c.taken <= n
            /\ c.taken = n \/ c.p.rowgroup = DctSize
        BY <1>2, <3>4, <4>1, StripCall
      <4>3. /\ Running(c, n) /\ c.p.curRow = a.p.curRow /\ c.p.g = a.p.g /\ c.p.next = a.p.next
        BY <3>2, <4>2
      <4>4. c.p.toGo = 0 => c.p.rowgroup = DctSize
        <5>1. Strip(c.p)
          BY <3>4, <4>2, <4>3 DEF Call, Reading
        <5>2. c.p.curRow \in Nat /\ c.p.g \in Inputs
          BY <4>2 DEF Call, Reading, Object
        <5>3. ImcuRows(c.p.g) \in Nat /\ c.p.curRow < ImcuRows(c.p.g)
          BY <4>3, <5>2, ImcuRowsOf
        <5>4. ~(c.p.curRow >= ImcuRows(c.p.g))
          BY <5>2, <5>3
        <5> QED
          BY <5>1, <5>4 DEF Strip
      <4> QED
        BY <4>2, <4>3, <4>4
    <3> QED
      BY <3>3, <3>4
  <2> QED
    BY <2>1, <2>2
<1> HIDE DEF c
<1>4. c.p.curRow < ImcuRows(c.p.g)
  BY <1>3
<1> DEFINE b == CompressData(c)
<1>5. /\ Call(b, n) /\ b.p.g = c.p.g /\ b.p.next = c.p.next
      /\ \/ Ended(b) /\ b.p.curRow = c.p.curRow
         \/ Running(b, n) /\ b.p.curRow = c.p.curRow + 1
  BY <1>3, <1>4, Compressed
<1> HIDE DEF b
<1> QED
  BY <1>1, <1>3, <1>5 DEF b

-----------------------------------------------------------------------------
(***************************************************************************)
(* Calls of jpeg_write_scanlines.                                          *)
(***************************************************************************)
LEMMA ImageWritten ==
  ASSUME NEW q, Between(q), q.next < q.g.height, NEW k \in 1 .. MaxRows, NEW room
  PROVE  Between(WriteScanlines(q, k, room))
<1> DEFINE n == Available(q, k)
           N == ImcuRows(q.g) + 1
           base == Start(q, room)
<1>1. /\ Reading(q) /\ Object(q) /\ q.g \in Inputs /\ DOMAIN q = InputFields /\ q.next \in Int
      /\ q.curRow \in Nat /\ q.suspended \in BOOLEAN /\ q.curRow <= ImcuRows(q.g)
      /\ q.next = Fed(q) - Owed(q)
  BY DEF Between, Reading, Object
<1>2. q.g.height \in Nat \ {0} /\ ImcuRows(q.g) \in Nat /\ N \in Nat /\ MaxRows \in Nat
  BY <1>1, GroupsInt, ImcuRowsOf, InputsAssumption
<1>3. n \in Nat \ {0} /\ q.next + n <= q.g.height
  <2> DEFINE y == q.g.height - q.next
  <2>1. y \in Nat \ {0} /\ k \in Nat \ {0}
    BY <1>1, <1>2
  <2> HIDE DEF y
  <2>2. Least(k, y) \in Nat \ {0} /\ Least(k, y) <= y
    BY <2>1 DEF Least
  <2>3. n = Least(k, y)
    BY DEF Available, y
  <2> HIDE DEF n
  <2> QED
    BY <1>1, <1>2, <2>2, <2>3 DEF y
<1>4. PICK after : /\ Turns(after, "image", q.g, n, N, base)
                   /\ WriteScanlines(q, k, room) = Taken(after[N])
  BY <1>1, ImageTurns
<1> HIDE DEF n
<1>5. Call(base, n) /\ Running(base, n) /\ base.p.g = q.g /\ base.p.next = q.next /\ base.p.curRow = q.curRow
  <2> DEFINE r == [q EXCEPT !.coded = <<>>]
  <2>1. /\ DOMAIN r = InputFields /\ Changes(q, r, {"coded"}) /\ r.coded = <<>>
    BY <1>1 DEF Changes, InputFields
  <2>2. DOMAIN base = LoopFields /\ base.p = r /\ base.taken = 0 /\ base.run = TRUE
    BY DEF Start, LoopFields
  <2> HIDE DEF r, base
  <2>3. /\ r.g = q.g /\ r.toGo = q.toGo /\ r.nextBuf = q.nextBuf /\ r.this = q.this /\ r.stop = q.stop
        /\ r.color = q.color /\ r.out = q.out /\ r.rowgroup = q.rowgroup /\ r.curRow = q.curRow
        /\ r.next = q.next /\ r.suspended = q.suspended
    BY <1>1, <2>1 DEF Changes, InputFields
  <2>4. Groups(r) = Groups(q) /\ Fed(r) = Fed(q) /\ Owed(r) = Owed(q)
    BY <2>3 DEF Groups, Fed, Owed
  <2>5. Filled(r) = Filled(q)
    BY <2>3, <2>4 DEF Filled
  <2>6. Reading(r)
    <3>1. Object(r)
      BY <1>1, <2>1, <2>3 DEF Object
    <3>2. Prepared(r)
      BY <1>1, <2>1, <2>3 DEF Reading, Prepared, GroupsRight, RightRows
    <3>3. NeedContextRows(q.g) => Ring(r)
      <4> SUFFICES ASSUME Ring(q) PROVE Ring(r)
        BY <1>1 DEF Reading
      <4> QED
        BY <2>3, <2>4, <2>5 DEF Ring
    <3>4. ~NeedContextRows(q.g) => Strip(r)
      <4> SUFFICES ASSUME Strip(q) PROVE Strip(r)
        BY <1>1 DEF Reading
      <4> QED
        BY <2>3, <2>4 DEF Strip
    <3> QED
      BY <1>1, <2>3, <3>1, <3>2, <3>3, <3>4 DEF Reading
  <2>7. Call(base, n)
    <3>1. r.next + 0 = Fed(r) - Owed(r)
      BY <1>1, <2>3, <2>4
    <3> QED
      BY <1>3, <2>2, <2>3, <2>6, <3>1 DEF Call
  <2>8. Running(base, n)
    <3>1. Owed(r) \in {0, 1}
      BY DEF Owed
    <3> QED
      BY <1>3, <2>2, <3>1 DEF Running
  <2> QED
    BY <2>2, <2>3, <2>7, <2>8
<1> HIDE DEF base
<1> DEFINE Kept1(x) == Call(x, n) /\ x.p.g = q.g /\ x.p.next = q.next /\ x.p.curRow <= ImcuRows(q.g)
           P == {i \in 0 .. N : /\ Kept1(after[i])
                                /\ Ended(after[i]) \/ (Running(after[i], n) /\ i <= after[i].p.curRow)
                                   \/ after[i].p.curRow = ImcuRows(q.g)}
<1>6. 0 \in P
  <2>1. after[0] = base
    BY <1>4 DEF Turns
  <2>2. 0 \in 0 .. N /\ 0 <= q.curRow
    BY <1>1, <1>2
  <2> QED
    BY <1>1, <1>5, <2>1, <2>2
<1>7. ASSUME NEW i \in 1 .. N, i - 1 \in P PROVE i \in P
  <2> DEFINE x == after[i - 1]
             y == after[i]
  <2>1. y = Turn("image", q.g, n, x)
    BY <1>4 DEF Turns
  <2>2. /\ Kept1(x)
        /\ Ended(x) \/ (Running(x, n) /\ i - 1 <= x.p.curRow) \/ x.p.curRow = ImcuRows(q.g)
    BY <1>7
  <2> HIDE DEF x, y
  <2>3. x.p.curRow \in Nat /\ i \in Nat
    BY <1>2, <2>2 DEF Call, Reading, Object
  <2>4. CASE Running(x, n) /\ i - 1 <= x.p.curRow /\ x.p.curRow < ImcuRows(q.g)
    <3>1. y = ImcuRow(x, n)
      <4>1. x.run = TRUE
        BY <2>4 DEF Running
      <4> QED
        BY <2>1, <2>4, <4>1 DEF Turn, Goes
    <3>2. /\ Call(y, n) /\ y.p.g = x.p.g /\ y.p.next = x.p.next
          /\ \/ Ended(y) /\ y.p.curRow = x.p.curRow
             \/ Running(y, n) /\ y.p.curRow = x.p.curRow + 1
      BY <2>2, <2>4, <3>1, ImageStep
    <3>3. y.p.curRow \in Nat
      BY <3>2 DEF Call, Reading, Object
    <3>4. y.p.curRow <= ImcuRows(q.g)
      BY <1>2, <2>3, <2>4, <3>2, <3>3
    <3>5. Ended(y) \/ (Running(y, n) /\ i <= y.p.curRow)
      <4>1. y.p.curRow = x.p.curRow + 1 => i <= y.p.curRow
        BY <2>3, <2>4
      <4> QED
        BY <3>2, <4>1
    <3> QED
      BY <2>2, <3>2, <3>4, <3>5 DEF y
  <2>5. CASE Ended(x)
    <3>1. y = x
      <4>1. x.run = FALSE
        BY <2>5 DEF Ended
      <4> QED
        BY <2>1, <4>1 DEF Turn, Goes
    <3> QED
      BY <2>2, <2>5, <3>1 DEF y
  <2>6. CASE x.p.curRow = ImcuRows(q.g)
    <3>1. ~(x.p.curRow < ImcuRows(q.g))
      BY <1>2, <2>6
    <3>2. y = x
      BY <2>1, <3>1 DEF Turn, Goes
    <3> QED
      BY <2>2, <2>6, <3>2 DEF y
  <2>7. x.p.curRow < ImcuRows(q.g) \/ x.p.curRow = ImcuRows(q.g)
    BY <1>2, <2>2, <2>3
  <2> QED
    BY <2>2, <2>4, <2>5, <2>6, <2>7
<1> HIDE DEF P
<1>8. \A i \in 0 .. N : i \in P
  <2> HIDE DEF N
  <2> QED
    BY <1>2, <1>6, <1>7, LoopInduction
<1> DEFINE z == after[N]
<1>9. /\ Kept1(z)
      /\ Ended(z) \/ (Running(z, n) /\ N <= z.p.curRow) \/ z.p.curRow = ImcuRows(q.g)
  <2>1. N \in P
    <3> HIDE DEF N
    <3> QED
      BY <1>2, <1>8
  <2> QED
    BY <2>1 DEF P
<1> HIDE DEF z
<1>10. Ended(z) \/ z.p.curRow = ImcuRows(q.g)
  <2>1. z.p.curRow \in Nat
    BY <1>9 DEF Call, Reading, Object
  <2>2. ~(N <= z.p.curRow)
    BY <1>2, <1>9, <2>1
  <2> QED
    BY <1>9, <2>2
<1> DEFINE s == z.p
           r == Taken(z)
           t == z.taken
<1>11. DOMAIN s = InputFields /\ Reading(s) /\ t \in Int /\ s.next + t = Fed(s) - Owed(s)
  BY <1>9 DEF Call, Reading, Object
<1>12. r = [s EXCEPT !.next = @ + t]
  BY DEF Taken
<1>13. s.g = q.g /\ s.next \in Int /\ s.curRow <= ImcuRows(q.g)
       /\ (s.next + t < s.g.height \/ s.curRow = ImcuRows(q.g))
  BY <1>1, <1>9, <1>10 DEF Ended
<1> HIDE DEF s, t, r
<1>14. /\ DOMAIN r = InputFields /\ Changes(s, r, {"next"}) /\ r.next = s.next + t
  BY <1>11, <1>12 DEF Changes, InputFields
<1>15. /\ r.g = s.g /\ r.toGo = s.toGo /\ r.nextBuf = s.nextBuf /\ r.this = s.this /\ r.stop = s.stop
       /\ r.color = s.color /\ r.out = s.out /\ r.rowgroup = s.rowgroup /\ r.curRow = s.curRow
       /\ r.suspended = s.suspended /\ r.coded = s.coded
  BY <1>11, <1>14 DEF Changes, InputFields
<1>16. Groups(r) = Groups(s) /\ Fed(r) = Fed(s) /\ Owed(r) = Owed(s)
  BY <1>15 DEF Groups, Fed, Owed
<1>17. Filled(r) = Filled(s)
  BY <1>15, <1>16 DEF Filled
<1>18. Reading(r)
  <2>1. Object(r)
    <3>1. r.next \in Int
      BY <1>11, <1>13, <1>14
    <3> QED
      BY <1>11, <1>14, <1>15, <3>1 DEF Object, Reading
  <2>2. Prepared(r)
    BY <1>11, <1>15 DEF Reading, Prepared, GroupsRight, RightRows
  <2>3. NeedContextRows(s.g) => Ring(r)
    <3> SUFFICES ASSUME Ring(s) PROVE Ring(r)
      BY <1>11 DEF Reading
    <3> QED
      BY <1>15, <1>16, <1>17 DEF Ring
  <2>4. ~NeedContextRows(s.g) => Strip(r)
    <3> SUFFICES ASSUME Strip(s) PROVE Strip(r)
      BY <1>11 DEF Reading
    <3> QED
      BY <1>15, <1>16 DEF Strip
  <2> QED
    BY <1>11, <1>15, <2>1, <2>2, <2>3, <2>4 DEF Reading
<1>19. r.next >= r.g.height => r.curRow = ImcuRows(r.g)
  <2> SUFFICES ASSUME s.next + t < s.g.height PROVE ~(r.next >= r.g.height)
    BY <1>13, <1>15
  <2>1. r.next = s.next + t /\ r.g.height = s.g.height /\ s.g.height \in Nat
    BY <1>2, <1>13, <1>14, <1>15
  <2>2. s.next + t \in Int
    BY <1>11, <1>13
  <2> QED
    BY <2>1, <2>2
<1>20. Between(r)
  BY <1>11, <1>13, <1>14, <1>15, <1>16, <1>18, <1>19 DEF Between
<1> QED
  BY <1>4, <1>20 DEF r, z

-----------------------------------------------------------------------------
(***************************************************************************)
(* The inductive invariant.                                                *)
(***************************************************************************)
LEMMA StartsRight ==
  ASSUME NEW g \in Inputs
  PROVE  Between(StartInputPass(g))
<1> DEFINE m == MaxV(g)
           color == [k \in 0 .. (IF NeedContextRows(g) THEN 3 ELSE 1) * m - 1 |-> -1]
           out == [ci \in Comps(g) |-> [row \in 0 .. g.v[ci] * DctSize - 1 |-> <<>>]]
           q == StartInputPass(g)
<1>1. m \in 1 .. 4 /\ g.height \in Nat \ {0} /\ DctSize \in Nat
  BY MaxVBound, InputsAssumption
<1>2. /\ DOMAIN q = InputFields /\ q.g = g /\ q.toGo = g.height /\ q.nextBuf = 0 /\ q.this = 0 /\ q.stop = 2 * m
      /\ q.color = color /\ q.out = out /\ q.rowgroup = 0 /\ q.curRow = 0 /\ q.suspended = FALSE
      /\ q.next = 0 /\ q.coded = <<>>
  BY DEF StartInputPass, StartPassPrep, InputFields
<1> HIDE DEF q
<1>3. Object(q)
  <2>1. g.height \in 0 .. g.height /\ 0 \in 0 .. DctSize
    BY <1>1
  <2>2. 0 \in Int /\ 0 \in Nat /\ FALSE \in BOOLEAN
    OBVIOUS
  <2> HIDE DEF m
  <2> QED
    BY <1>2, <2>1, <2>2 DEF Object
<1>4. Prepared(q)
  <2>1. ASSUME NEW ci \in Comps(g) PROVE /\ DOMAIN out[ci] = 0 .. g.v[ci] * DctSize - 1
                                         /\ \A k \in DOMAIN out[ci] : ~(k < 0 * g.v[ci])
    <3>1. g.v[ci] \in 1 .. 4
      BY Sampling
    <3>2. g.v[ci] * DctSize \in Nat /\ 0 * g.v[ci] = 0
      BY <1>1, <3>1
    <3>3. DOMAIN out[ci] = 0 .. g.v[ci] * DctSize - 1
      OBVIOUS
    <3> HIDE DEF out
    <3> QED
      BY <3>2, <3>3
  <2>2. DOMAIN out = Comps(g)
    OBVIOUS
  <2> HIDE DEF out
  <2> QED
    BY <1>2, <2>1, <2>2 DEF Prepared, GroupsRight
<1>5. Groups(q) = 0 /\ Fed(q) = 0 /\ Owed(q) = 0 /\ q.toGo > 0 /\ q.toGo # 0
  <2>1. 0 * DctSize + 0 = 0 /\ g.height - g.height = 0
    BY <1>1
  <2> QED
    BY <1>1, <1>2, <2>1 DEF Groups, Fed, Owed
<1>6. NeedContextRows(g) => Ring(q)
  <2> SUFFICES ASSUME NeedContextRows(g) PROVE Ring(q)
    OBVIOUS
  <2>1. DOMAIN q.color = 0 .. 3 * m - 1
    BY <1>2
  <2> HIDE DEF m
  <2>2. (0 % 3) * m = 0 /\ ((0 + 1) % 3) * m + m = 2 * m /\ 2 * m - m >= 0 /\ 0 \in 0 .. 2 * m - 1
    BY <1>1
  <2>3. Filled(q) = 0
    <3>1. (0 + 2) * m - (2 * m - 0) = 0
      BY <1>1
    <3> QED
      BY <1>2, <1>5, <3>1 DEF Filled, m
  <2> QED
    BY <1>2, <1>5, <2>1, <2>2, <2>3 DEF Ring, m
<1>7. ~NeedContextRows(g) => Strip(q)
  <2> SUFFICES ASSUME ~NeedContextRows(g) PROVE Strip(q)
    OBVIOUS
  <2>1. DOMAIN q.color = 0 .. 1 * m - 1
    BY <1>2
  <2> HIDE DEF m
  <2>2. 1 * m = m /\ 0 \in 0 .. m - 1 /\ 0 * m + 0 = 0
    BY <1>1
  <2>3. \A j \in 0 .. q.nextBuf - 1 : FALSE
    BY <1>2
  <2> QED
    BY <1>2, <1>5, <2>1, <2>2, <2>3 DEF Strip, m
<1>8. Reading(q)
  BY <1>2, <1>3, <1>4, <1>6, <1>7 DEF Reading
<1>9. q.next = Fed(q) - Owed(q) /\ q.curRow <= ImcuRows(q.g) /\ ~(q.next >= q.g.height)
  <2>1. ImcuRows(g) \in Nat
    BY ImcuRowsOf
  <2> QED
    BY <1>1, <1>2, <1>5, <2>1
<1> QED
  BY <1>8, <1>9 DEF Between, q

LEMMA InputsRightInvariant == Spec => []InputsRight
<1>1. Init => InputsRight
  <2> SUFFICES ASSUME Init PROVE InputsRight
    OBVIOUS
  <2>1. CASE p = NoImage
    BY <2>1 DEF InputsRight
  <2>2. CASE p \in {StartInputPass(g) : g \in Inputs}
    BY <2>2, StartsRight DEF InputsRight
  <2> QED
    BY <2>1, <2>2 DEF Init
<1>2. InputsRight /\ [Next]_vars => InputsRight'
  <2> SUFFICES ASSUME InputsRight, [Next]_vars PROVE InputsRight'
    OBVIOUS
  <2>1. CASE Write
    <3>1. PICK n \in 1 .. MaxRows, room \in 0 .. ImcuRows(p.g) : p' = WriteScanlines(p, n, room)
      BY <2>1 DEF Write
    <3>2. p # NoImage /\ p.next < p.g.height /\ Between(p)
      BY <2>1 DEF Write, InputsRight
    <3>3. Between(p')
      BY <3>1, <3>2, ImageWritten
    <3> QED
      BY <3>3 DEF InputsRight
  <2>2. CASE UNCHANGED p
    BY <2>2 DEF InputsRight
  <2>3. Write \/ UNCHANGED p
    BY DEF Next, StartOutput, Prescan, Read, FinishOutput, vars
  <2> QED
    BY <2>1, <2>2, <2>3
<1> QED
  BY <1>1, <1>2, PTL DEF Spec

-----------------------------------------------------------------------------
(***************************************************************************)
(* Whatever the image, its sampling and its smoothing, and however the     *)
(* calls were cut and suspended, every iMCU row the coefficient controller *)
(* gets is made of the right image rows, and none is missing when the      *)
(* application has no more rows to write.                                  *)
(***************************************************************************)
THEOREM RowsPrepared == Spec => []PreparedRows
<1>1. InputsRight => PreparedRows
  <2> SUFFICES ASSUME p # NoImage, Between(p)
               PROVE  /\ p.coded # <<>> =>
                           \A ci \in Comps(p.g) : \A k \in DOMAIN p.coded[2][ci] :
                              p.coded[2][ci][k] = Downsampled(p.g, ci, p.coded[1] * p.g.v[ci] * DctSize + k)
                      /\ p.next >= p.g.height => p.curRow = ImcuRows(p.g)
    BY DEF InputsRight, PreparedRows
  <2>1. Prepared(p)
    BY DEF Between, Reading
  <2> QED
    BY <2>1 DEF Between, Prepared, RightRows
<1> QED
  BY <1>1, InputsRightInvariant, PTL

-----------------------------------------------------------------------------
(***************************************************************************)
(* The way out.  What the decompressor's buffers hold between two calls.  *)
(***************************************************************************)
OutputFields == {"g", "err", "state", "passes", "scanline", "from", "out", "count", "buf", "xbuf", "which", "ctx",
                 "avail", "rowgroup", "imcu", "full", "crank", "coefRow", "dummy", "color", "nextOut", "toGo",
                 "spare", "rows", "post", "starting", "nextRow", "defined", "whole"}

\* Rows of a component in an iMCU row, and in the workspace of the context main controller.
ImcuLines(g, ci) == RowGroup(g, ci) * g.m
Workspace(g, ci)  == RowGroup(g, ci) * (g.m + 2)

\* The rows beyond a row group that an upsampler may read.
Reach(g) == IF NeedContext(g) THEN 1 ELSE 0

\* Entry "at" of the list in use, and as many as "many" after it, show the rows of the component from
\* "row" on, as far as there are any.
ShowsRows(q, ci, at, row, first, last) ==
  \A i \in first .. last : row + i < DownHeight(q.g, ci) + Reach(q.g) =>
     RowAt(q, q.which, ci, at + i) = Clamp(row + i, DownHeight(q.g, ci))

\* Row group u of the list in use shows row group n of the image, with its neighbours.
ShowsGroup(q, u, n) ==
  \A ci \in Comps(q.g) :
     ShowsRows(q, ci, u * RowGroup(q.g, ci), n * RowGroup(q.g, ci), -Reach(q.g), RowGroup(q.g, ci) - 1 + Reach(q.g))

\* iMCU row c lies in the list in use, below the last row of the one before.
Laid(q, c) ==
  \A ci \in Comps(q.g) :
     \A j \in -Reach(q.g) .. ImcuLines(q.g, ci) - 1 :
        c * ImcuLines(q.g, ci) + j < DownHeight(q.g, ci) =>
           RowAt(q, q.which, ci, j) = Clamp(c * ImcuLines(q.g, ci) + j, DownHeight(q.g, ci))

\* The last two row groups above iMCU row c are still there, below those of an iMCU row.
Saved(q, c) ==
  \A ci \in Comps(q.g) :
     \A j \in ImcuLines(q.g, ci) .. Workspace(q.g, ci) - 1 :
        RowAt(q, q.which, ci, j) = c * ImcuLines(q.g, ci) + j - Workspace(q.g, ci)

\* The pointers of make_funny_pointers.
Funny(g, ci, w, i) ==
  IF w = 0 THEN i
  ELSE IF i >= ImcuLines(g, ci) THEN i - 2 * RowGroup(g, ci)
  ELSE IF i >= ImcuLines(g, ci) - 2 * RowGroup(g, ci) THEN i + 2 * RowGroup(g, ci) ELSE i

\* The two lists, before and after set_wraparound_pointers.
Pointing(q, wrapped) ==
  \A ci \in Comps(q.g) :
     LET n == Workspace(q.g, ci)
         f(w) == q.xbuf[w][ci]
     IN /\ \A w \in 0 .. 1 : \A i \in 0 .. n - 1 : f(w)[i] = Funny(q.g, ci, w, i)
        /\ IF wrapped THEN \A w \in 0 .. 1 : f(w)[-1] = Funny(q.g, ci, w, n - 1) /\ f(w)[n] = Funny(q.g, ci, w, 0)
           ELSE f(0)[-1] = 0

\* The row group of the image the upsampler is at.
ImcuAt(q) == IF q.full THEN q.imcu - 1 ELSE q.imcu
GroupAt(q) ==
  ImcuAt(q) * q.g.m +
    (IF ~NeedContext(q.g) \/ q.ctx = "process" THEN q.rowgroup ELSE IF q.ctx = "postponed" THEN q.rowgroup - (q.g.m + 2) ELSE 0)

\* The rows of it that have been shown, and the next of them.
Partial(q) == IF q.nextOut < MaxV(q.g) THEN q.nextOut ELSE IF q.spare # <<>> THEN 1 ELSE 0
ReadyRow(q, k) == IF q.g.merged THEN q.spare ELSE ColorConvertRow(q, k)

\* The upsampler when it is at row group n of the image.
Upsampling(q, n) ==
  LET shown == n * MaxV(q.g) + Partial(q)
  IN /\ q.nextOut \in 1 .. MaxV(q.g) /\ (q.g.merged => q.nextOut = MaxV(q.g))
     /\ (~q.g.merged => q.spare = <<>>) /\ (q.spare # <<>> => MaxV(q.g) = 2)
     /\ shown <= OutputHeight(q.g)
     /\ ~(q.g.merged /\ MaxV(q.g) = 1) => q.toGo = OutputHeight(q.g) - shown
     /\ Partial(q) > 0 => \A k \in Partial(q) .. MaxV(q.g) - 1 :
                            n * MaxV(q.g) + k < OutputHeight(q.g) => ReadyRow(q, k) = Upsampled(q.g, n * MaxV(q.g) + k)

\* The main controller without context.
SimpleMain(q) ==
  /\ q.rowgroup \in 0 .. q.g.m - 1 /\ (~q.full => q.rowgroup = 0)
  /\ q.full => Laid(q, q.imcu - 1)

\* With context: at the top of an iMCU row, within it, and at its last row group.
AtTop(q) ==
  /\ (~q.full => q.imcu = 0) /\ (q.imcu <= 1 => q.which = 0) /\ Partial(q) = 0
  /\ Pointing(q, q.imcu > 1)
  /\ q.full => Laid(q, q.imcu - 1)
Within(q) ==
  /\ q.full /\ q.avail \in Nat /\ q.rowgroup \in 0 .. q.avail - 1
  /\ \A u \in 0 .. q.avail - 1 : ShowsGroup(q, u, (q.imcu - 1) * q.g.m + u)
  /\ IF q.imcu < ImcuRows(q.g)
     THEN q.avail = q.g.m - 1 /\ (q.imcu = 1 => q.which = 0) /\ Pointing(q, q.imcu > 1) /\ Laid(q, q.imcu - 1)
     ELSE ((ImcuRows(q.g) - 1) * q.g.m + q.avail) * MaxV(q.g) >= OutputHeight(q.g)
AtLast(q) ==
  /\ ImcuAt(q) >= 1 /\ q.rowgroup = q.g.m + 1 /\ q.avail = q.g.m + 2
  /\ Pointing(q, TRUE) /\ Saved(q, ImcuAt(q))
  /\ q.full => Laid(q, q.imcu - 1)
ContextMain(q) ==
  CASE q.ctx = "prepare"   -> AtTop(q)
    [] q.ctx = "process"   -> Within(q)
    [] q.ctx = "postponed" -> AtLast(q)
    [] OTHER -> FALSE

\* An output pass between two calls, as long as there are rows left.
Live(q) ==
  /\ q.imcu \in 0 .. ImcuRows(q.g) /\ q.coefRow = q.imcu /\ q.which \in 0 .. 1 /\ q.full \in BOOLEAN
  /\ IF q.full THEN q.imcu >= 1 ELSE q.imcu < ImcuRows(q.g) /\ Partial(q) = 0
  /\ Upsampling(q, GroupAt(q))
  /\ IF NeedContext(q.g) THEN ContextMain(q) ELSE SimpleMain(q)

\* The postprocessor: rows that went into the virtual array or to the application are the right ones.
WholeUpTo(q, n) == \A r \in DOMAIN q.whole : r < n => q.whole[r] = Upsampled(q.g, r)
InStrip(q) ==
  /\ NeedFull(q.g) /\ q.starting \in Nat /\ q.nextRow \in 0 .. MaxV(q.g) - 1
  /\ \E n \in Nat : q.starting = n * MaxV(q.g)
Storing(q) ==
  /\ InStrip(q) /\ q.defined >= q.starting + (IF q.nextRow > 0 THEN MaxV(q.g) ELSE 0)
  /\ WholeUpTo(q, q.starting + q.nextRow)
Pictures(g) == {Upsampled(g, r) : r \in Nat}
Emitted(q) ==
  /\ q.out \in Seq(Pictures(q.g)) /\ Len(q.out) = q.count
  /\ \A i \in DOMAIN q.out : q.out[i] = Upsampled(q.g, q.from + i - 1)

Passing(q) ==
  /\ q.crank = FALSE
  /\ IF q.dummy THEN q.post = "prepass" /\ Storing(q) /\ q.starting + q.nextRow = q.scanline
     ELSE q.post \in {"none", "1pass"}
  /\ q.scanline < OutputHeight(q.g) => Live(q) /\ q.scanline = GroupAt(q) * MaxV(q.g) + Partial(q)

Cranking(q) ==
  /\ q.crank = TRUE /\ q.dummy = FALSE /\ q.post = "2pass" /\ InStrip(q)
  /\ q.starting + q.nextRow = q.scanline /\ q.defined >= WholeRows(q.g) /\ WholeUpTo(q, OutputHeight(q.g))

\* What never changes, and the shapes.
Screen(q) ==
  /\ DOMAIN q = OutputFields /\ q.g \in Outputs /\ q.err = "none"
  /\ DOMAIN q.buf = Comps(q.g) /\ \A ci \in Comps(q.g) : DOMAIN q.buf[ci] = 0 .. Workspace(q.g, ci) - 1
  /\ NeedContext(q.g) => /\ DOMAIN q.xbuf = 0 .. 1
                         /\ \A w \in 0 .. 1 : /\ DOMAIN q.xbuf[w] = Comps(q.g)
                                              /\ \A ci \in Comps(q.g) : DOMAIN q.xbuf[w][ci] =
                                                   -RowGroup(q.g, ci) .. RowGroup(q.g, ci) * (q.g.m + 3) - 1
  /\ q.defined \in Nat /\ DOMAIN q.whole = 0 .. WholeRows(q.g) - 1
  /\ q.scanline \in 0 .. OutputHeight(q.g)

ScreenRight(q) ==
  /\ Screen(q) /\ q.dummy \in BOOLEAN
  /\ \A i \in DOMAIN q.out : q.out[i] = Upsampled(q.g, q.from + i - 1)
  /\ CASE q.state = "bufimage" -> q.dummy = FALSE
       [] q.state = "prescan"  -> q.out = <<>> /\ (Passing(q) \/ Cranking(q))
       [] q.state = "scanning" -> q.dummy = FALSE /\ (Passing(q) \/ Cranking(q))
       [] OTHER -> FALSE
OutputsRight == d # NoImage => ScreenRight(d)

\* b is q after its upsampler, at row group n of the image, has put out rows.
Grown == {"rows", "toGo", "nextOut", "rowgroup", "color", "spare"}
Upsamples(q, b, n, room) ==
  /\ Changes(q, b, Grown)
  /\ b.rows \in Seq(Pictures(q.g)) /\ Len(b.rows) \in 1 .. room
  /\ \A i \in 1 .. Len(b.rows) : b.rows[i] = Upsampled(q.g, n * MaxV(q.g) + Partial(q) + i - 1)
  /\ \/ b.rowgroup = q.rowgroup /\ Upsampling(b, n) /\ Partial(b) = Partial(q) + Len(b.rows)
     \/ b.rowgroup = q.rowgroup + 1 /\ Upsampling(b, n + 1) /\ Partial(b) = 0 /\ MaxV(q.g) = Partial(q) + Len(b.rows)

\* It has rows left, and if it is at the first row of the group it sees the group.
Supplied(q, n) ==
  /\ DOMAIN q = OutputFields /\ q.g \in Outputs /\ q.rowgroup \in Nat
  /\ Upsampling(q, n) /\ n * MaxV(q.g) + Partial(q) < OutputHeight(q.g)
  /\ Partial(q) = 0 => ShowsGroup(q, q.rowgroup, n)

\* Within a call: s rows have been shown in this pass.
Handing(q, s) ==
  /\ q.count \in Nat /\ q.scanline + q.count = s
  /\ IF q.post = "prepass" THEN Storing(q) /\ q.starting + q.nextRow = s /\ q.out = <<>>
     ELSE q.post \in {"none", "1pass"} /\ Emitted(q) /\ q.from = q.scanline

\* b is q after its postprocessor has taken rows from the upsampler at row group n.
Handed == Grown \cup {"out", "count", "whole", "starting", "nextRow", "defined", "err"}
Posts(q, b, n) ==
  /\ Changes(q, b, Handed) /\ Screen(b)
  /\ \/ b.rowgroup = q.rowgroup /\ Upsampling(b, n) /\ Partial(b) > 0 /\ Handing(b, n * MaxV(q.g) + Partial(b))
     \/ b.rowgroup = q.rowgroup + 1 /\ Upsampling(b, n + 1) /\ Partial(b) = 0 /\ Handing(b, (n + 1) * MaxV(q.g))

\* The postprocessor reads a two-pass image in strips, and bounds what it emits by the rows of the image below
\* the top of the strip (jdpostct.c:222): the last strip must be whole or a single row.
StripsFit ==
  \A g \in Outputs : NeedFull(g) => \E k \in Nat : OutputHeight(g) \in {k * MaxV(g), k * MaxV(g) + 1}

-----------------------------------------------------------------------------
(***************************************************************************)
(* The geometry of an image that is shown.                                 *)
(***************************************************************************)
LEMMA MaxOfRates ==
  ASSUME NEW f \in Seq(1 .. 4), f # <<>>
  PROVE  MaxOf(f) \in 1 .. 4 /\ \A i \in DOMAIN f : f[i] <= MaxOf(f)
<1> DEFINE S == {f[i] : i \in DOMAIN f}
<1>1. S \in SUBSET (1 .. 4)
  OBVIOUS
<1>2. S # {} /\ S \in SUBSET (0 .. 4)
  <2>1. 1 \in DOMAIN f
    OBVIOUS
  <2> QED
    BY <1>1, <2>1
<1>3. MaxOf(f) = CHOOSE m \in S : \A i \in DOMAIN f : f[i] <= m
  BY DEF MaxOf
<1>4. \E m \in S : \A i \in DOMAIN f : f[i] <= m
  <2>1. \A i \in DOMAIN f : f[i] \in S
    OBVIOUS
  <2> HIDE DEF S
  <2>2. Max(S) \in S /\ \A k \in S : k <= Max(S)
    BY <1>2, MaxMember
  <2> QED
    BY <2>1, <2>2
<1>5. MaxOf(f) \in S /\ \A i \in DOMAIN f : f[i] <= MaxOf(f)
  <2> HIDE DEF S
  <2> QED
    BY <1>3, <1>4
<1> QED
  BY <1>1, <1>5

LEMMA OutputRates ==
  ASSUME NEW g \in Outputs
  PROVE  /\ MaxV(g) \in 1 .. 4 /\ g.m \in Nat \ {0} /\ g.m <= DctSize /\ DctSize \in Nat \ {0}
         /\ g.height \in Nat \ {0} /\ 1 \in Comps(g)
         /\ \A ci \in Comps(g) : /\ g.v[ci] \in 1 .. 4 /\ g.v[ci] <= MaxV(g)
                                 /\ g.h[ci] \in 1 .. 4 /\ g.h[ci] <= MaxH(g)
         /\ MaxH(g) \in 1 .. 4
<1>1. /\ g.v \in Seq(1 .. 4) /\ g.v # <<>> /\ g.h \in Seq(1 .. 4) /\ g.h # <<>> /\ DOMAIN g.h = DOMAIN g.v
  <2>1. g.v \in Seq(1 .. 4) /\ g.v # <<>> /\ g.h \in Seq(1 .. 4) /\ DOMAIN g.h = DOMAIN g.v
    BY OutputsAssumption
  <2>2. 1 \in DOMAIN g.h
    BY <2>1
  <2> QED
    BY <2>1, <2>2
<1>2. MaxV(g) \in 1 .. 4 /\ \A i \in DOMAIN g.v : g.v[i] <= MaxV(g)
  BY <1>1, MaxOfRates DEF MaxV
<1>3. MaxH(g) \in 1 .. 4 /\ \A i \in DOMAIN g.h : g.h[i] <= MaxH(g)
  BY <1>1, MaxOfRates DEF MaxH
<1>4. DctSize \in Nat \ {0}
  BY InputsAssumption
<1>5. g.m \in 1 .. DctSize /\ g.height \in Nat \ {0}
  BY OutputsAssumption
<1>6. 1 \in DOMAIN g.v
  BY <1>1
<1>7. \A ci \in DOMAIN g.v : g.v[ci] \in 1 .. 4 /\ g.h[ci] \in 1 .. 4
  BY <1>1
<1> QED
  BY <1>1, <1>2, <1>3, <1>4, <1>5, <1>6, <1>7 DEF Comps

\* Two numbers, one a multiple of the other.
LEMMA SmallRatio ==
  ASSUME NEW a \in 1 .. 4, NEW b \in 1 .. 4, a % b = 0
  PROVE  a \div b \in 1 .. 4 /\ b * (a \div b) = a
<1>1. CASE b = 1 BY <1>1
<1>2. CASE b = 2 BY <1>2
<1>3. CASE b = 3 BY <1>3
<1>4. CASE b = 4 BY <1>4
<1> QED
  BY <1>1, <1>2, <1>3, <1>4

LEMMA ScaledBy ==
  ASSUME NEW g \in Outputs, NEW ci \in Comps(g)
  PROVE  /\ \E t \in {1, 2, 4} : ScaledSize(g, ci) = t * g.m
         /\ ScaledSize(g, ci) <= DctSize
         /\ g.v[ci] * ScaledSize(g, ci) <= MaxV(g) * g.m
<1> DEFINE m == g.m
           V == MaxV(g)
           W == MaxH(g)
           v == g.v[ci]
           w == g.h[ci]
<1>1. /\ m \in Nat \ {0} /\ m <= DctSize /\ DctSize \in Nat /\ V \in 1 .. 4 /\ W \in 1 .. 4
      /\ v \in 1 .. 4 /\ w \in 1 .. 4 /\ v <= V /\ w <= W
  BY OutputRates
<1> DEFINE fits == {s \in {m, 2 * m, 4 * m} : s <= DctSize /\ w * s <= W * m /\ v * s <= V * m}
<1>2. ScaledSize(g, ci) = CHOOSE s \in fits : \A t \in fits : t <= s
  BY DEF ScaledSize
<1>3. m \in fits
  <2> HIDE DEF m, V, W, v, w
  <2>1. w * m <= W * m /\ v * m <= V * m
    BY <1>1
  <2> QED
    BY <1>1, <2>1
<1>4. fits \subseteq {m, 2 * m, 4 * m}
  OBVIOUS
<1>5. \E s \in fits : \A t \in fits : t <= s
  <2> HIDE DEF fits, m
  <2>1. \A t \in fits : t = m \/ t = 2 * m \/ t = 4 * m
    BY <1>4
  <2>2. m < 2 * m /\ 2 * m < 4 * m /\ m < 4 * m
    BY <1>1
  <2> QED
    BY <1>1, <1>3, <2>1, <2>2
<1>6. ScaledSize(g, ci) \in fits
  <2> HIDE DEF fits
  <2> QED
    BY <1>2, <1>5
<1>7. ScaledSize(g, ci) \in {1 * m, 2 * m, 4 * m}
  BY <1>1, <1>4, <1>6
<1>8. \E t \in {1, 2, 4} : ScaledSize(g, ci) = t * m
  <2> HIDE DEF m
  <2> QED
    BY <1>7
<1> QED
  BY <1>6, <1>8

LEMMA Groupings ==
  ASSUME NEW g \in Outputs, NEW ci \in Comps(g)
  PROVE  /\ RowGroup(g, ci) \in 1 .. 4 /\ ImcuHeight(g, ci) = ImcuLines(g, ci)
         /\ ScaledSize(g, ci) \in Nat \ {0}
         /\ MaxV(g) \div RowGroup(g, ci) \in 1 .. 4
         /\ RowGroup(g, ci) * (MaxV(g) \div RowGroup(g, ci)) = MaxV(g)
<1> DEFINE m == g.m
           V == MaxV(g)
           v == g.v[ci]
           s == ScaledSize(g, ci)
           rg == RowGroup(g, ci)
<1>1. m \in Nat \ {0} /\ V \in 1 .. 4 /\ v \in 1 .. 4
  BY OutputRates
<1>2. PICK t \in {1, 2, 4} : s = t * m
  BY ScaledBy
<1>3. v * s <= V * m
  BY ScaledBy
<1>4. rg = (v * s) \div m
  BY DEF RowGroup, ImcuHeight
<1>5. ImcuHeight(g, ci) = v * s /\ ImcuLines(g, ci) = rg * m
  BY DEF ImcuHeight, ImcuLines
<1>6. V % rg = 0
  BY OutputsAssumption
<1> HIDE DEF m, V, v, s, rg
<1>7. v * s = (v * t) * m
  BY <1>1, <1>2
<1>8. (v * s) \div m = v * t
  <2> DEFINE x == v * t
             y == v * s
             z == y \div m
  <2>1. x \in Nat /\ y = x * m
    BY <1>1, <1>7
  <2>2. y \in Nat
    BY <1>1, <2>1
  <2> HIDE DEF x, y
  <2>3. z \in Int /\ z * m <= y /\ y < (z + 1) * m
    BY <1>1, <2>2
  <2> HIDE DEF z
  <2>4. x <= z
    <3> SUFFICES ASSUME z + 1 <= x PROVE FALSE
      BY <2>1, <2>3
    <3>1. (z + 1) * m <= x * m
      BY <1>1, <2>1, <2>3
    <3>2. (z + 1) * m \in Int /\ x * m \in Int
      BY <1>1, <2>1, <2>3
    <3> QED
      BY <2>1, <2>2, <2>3, <3>1, <3>2
  <2>5. z <= x
    <3> SUFFICES ASSUME x + 1 <= z PROVE FALSE
      BY <2>1, <2>3
    <3>1. (x + 1) * m <= z * m
      BY <1>1, <2>1, <2>3
    <3>2. (x + 1) * m = x * m + m
      BY <1>1, <2>1
    <3> QED
      BY <1>1, <2>1, <2>2, <2>3, <3>1, <3>2
  <2> QED
    BY <2>1, <2>3, <2>4, <2>5 DEF x, y, z
<1>9. rg = v * t /\ v * s = rg * m
  BY <1>4, <1>7, <1>8
<1>10. rg <= V
  <2>1. rg * m <= V * m /\ rg \in Nat
    BY <1>1, <1>3, <1>9
  <2>2. ASSUME rg >= V + 1 PROVE FALSE
    <3>1. rg * m >= (V + 1) * m
      BY <1>1, <2>1, <2>2
    <3>2. (V + 1) * m = V * m + m
      BY <1>1
    <3> QED
      BY <1>1, <2>1, <3>1, <3>2
  <2> QED
    BY <1>1, <2>1, <2>2
<1>11. rg \in 1 .. 4
  <2>1. v * t >= 1 /\ v * t \in Nat
    <3>1. CASE t = 1 BY <1>1, <3>1
    <3>2. CASE t = 2 BY <1>1, <3>2
    <3>3. CASE t = 4 BY <1>1, <3>3
    <3> QED
      BY <3>1, <3>2, <3>3
  <2> QED
    BY <1>1, <1>9, <1>10, <2>1
<1>12. V \div rg \in 1 .. 4 /\ rg * (V \div rg) = V
  BY <1>1, <1>6, <1>11, SmallRatio
<1>13. s \in Nat \ {0}
  BY <1>1, <1>2
<1> QED
  BY <1>5, <1>9, <1>11, <1>12, <1>13 DEF V, rg, s

\* What a number that is rounded up is, from below.
LEMMA RoundedBelow ==
  ASSUME NEW a \in Nat \ {0}, NEW b \in Nat \ {0}
  PROVE  RoundUp(a, b) \in Nat \ {0} /\ a <= RoundUp(a, b) * b /\ (RoundUp(a, b) - 1) * b < a
<1> DEFINE r == RoundUp(a, b)
<1>1. r \in Nat /\ r * b >= a /\ \A n \in Nat : n * b >= a => n >= r
  BY Rounded
<1> HIDE DEF r
<1>2. r # 0
  BY <1>1
<1>3. r - 1 \in Nat /\ ~(r - 1 >= r)
  BY <1>1, <1>2
<1>4. ~((r - 1) * b >= a)
  BY <1>1, <1>3
<1>5. (r - 1) * b \in Nat
  BY <1>3
<1> QED
  BY <1>1, <1>2, <1>4, <1>5 DEF r

LEMMA Smaller ==
  ASSUME NEW x \in Int, NEW y \in Int, NEW k \in Nat \ {0}
  PROVE  (x * k < y * k <=> x < y) /\ (x * k <= y * k <=> x <= y)
<1>1. x < y => x * k < y * k
  <2> SUFFICES ASSUME x < y PROVE x * k < y * k
    OBVIOUS
  <2>1. (x + 1) * k <= y * k /\ (x + 1) * k = x * k + k
    OBVIOUS
  <2> QED
    BY <2>1
<1>2. x <= y => x * k <= y * k
  OBVIOUS
<1>3. ~(x < y) => y * k <= x * k
  OBVIOUS
<1>4. ~(x <= y) => y * k < x * k
  <2> SUFFICES ASSUME y < x PROVE y * k < x * k
    OBVIOUS
  <2>1. (y + 1) * k <= x * k /\ (y + 1) * k = y * k + k
    OBVIOUS
  <2> QED
    BY <2>1
<1>5. x * k \in Int /\ y * k \in Int
  OBVIOUS
<1> DEFINE a == x * k
           b == y * k
<1> HIDE DEF a, b
<1>6. a \in Int /\ b \in Int /\ (x < y => a < b) /\ (x <= y => a <= b) /\ (~(x < y) => b <= a) /\ (~(x <= y) => b < a)
  BY <1>1, <1>2, <1>3, <1>4, <1>5 DEF a, b
<1> QED
  BY <1>6 DEF a, b

LEMMA OutputRows ==
  ASSUME NEW g \in Outputs
  PROVE  /\ OutputHeight(g) \in Nat \ {0} /\ ImcuRows(g) \in Nat \ {0}
         /\ (ImcuRows(g) - 1) * (MaxV(g) * g.m) < OutputHeight(g)
         /\ OutputHeight(g) <= ImcuRows(g) * (MaxV(g) * g.m)
<1> DEFINE V == MaxV(g)
           m == g.m
           D == DctSize
           h == g.height
           H == OutputHeight(g)
           N == ImcuRows(g)
<1>1. V \in 1 .. 4 /\ m \in Nat \ {0} /\ D \in Nat \ {0} /\ h \in Nat \ {0}
  BY OutputRates
<1>2. H \in Nat \ {0} /\ h * m <= H * D /\ (H - 1) * D < h * m
  <2>1. h * m \in Nat \ {0}
    <3> HIDE DEF h, m
    <3> QED
      BY <1>1
  <2> QED
    BY <1>1, <2>1, RoundedBelow DEF OutputHeight
<1>3. N \in Nat \ {0} /\ h <= N * (V * D) /\ (N - 1) * (V * D) < h
  <2>1. V * D \in Nat \ {0}
    <3> HIDE DEF V, D
    <3> QED
      BY <1>1
  <2> QED
    BY <1>1, <2>1, RoundedBelow DEF ImcuRows
<1> HIDE DEF V, m, D, h, H, N
<1>4. ASSUME NEW n \in Int PROVE (n * (V * m)) * D = (n * (V * D)) * m /\ n * (V * m) \in Int /\ n * (V * D) \in Int
  BY <1>1
<1>5. (N - 1) * (V * m) < H
  <2> DEFINE a == (N - 1) * (V * m)
             b == (N - 1) * (V * D)
  <2>1. a * D = b * m /\ a \in Int /\ b \in Int /\ b < h
    BY <1>3, <1>4
  <2> HIDE DEF a, b
  <2>2. b * m < h * m
    BY <1>1, <2>1, Smaller
  <2>3. h * m \in Int /\ b * m \in Int /\ a * D \in Int /\ H * D \in Int
    BY <1>1, <1>2, <2>1
  <2>4. a * D < H * D
    BY <1>2, <2>1, <2>2, <2>3
  <2>5. a < H
    BY <1>1, <1>2, <2>1, <2>4, Smaller
  <2> QED
    BY <2>5 DEF a
<1>6. H <= N * (V * m)
  <2> DEFINE a == N * (V * m)
             b == N * (V * D)
  <2>1. a * D = b * m /\ a \in Int /\ b \in Int /\ h <= b
    BY <1>3, <1>4
  <2> HIDE DEF a, b
  <2>2. h * m <= b * m
    BY <1>1, <2>1, Smaller
  <2>3. h * m \in Int /\ b * m \in Int /\ a * D \in Int /\ (H - 1) * D \in Int
    BY <1>1, <1>2, <2>1
  <2>4. (H - 1) * D < a * D
    BY <1>2, <2>1, <2>2, <2>3
  <2>5. H - 1 < a
    BY <1>1, <1>2, <2>1, <2>4, Smaller
  <2> QED
    BY <1>2, <2>1, <2>5 DEF a
<1> QED
  BY <1>2, <1>3, <1>5, <1>6 DEF V, m, H, N

\* The rows of a component, of which each makes "expand" rows of the image.
LEMMA ComponentRows ==
  ASSUME NEW g \in Outputs, NEW ci \in Comps(g)
  PROVE  /\ DownHeight(g, ci) \in Nat \ {0}
         /\ (DownHeight(g, ci) - 1) * (MaxV(g) \div RowGroup(g, ci)) < OutputHeight(g)
         /\ OutputHeight(g) <= DownHeight(g, ci) * (MaxV(g) \div RowGroup(g, ci))
         /\ (ImcuRows(g) - 1) * ImcuLines(g, ci) < DownHeight(g, ci)
         /\ DownHeight(g, ci) <= ImcuRows(g) * ImcuLines(g, ci)
<1> DEFINE V == MaxV(g)
           m == g.m
           D == DctSize
           h == g.height
           H == OutputHeight(g)
           N == ImcuRows(g)
           DH == DownHeight(g, ci)
           rg == RowGroup(g, ci)
           e == V \div rg
<1>1. V \in 1 .. 4 /\ m \in Nat \ {0} /\ D \in Nat \ {0} /\ h \in Nat \ {0}
  BY OutputRates
<1>2. rg \in 1 .. 4 /\ e \in 1 .. 4 /\ rg * e = V /\ ImcuHeight(g, ci) = rg * m /\ ImcuLines(g, ci) = rg * m
  BY Groupings DEF ImcuLines
<1>3. H \in Nat \ {0} /\ h * m <= H * D /\ (H - 1) * D < h * m
  <2>1. h * m \in Nat \ {0}
    <3> HIDE DEF h, m
    <3> QED
      BY <1>1
  <2> QED
    BY <1>1, <2>1, RoundedBelow DEF OutputHeight
<1>4. N \in Nat \ {0} /\ (N - 1) * (V * m) < H /\ H <= N * (V * m)
  BY OutputRows
<1>5. DH = RoundUp((h * m) * rg, (e * D) * rg)
  <2>1. DH = RoundUp(h * g.v[ci] * ScaledSize(g, ci), V * D)
    BY DEF DownHeight
  <2>2. g.v[ci] * ScaledSize(g, ci) = rg * m
    BY <1>2 DEF ImcuHeight
  <2>3. g.v[ci] \in Nat /\ ScaledSize(g, ci) \in Nat
    BY OutputRates, Groupings
  <2> DEFINE v == g.v[ci]
             s == ScaledSize(g, ci)
  <2> HIDE DEF V, m, D, h, H, N, rg, e, v, s
  <2>4. h * v * s = (h * m) * rg
    <3>1. h * v * s = h * (v * s) /\ v * s = rg * m
      BY <1>1, <2>2, <2>3 DEF v, s
    <3>2. h * (rg * m) = (h * m) * rg
      BY <1>1, <1>2
    <3> QED
      BY <3>1, <3>2
  <2>5. V * D = (e * D) * rg
    BY <1>1, <1>2
  <2> QED
    BY <2>1, <2>4, <2>5 DEF v, s, h
<1> HIDE DEF V, m, D, h, H, N, rg, e, DH
<1>6. DH \in Nat \ {0} /\ h * m <= DH * (e * D) /\ (DH - 1) * (e * D) < h * m
  <2> DEFINE a == h * m
             b == e * D
  <2>1. a \in Nat \ {0} /\ b \in Nat \ {0}
    BY <1>1, <1>2
  <2> HIDE DEF a, b
  <2>2. a * rg \in Nat \ {0} /\ b * rg \in Nat \ {0}
    BY <1>2, <2>1
  <2>3. DH \in Nat \ {0} /\ a * rg <= DH * (b * rg) /\ (DH - 1) * (b * rg) < a * rg
    BY <1>5, <2>2, RoundedBelow DEF a, b
  <2>4. DH * (b * rg) = (DH * b) * rg /\ (DH - 1) * (b * rg) = ((DH - 1) * b) * rg
    BY <1>2, <2>1, <2>3
  <2>5. DH * b \in Int /\ (DH - 1) * b \in Int
    BY <2>1, <2>3
  <2>6. a <= DH * b /\ (DH - 1) * b < a
    BY <1>2, <2>1, <2>3, <2>4, <2>5, Smaller
  <2> QED
    BY <2>3, <2>6 DEF a, b
<1>7. (DH - 1) * e < H
  <2> DEFINE a == (DH - 1) * e
  <2>1. a \in Int /\ a * D = (DH - 1) * (e * D)
    BY <1>1, <1>2, <1>6
  <2> HIDE DEF a
  <2>2. h * m \in Int /\ H * D \in Int /\ a * D \in Int
    BY <1>1, <1>3, <2>1
  <2>3. a * D < H * D
    BY <1>3, <1>6, <2>1, <2>2
  <2> QED
    BY <1>1, <1>3, <2>1, <2>3, Smaller DEF a
<1>8. H <= DH * e
  <2> DEFINE a == DH * e
  <2>1. a \in Int /\ a * D = DH * (e * D)
    BY <1>1, <1>2, <1>6
  <2> HIDE DEF a
  <2>2. h * m \in Int /\ (H - 1) * D \in Int /\ a * D \in Int
    BY <1>1, <1>3, <2>1
  <2>3. (H - 1) * D < a * D
    BY <1>3, <1>6, <2>1, <2>2
  <2>4. H - 1 < a
    BY <1>1, <1>3, <2>1, <2>3, Smaller
  <2> QED
    BY <1>3, <2>1, <2>4 DEF a
<1>9. ASSUME NEW n \in Int PROVE n * (V * m) = (n * (rg * m)) * e /\ n * (rg * m) \in Int
  BY <1>1, <1>2
<1>10. (N - 1) * (rg * m) < DH
  <2> DEFINE a == (N - 1) * (rg * m)
  <2>1. a \in Int /\ (N - 1) * (V * m) = a * e
    BY <1>4, <1>9
  <2> HIDE DEF a
  <2>2. a * e \in Int /\ DH * e \in Int
    BY <1>2, <1>6, <2>1
  <2>3. a * e < DH * e
    BY <1>3, <1>4, <1>8, <2>1, <2>2
  <2> QED
    BY <1>2, <1>6, <2>1, <2>3, Smaller DEF a
<1>11. DH <= N * (rg * m)
  <2> DEFINE a == N * (rg * m)
  <2>1. a \in Int /\ N * (V * m) = a * e
    BY <1>4, <1>9
  <2> HIDE DEF a
  <2>2. a * e \in Int /\ (DH - 1) * e \in Int
    BY <1>2, <1>6, <2>1
  <2>3. (DH - 1) * e < a * e
    BY <1>3, <1>4, <1>7, <2>1, <2>2
  <2>4. DH - 1 < a
    BY <1>2, <1>6, <2>1, <2>3, Smaller
  <2> QED
    BY <1>6, <2>1, <2>4 DEF a
<1> QED
  BY <1>2, <1>6, <1>7, <1>8, <1>10, <1>11 DEF DH, e, H, N, V, rg

\* The remainder of a number between two multiples.
LEMMA Remainder ==
  ASSUME NEW k \in Nat \ {0}, NEW n \in Nat, NEW r \in 1 .. k
  PROVE  (n * k + r) % k = IF r = k THEN 0 ELSE r
<1> DEFINE a == n * k + r
           q == a \div k
           x == a % k
<1>1. a \in Nat
  OBVIOUS
<1> HIDE DEF a
<1>2. q \in Int /\ x \in Int /\ a = k * q + x /\ 0 <= x /\ x < k
  BY <1>1
<1> HIDE DEF q, x
<1>3. k * q = q * k /\ q * k \in Int /\ n * k \in Int
  BY <1>2
<1>4. a = n * k + r
  BY DEF a
<1> DEFINE c == q * k
           b == n * k
<1> HIDE DEF b, c
<1>5. c + x = b + r /\ c \in Int /\ b \in Int
  BY <1>2, <1>3, <1>4 DEF b, c
<1>6. (n + 1) * k = b + k /\ (n + 2) * k = b + 2 * k
  BY DEF b
<1>7. n <= q
  <2>1. (q + 1) * k = c + k
    BY <1>2 DEF c
  <2>2. b < c + k
    BY <1>2, <1>5
  <2>3. n * k < (q + 1) * k
    BY <2>1, <2>2 DEF b
  <2>4. n < q + 1
    BY <1>2, <2>3, Smaller
  <2> QED
    BY <1>2, <2>4
<1>8. q <= n + 1
  <2>1. c < b + 2 * k
    BY <1>2, <1>5
  <2>2. q * k < (n + 2) * k
    BY <1>6, <2>1 DEF c
  <2>3. q < n + 2
    BY <1>2, <2>2, Smaller
  <2> QED
    BY <1>2, <2>3
<1>9. CASE q = n
  <2>1. c = b
    BY <1>9 DEF b, c
  <2> QED
    BY <1>2, <1>5, <2>1 DEF a, x
<1>10. CASE q = n + 1
  <2>1. c = b + k
    BY <1>6, <1>10 DEF c
  <2> QED
    BY <1>2, <1>5, <2>1 DEF a, x
<1> QED
  BY <1>2, <1>7, <1>8, <1>9, <1>10

LEMMA LeftRows ==
  ASSUME NEW g \in Outputs, NEW ci \in Comps(g)
  PROVE  /\ RowsLeft(g, ci) \in 1 .. ImcuLines(g, ci)
         /\ DownHeight(g, ci) = (ImcuRows(g) - 1) * ImcuLines(g, ci) + RowsLeft(g, ci)
<1> DEFINE k == ImcuLines(g, ci)
           n == ImcuRows(g) - 1
           DH == DownHeight(g, ci)
           r == DH - n * k
<1>1. k \in Nat \ {0} /\ k = ImcuHeight(g, ci)
  <2>1. RowGroup(g, ci) \in Nat \ {0} /\ g.m \in Nat \ {0} /\ k = ImcuHeight(g, ci)
    BY Groupings, OutputRates
  <2> QED
    BY <2>1 DEF ImcuLines
<1>2. n \in Nat /\ DH \in Nat /\ n * k < DH /\ DH <= (n + 1) * k
  BY ComponentRows, OutputRows
<1>3. RowsLeft(g, ci) = LET x == DH % k IN IF x = 0 THEN k ELSE x
  BY <1>1 DEF RowsLeft
<1> HIDE DEF k, n, DH
<1>4. r \in 1 .. k /\ DH = n * k + r
  BY <1>1, <1>2
<1>5. DH % k = IF r = k THEN 0 ELSE r
  <2> HIDE DEF r
  <2>1. \A x \in Nat \ {0}, y \in Nat : \A z \in 1 .. x : (y * x + z) % x = IF z = x THEN 0 ELSE z
    BY Remainder
  <2>2. k \in Nat \ {0} /\ n \in Nat /\ r \in 1 .. k
    BY <1>1, <1>2, <1>4
  <2>3. (n * k + r) % k = IF r = k THEN 0 ELSE r
    BY <2>1, <2>2, Zenon
  <2> QED
    BY <1>4, <2>3, Zenon
<1>6. RowsLeft(g, ci) = r
  BY <1>1, <1>3, <1>4, <1>5
<1> HIDE DEF r
<1> QED
  BY <1>4, <1>6 DEF k, n, DH

LEMMA LastRowGroups ==
  ASSUME NEW g \in Outputs
  PROVE  LET left == (RowsLeft(g, 1) - 1) \div RowGroup(g, 1) + 1
         IN left \in Nat \ {0} /\ ((ImcuRows(g) - 1) * g.m + left) * MaxV(g) >= OutputHeight(g)
<1> DEFINE n == ImcuRows(g) - 1
           m == g.m
           V == MaxV(g)
           H == OutputHeight(g)
           DH == DownHeight(g, 1)
           rg == RowGroup(g, 1)
           e == V \div rg
           r == RowsLeft(g, 1)
           q == (r - 1) \div rg
<1>1. /\ 1 \in Comps(g) /\ n \in Nat /\ m \in Nat \ {0} /\ H \in Nat /\ rg \in 1 .. 4 /\ e \in 1 .. 4 /\ rg * e = V
      /\ ImcuLines(g, 1) = rg * m /\ r \in 1 .. rg * m /\ DH = n * (rg * m) + r /\ H <= DH * e
  BY OutputRates, OutputRows, Groupings, ComponentRows, LeftRows DEF ImcuLines
<1> HIDE DEF n, m, V, H, DH, rg, e, r
<1>2. rg * m \in Nat
  BY <1>1
<1>3. r \in Nat \ {0}
  BY <1>1, <1>2
<1>4. q \in Nat /\ r - 1 < (q + 1) * rg
  <2>1. r - 1 \in Nat
    BY <1>3
  <2>2. CASE rg = 1 BY <2>1, <2>2
  <2>3. CASE rg = 2 BY <2>1, <2>3
  <2>4. CASE rg = 3 BY <2>1, <2>4
  <2>5. CASE rg = 4 BY <2>1, <2>5
  <2> QED
    BY <1>1, <2>2, <2>3, <2>4, <2>5
<1> HIDE DEF q
<1> DEFINE x == (q + 1) * rg
           y == n * (rg * m)
<1>5. x \in Nat /\ y \in Nat /\ ((n * m + (q + 1)) * V) = (y + x) * e
  BY <1>1, <1>4
<1> HIDE DEF x, y
<1>6. DH = y + r /\ r <= x
  BY <1>1, <1>3, <1>4, <1>5 DEF x, y
<1>7. DH * e <= (y + x) * e
  BY <1>1, <1>3, <1>5, <1>6
<1>8. DH * e \in Int /\ (y + x) * e \in Int
  BY <1>1, <1>3, <1>5, <1>6
<1>9. H <= (n * m + (q + 1)) * V
  BY <1>1, <1>5, <1>7, <1>8
<1>10. q + 1 \in Nat \ {0} /\ (n * m + (q + 1)) * V \in Int
  BY <1>4, <1>5, <1>8
<1> QED
  BY <1>1, <1>9, <1>10 DEF n, m, V, H, rg, r, q

\* What the coefficient controller decodes of iMCU row c: all rows that are shown of it.
LEMMA DecodesAll ==
  ASSUME NEW q, q.g \in Outputs, NEW ci \in Comps(q.g), q.coefRow \in 0 .. ImcuRows(q.g) - 1
  PROVE  /\ DecodedRows(q, ci) \subseteq 0 .. ImcuLines(q.g, ci) - 1
         /\ \A j \in 0 .. ImcuLines(q.g, ci) - 1 :
              q.coefRow * ImcuLines(q.g, ci) + j < DownHeight(q.g, ci) => j \in DecodedRows(q, ci)
<1> DEFINE g == q.g
           V == MaxV(g)
           D == DctSize
           h == g.height
           v == g.v[ci]
           s == ScaledSize(g, ci)
           k == ImcuLines(g, ci)
           N == ImcuRows(g)
           DH == DownHeight(g, ci)
           B == BlockRows(g, ci)
           last == B % v
           c == q.coefRow
           blocks == IF c < N - 1 \/ last = 0 THEN v ELSE last
<1>1. /\ V \in 1 .. 4 /\ D \in Nat \ {0} /\ h \in Nat \ {0} /\ v \in 1 .. 4 /\ s \in Nat \ {0}
      /\ N \in Nat \ {0} /\ k = v * s /\ c \in 0 .. N - 1 /\ DH \in Nat
  BY OutputRates, OutputRows, Groupings, ComponentRows DEF ImcuHeight
<1>2. h <= N * (V * D) /\ (N - 1) * (V * D) < h
  <2>1. V * D \in Nat \ {0}
    <3> HIDE DEF V, D
    <3> QED
      BY <1>1
  <2> QED
    BY <1>1, <2>1, RoundedBelow DEF ImcuRows
<1>3. DecodedRows(q, ci) = 0 .. blocks * s - 1
  BY DEF DecodedRows
<1>4. B = RoundUp(h * v, V * D) /\ DH = RoundUp(h * v * s, V * D)
  BY DEF BlockRows, DownHeight
<1> HIDE DEF g, V, D, h, v, s, k, N, DH, B, c
<1> DEFINE b == V * D
<1>5. b \in Nat \ {0} /\ h * v \in Nat \ {0} /\ h * v * s \in Nat \ {0} /\ h * v * s = (h * v) * s
  BY <1>1
<1>6. B \in Nat \ {0} /\ h * v <= B * b /\ (B - 1) * b < h * v
  BY <1>4, <1>5, RoundedBelow
<1>7. DH <= B * s
  <2>1. B * s \in Nat /\ (B * s) * b = (B * b) * s /\ B * b \in Nat
    BY <1>1, <1>5, <1>6
  <2>2. (h * v) * s <= (B * b) * s
    BY <1>1, <1>5, <1>6, <2>1, Smaller
  <2>3. (B * s) * b >= h * v * s
    BY <1>5, <2>1, <2>2
  <2> HIDE DEF b
  <2>4. h * v * s \in Nat /\ b \in Nat \ {0}
    BY <1>5
  <2> QED
    BY <1>4, <2>1, <2>3, <2>4, Rounded DEF b
<1> HIDE DEF b
<1>8. h <= N * b /\ (N - 1) * b < h
  BY <1>2 DEF b
<1>9. (N - 1) * v < B
  <2> DEFINE x == (N - 1) * b
  <2>1. x \in Int /\ ((N - 1) * v) * b = x * v /\ (N - 1) * v \in Int
    BY <1>1, <1>5
  <2> HIDE DEF x
  <2>2. x * v < h * v
    BY <1>1, <1>8, <2>1, Smaller DEF x
  <2>3. x * v \in Int /\ h * v \in Int /\ B * b \in Int
    BY <1>1, <1>5, <1>6, <2>1
  <2>4. ((N - 1) * v) * b < B * b
    BY <1>6, <2>1, <2>2, <2>3
  <2> QED
    BY <1>5, <1>6, <2>1, <2>4, Smaller
<1>10. B <= N * v
  <2> DEFINE x == N * b
  <2>1. x \in Int /\ (N * v) * b = x * v /\ N * v \in Int
    BY <1>1, <1>5
  <2> HIDE DEF x
  <2>2. h * v <= x * v
    BY <1>1, <1>8, <2>1, Smaller DEF x
  <2>3. x * v \in Int /\ h * v \in Int /\ (B - 1) * b \in Int
    BY <1>1, <1>5, <1>6, <2>1
  <2>4. (B - 1) * b < (N * v) * b
    BY <1>6, <2>1, <2>2, <2>3
  <2>5. B - 1 < N * v
    BY <1>5, <1>6, <2>1, <2>4, Smaller
  <2> QED
    BY <1>6, <2>1, <2>5
<1> DEFINE r == B - (N - 1) * v
<1>11. r \in 1 .. v /\ B = (N - 1) * v + r
  <2>1. (N - 1) * v \in Int /\ N * v = (N - 1) * v + v
    BY <1>1
  <2> QED
    BY <1>1, <1>6, <1>9, <1>10, <2>1
<1>12. last = IF r = v THEN 0 ELSE r
  <2> HIDE DEF r
  <2>1. v \in Nat \ {0} /\ N - 1 \in Nat
    BY <1>1
  <2> QED
    BY <1>11, <2>1, Remainder
<1> HIDE DEF r, last
<1>13. blocks \in 1 .. v /\ (c < N - 1 => blocks = v) /\ (c = N - 1 => blocks = r)
  BY <1>1, <1>11, <1>12
<1> HIDE DEF blocks
<1>14. blocks * s <= k
  <2>1. blocks * s <= v * s
    BY <1>1, <1>13
  <2> QED
    BY <1>1, <2>1
<1>15. ASSUME NEW j \in 0 .. k - 1, c * k + j < DH PROVE j < blocks * s
  <2>1. CASE c < N - 1
    BY <1>1, <1>13, <2>1
  <2>2. CASE c = N - 1
    <3>1. B * s = ((N - 1) * v + r) * s
      BY <1>11
    <3>2. ((N - 1) * v + r) * s = (N - 1) * (v * s) + r * s
      BY <1>1, <1>11
    <3> DEFINE x == (N - 1) * (v * s)
               y == r * s
    <3>3. x \in Int /\ y \in Int
      BY <1>1, <1>11
    <3> HIDE DEF x, y
    <3>4. B * s = x + y /\ c * k = x /\ blocks * s = y
      BY <1>1, <1>13, <2>2, <3>1, <3>2 DEF x, y
    <3>5. k \in Int
      BY <1>1
    <3> QED
      BY <1>1, <1>7, <1>15, <3>3, <3>4, <3>5
  <2> QED
    BY <1>1, <2>1, <2>2
<1>16. k \in Int /\ blocks * s \in Int
  BY <1>1, <1>13
<1>17. 0 .. blocks * s - 1 \subseteq 0 .. k - 1
  BY <1>14, <1>16
<1>18. \A j \in 0 .. k - 1 : c * k + j < DH => j \in 0 .. blocks * s - 1
  <2> SUFFICES ASSUME NEW j \in 0 .. k - 1, c * k + j < DH PROVE j \in 0 .. blocks * s - 1
    OBVIOUS
  <2>1. j < blocks * s
    BY <1>15
  <2> QED
    BY <1>16, <2>1
<1> QED
  BY <1>3, <1>17, <1>18 DEF g, k, DH, c

-----------------------------------------------------------------------------
(***************************************************************************)
(* The upsamplers.                                                         *)
(***************************************************************************)
LEMMA SameView ==
  ASSUME NEW q, NEW b, b.g = q.g, b.buf = q.buf, b.xbuf = q.xbuf
  PROVE  \A w, ci, i : RowAt(b, w, ci, i) = RowAt(q, w, ci, i)
BY DEF RowAt, PointerAt

LEMMA TailOfRows ==
  ASSUME NEW x, NEW y
  PROVE  Tail(<<"rows", x>>) = <<x>> /\ Tail(<<"rows", x, y>>) = <<x, y>>
OBVIOUS

\* The rows of a component behind row k of row group n.
LEMMA NearestRows ==
  ASSUME NEW g \in Outputs, NEW ci \in Comps(g), NEW n \in Nat, NEW k \in 0 .. MaxV(g) - 1,
         n * MaxV(g) + k < OutputHeight(g)
  PROVE  LET e  == MaxV(g) \div RowGroup(g, ci)
             rg == RowGroup(g, ci)
         IN /\ k \div e \in 0 .. rg - 1 /\ (n * MaxV(g) + k) \div e = n * rg + k \div e
            /\ n * rg + k \div e \in 0 .. DownHeight(g, ci) - 1
            /\ Fancy(g, ci) => (n * MaxV(g) + k) % 2 = k % 2
<1> DEFINE V == MaxV(g)
           H == OutputHeight(g)
           DH == DownHeight(g, ci)
           rg == RowGroup(g, ci)
           e == V \div rg
<1>1. /\ V \in 1 .. 4 /\ rg \in 1 .. 4 /\ e \in 1 .. 4 /\ rg * e = V
      /\ H \in Nat /\ DH \in Nat \ {0} /\ H <= DH * e
  BY OutputRates, Groupings, OutputRows, ComponentRows
<1>2. Fancy(g, ci) => V = 2 * rg
  BY DEF Fancy
<1>3. k \in 0 .. V - 1 /\ n * V + k < H
  OBVIOUS
<1> HIDE DEF V, H, DH, rg, e
<1>4. k \in Nat /\ k < rg * e
  BY <1>1, <1>3
<1> DEFINE y == n * rg
           x == k \div e
<1>5. y \in Nat /\ n * V = y * e
  BY <1>1
<1> HIDE DEF y
<1>6. x \in 0 .. rg - 1 /\ (y * e + k) \div e = y + x /\ (y + x) * e <= y * e + k
  <2>1. CASE e = 1 BY <1>1, <1>4, <1>5, <2>1
  <2>2. CASE e = 2 BY <1>1, <1>4, <1>5, <2>2
  <2>3. CASE e = 3 BY <1>1, <1>4, <1>5, <2>3
  <2>4. CASE e = 4 BY <1>1, <1>4, <1>5, <2>4
  <2> QED
    BY <1>1, <2>1, <2>2, <2>3, <2>4
<1>7. (n * V + k) \div e = y + x
  BY <1>5, <1>6
<1> HIDE DEF x
<1>8. y + x \in 0 .. DH - 1
  <2>1. x \in Nat /\ (y + x) * e \in Int /\ y * e \in Int /\ DH * e \in Int
    BY <1>1, <1>5, <1>6
  <2>2. (y + x) * e < DH * e
    BY <1>1, <1>3, <1>4, <1>5, <1>6, <2>1
  <2>3. y + x < DH
    BY <1>1, <1>5, <2>1, <2>2, Smaller
  <2> QED
    BY <1>1, <1>5, <2>1, <2>3
<1>9. Fancy(g, ci) => (n * V + k) % 2 = k % 2
  <2> SUFFICES ASSUME Fancy(g, ci) PROVE (n * V + k) % 2 = k % 2
    OBVIOUS
  <2>1. n * V = 2 * y
    BY <1>1, <1>2 DEF y
  <2>2. (2 * y + k) % 2 = k % 2
    BY <1>4, <1>5
  <2> QED
    BY <2>1, <2>2
<1> QED
  BY <1>6, <1>7, <1>8, <1>9 DEF V, DH, rg, e, x, y

LEMMA ClampRow ==
  ASSUME NEW n \in Nat, NEW r \in 0 .. n - 1
  PROVE  Clamp(r, n) = r
BY DEF Clamp

\* What a row group that is shown has for the upsampler.
LEMMA GroupShown ==
  ASSUME NEW q, q.g \in Outputs, NEW n \in Nat, NEW u \in Nat, ShowsGroup(q, u, n), NEW ci \in Comps(q.g),
         NEW k \in 0 .. MaxV(q.g) - 1, n * MaxV(q.g) + k < OutputHeight(q.g)
  PROVE  LET g    == q.g
             near == u * RowGroup(g, ci) + k \div (MaxV(g) \div RowGroup(g, ci))
             r    == (n * MaxV(g) + k) \div (MaxV(g) \div RowGroup(g, ci))
         IN /\ RowAt(q, q.which, ci, near) = r
            /\ NeedContext(g) => /\ RowAt(q, q.which, ci, near - 1) = Clamp(r - 1, DownHeight(g, ci))
                                 /\ RowAt(q, q.which, ci, near + 1) = Clamp(r + 1, DownHeight(g, ci))
            /\ Fancy(g, ci) => (n * MaxV(g) + k) % 2 = k % 2
<1> DEFINE g == q.g
           rg == RowGroup(g, ci)
           x == k \div (MaxV(g) \div rg)
           DH == DownHeight(g, ci)
           R == Reach(g)
<1>1. /\ x \in 0 .. rg - 1 /\ (n * MaxV(g) + k) \div (MaxV(g) \div rg) = n * rg + x /\ n * rg + x \in 0 .. DH - 1
      /\ Fancy(g, ci) => (n * MaxV(g) + k) % 2 = k % 2
  BY NearestRows
<1>2. rg \in 1 .. 4 /\ DH \in Nat \ {0} /\ R \in {0, 1}
  BY Groupings, ComponentRows DEF Reach
<1>3. \A i \in -R .. rg - 1 + R : n * rg + i < DH + R =>
         RowAt(q, q.which, ci, u * rg + i) = Clamp(n * rg + i, DH)
  BY DEF ShowsGroup, ShowsRows
<1>4. n * rg \in Nat /\ u * rg \in Nat
  <2> HIDE DEF rg
  <2> QED
    BY <1>2
<1>5. NeedContext(g) => R = 1
  BY DEF Reach
<1> DEFINE a == n * rg
           c == u * rg
<1> HIDE DEF rg, x, DH, R, a, c
<1>6. /\ a \in Nat /\ c \in Nat /\ x \in 0 .. rg - 1 /\ a + x \in 0 .. DH - 1
      /\ \A i \in -R .. rg - 1 + R : a + i < DH + R => RowAt(q, q.which, ci, c + i) = Clamp(a + i, DH)
  BY <1>1, <1>3, <1>4 DEF a, c
<1>7. x \in -R .. rg - 1 + R /\ a + x < DH + R
  BY <1>2, <1>6
<1>8. RowAt(q, q.which, ci, c + x) = a + x
  BY <1>2, <1>6, <1>7, ClampRow
<1>9. ASSUME NeedContext(g)
      PROVE  /\ RowAt(q, q.which, ci, (c + x) - 1) = Clamp((a + x) - 1, DH)
             /\ RowAt(q, q.which, ci, (c + x) + 1) = Clamp((a + x) + 1, DH)
  <2>1. R = 1 /\ x \in Int
    BY <1>2, <1>5, <1>6, <1>9
  <2>2. x - 1 \in -R .. rg - 1 + R /\ x + 1 \in -R .. rg - 1 + R /\ a + (x - 1) < DH + R /\ a + (x + 1) < DH + R
    BY <1>2, <1>6, <2>1
  <2>3. /\ (c + x) - 1 = c + (x - 1) /\ (c + x) + 1 = c + (x + 1)
        /\ (a + x) - 1 = a + (x - 1) /\ (a + x) + 1 = a + (x + 1)
    BY <1>6, <2>1
  <2> QED
    BY <1>6, <2>2, <2>3
<1> DEFINE r == (n * MaxV(g) + k) \div (MaxV(g) \div rg)
<1>10. r = a + x
  BY <1>1 DEF a
<1> HIDE DEF r
<1>11. /\ RowAt(q, q.which, ci, c + x) = r
       /\ NeedContext(g) => /\ RowAt(q, q.which, ci, (c + x) - 1) = Clamp(r - 1, DH)
                            /\ RowAt(q, q.which, ci, (c + x) + 1) = Clamp(r + 1, DH)
  BY <1>8, <1>9, <1>10
<1>12. Fancy(g, ci) => (n * MaxV(g) + k) % 2 = k % 2
  BY <1>1
<1> QED
  BY <1>11, <1>12, Zenon DEF g, rg, x, DH, c, r

\* A row of the conversion buffer when it is filled.
LEMMA FilledRow ==
  ASSUME NEW q, DOMAIN q = OutputFields, q.g \in Outputs, q.g.merged = FALSE, NEW n \in Nat, q.rowgroup \in Nat,
         ShowsGroup(q, q.rowgroup, n), NEW k \in 0 .. MaxV(q.g) - 1, n * MaxV(q.g) + k < OutputHeight(q.g)
  PROVE  ColorConvertRow(FillColorBuf(q), k) = Upsampled(q.g, n * MaxV(q.g) + k)
<1> DEFINE g == q.g
           b == FillColorBuf(q)
           row == n * MaxV(g) + k
           Converted(ci) == LET c == b.color[k][ci]
                            IN IF c[1] = "list" THEN <<RowAt(b, c[2], ci, c[3])>> ELSE Tail(c)
           Right(ci) == LET near == row \div (MaxV(g) \div RowGroup(g, ci))
                        IN IF ~g.merged /\ Fancy(g, ci)
                           THEN <<near, Clamp(IF row % 2 = 0 THEN near - 1 ELSE near + 1, DownHeight(g, ci))>>
                           ELSE <<near>>
<1>1. b.g = g /\ b.buf = q.buf /\ b.xbuf = q.xbuf
  BY DEF FillColorBuf, OutputFields
<1>2. b.color = [j \in 0 .. MaxV(g) - 1 |-> [ci \in Comps(g) |-> UpsampleRow(q, ci, j)]]
  BY DEF FillColorBuf, OutputFields
<1>3. \A w, ci, i : RowAt(b, w, ci, i) = RowAt(q, w, ci, i)
  BY <1>1, SameView
<1>4. ASSUME NEW ci \in Comps(g) PROVE Converted(ci) = Right(ci)
  <2> DEFINE rg == RowGroup(g, ci)
             e == MaxV(g) \div rg
             near == q.rowgroup * rg + k \div e
             r == row \div e
             c == b.color[k][ci]
  <2>1. c = UpsampleRow(q, ci, k)
    BY <1>2
  <2>2. /\ RowAt(q, q.which, ci, near) = r
        /\ NeedContext(g) => /\ RowAt(q, q.which, ci, near - 1) = Clamp(r - 1, DownHeight(g, ci))
                             /\ RowAt(q, q.which, ci, near + 1) = Clamp(r + 1, DownHeight(g, ci))
        /\ Fancy(g, ci) => row % 2 = k % 2
    BY GroupShown
  <2>3. MaxV(g) \in 1 .. 4 /\ rg \in 1 .. 4
    BY OutputRates, Groupings
  <2>4. CASE Fullsize(g, ci)
    <3>1. rg = MaxV(g)
      BY <2>4 DEF Fullsize
    <3>2. ~Fancy(g, ci)
      BY <2>3, <3>1 DEF Fancy
    <3>3. e = 1 /\ k \div e = k
      BY <2>3, <3>1
    <3>4. c = <<"list", q.which, near>>
      BY <2>1, <2>4, <3>3 DEF UpsampleRow
    <3> HIDE DEF c, near, r
    <3>5. c[1] = "list" /\ c[2] = q.which /\ c[3] = near
      BY <3>4
    <3>6. Converted(ci) = <<r>>
      BY <1>3, <2>2, <3>5 DEF c
    <3>7. Right(ci) = <<r>>
      BY <3>2 DEF r
    <3> QED
      BY <3>6, <3>7
  <2>5. CASE ~Fullsize(g, ci) /\ Fancy(g, ci)
    <3>1. NeedContext(g)
      BY <2>5 DEF NeedContext
    <3> DEFINE next == IF k % 2 = 0 THEN near - 1 ELSE near + 1
               after == IF row % 2 = 0 THEN r - 1 ELSE r + 1
    <3>2. c = <<"rows", RowAt(q, q.which, ci, near), RowAt(q, q.which, ci, next)>>
      BY <2>1, <2>5 DEF UpsampleRow
    <3>3. RowAt(q, q.which, ci, next) = Clamp(after, DownHeight(g, ci))
      BY <2>2, <2>5, <3>1
    <3> HIDE DEF c, near, r, after, next
    <3>4. c = <<"rows", r, Clamp(after, DownHeight(g, ci))>>
      BY <2>2, <3>2, <3>3
    <3>5. c[1] # "list" /\ Tail(c) = <<r, Clamp(after, DownHeight(g, ci))>>
      BY <3>4, TailOfRows
    <3>6. Converted(ci) = <<r, Clamp(after, DownHeight(g, ci))>>
      BY <3>5 DEF c
    <3>7. Right(ci) = <<r, Clamp(after, DownHeight(g, ci))>>
      BY <2>5 DEF r, after
    <3> QED
      BY <3>6, <3>7
  <2>6. CASE ~Fullsize(g, ci) /\ ~Fancy(g, ci)
    <3>1. c = <<"rows", RowAt(q, q.which, ci, near)>>
      BY <2>1, <2>6 DEF UpsampleRow
    <3> HIDE DEF c, near, r
    <3>2. c = <<"rows", r>>
      BY <2>2, <3>1
    <3>3. c[1] # "list" /\ Tail(c) = <<r>>
      BY <3>2, TailOfRows
    <3>4. Converted(ci) = <<r>>
      BY <3>3 DEF c
    <3>5. Right(ci) = <<r>>
      BY <2>6 DEF r
    <3> QED
      BY <3>4, <3>5
  <2> QED
    BY <2>4, <2>5, <2>6
<1>5. ColorConvertRow(b, k) = [ci \in Comps(g) |-> Converted(ci)]
  BY <1>1 DEF ColorConvertRow
<1>6. Upsampled(g, row) = [ci \in Comps(g) |-> Right(ci)]
  BY DEF Upsampled
<1> HIDE DEF Converted, Right, b, row
<1> QED
  BY <1>4, <1>5, <1>6 DEF b, row

LEMMA LeastOf ==
  ASSUME NEW a \in Int, NEW b \in Int
  PROVE  Least(a, b) \in Int /\ Least(a, b) <= a /\ Least(a, b) <= b /\ (Least(a, b) = a \/ Least(a, b) = b)
BY DEF Least

\* Rows that are all pictures of the image.
LEMMA PictureRows ==
  ASSUME NEW g, NEW len \in Nat, NEW rows, NEW first \in Nat, DOMAIN rows = 1 .. len,
         rows = [i \in 1 .. len |-> rows[i]], \A i \in 1 .. len : rows[i] = Upsampled(g, first + i - 1)
  PROVE  rows \in Seq(Pictures(g)) /\ Len(rows) = len
<1>1. ASSUME NEW i \in 1 .. len PROVE rows[i] \in Pictures(g)
  <2>1. first + i - 1 \in Nat
    OBVIOUS
  <2> QED
    BY <2>1 DEF Pictures
<1> HIDE DEF Pictures
<1>2. rows \in [1 .. len -> Pictures(g)]
  BY <1>1
<1> QED
  BY <1>2

LEMMA UpsamplingAt ==
  ASSUME NEW q, NEW n, NEW shown, shown = n * MaxV(q.g) + Partial(q),
         q.nextOut \in 1 .. MaxV(q.g), q.g.merged => q.nextOut = MaxV(q.g), ~q.g.merged => q.spare = <<>>,
         q.spare # <<>> => MaxV(q.g) = 2, shown <= OutputHeight(q.g),
         ~(q.g.merged /\ MaxV(q.g) = 1) => q.toGo = OutputHeight(q.g) - shown,
         Partial(q) > 0 => \A k \in Partial(q) .. MaxV(q.g) - 1 :
            n * MaxV(q.g) + k < OutputHeight(q.g) => ReadyRow(q, k) = Upsampled(q.g, n * MaxV(q.g) + k)
  PROVE  Upsampling(q, n)
BY Zenon DEF Upsampling

LEMMA SepUpsamples ==
  ASSUME NEW q, NEW n \in Nat, Supplied(q, n), q.g.merged = FALSE, NEW room \in Nat \ {0}
  PROVE  Upsamples(q, SepUpsample(q, room), n, room)
<1> DEFINE g == q.g
           V == MaxV(g)
           H == OutputHeight(g)
           s == n * V
           x == Partial(q)
           c == IF q.nextOut >= V THEN FillColorBuf(q) ELSE q
           b == SepUpsample(q, room)
           num == Least(Least(V - x, H - (s + x)), room)
<1>1. V \in 1 .. 4 /\ H \in Nat /\ s \in Nat /\ (n + 1) * V = s + V
  <2>1. V \in 1 .. 4 /\ H \in Nat
    BY OutputRates, OutputRows DEF Supplied
  <2> HIDE DEF V
  <2> QED
    BY <2>1
<1>2. /\ q.nextOut \in 1 .. V /\ q.spare = <<>> /\ s + x < H /\ q.toGo = H - (s + x) /\ q.rowgroup \in Nat
      /\ x > 0 => \A k \in x .. V - 1 : s + k < H => ColorConvertRow(q, k) = Upsampled(g, s + k)
  BY DEF Supplied, Upsampling, ReadyRow
<1>3. x = IF q.nextOut < V THEN q.nextOut ELSE 0
  BY <1>2 DEF Partial
<1>4. x \in 0 .. V - 1
  <2>1. V \in 1 .. 4 /\ q.nextOut \in 1 .. V
    BY <1>1, <1>2
  <2> HIDE DEF V, x
  <2> QED
    BY <1>3, <2>1
<1>5. /\ Changes(q, c, {"color", "nextOut"}) /\ c.nextOut = x
      /\ \A k \in x .. V - 1 : s + k < H => ColorConvertRow(c, k) = Upsampled(g, s + k)
  <2>1. CASE q.nextOut < V
    <3>1. x = q.nextOut /\ x > 0 /\ c = q
      <4> HIDE DEF V, x
      <4> QED
        BY <1>1, <1>2, <1>3, <2>1
    <3> HIDE DEF c, x
    <3> QED
      BY <1>2, <3>1 DEF Changes
  <2>2. CASE ~(q.nextOut < V)
    <3>1. x = 0 /\ c = FillColorBuf(q)
      <4> HIDE DEF V, x
      <4> QED
        BY <1>1, <1>2, <1>3, <2>2
    <3>2. Changes(q, c, {"color", "nextOut"}) /\ c.nextOut = 0
      <4> HIDE DEF c, x
      <4> QED
        BY <3>1 DEF FillColorBuf, Changes, OutputFields, Supplied
    <3>3. ASSUME NEW k \in 0 .. V - 1, s + k < H PROVE ColorConvertRow(FillColorBuf(q), k) = Upsampled(g, s + k)
      <4>1. DOMAIN q = OutputFields /\ q.g \in Outputs /\ q.rowgroup \in Nat /\ ShowsGroup(q, q.rowgroup, n)
        BY <3>1 DEF Supplied
      <4> QED
        BY <3>3, <4>1, FilledRow
    <3> HIDE DEF c, x
    <3> QED
      BY <3>1, <3>2, <3>3
  <2> QED
    BY <2>1, <2>2
<1>6. b = ConvertRows(c, room)
  BY DEF SepUpsample
<1>7. DOMAIN q = OutputFields /\ DOMAIN c = OutputFields /\ c.g = g /\ c.toGo = q.toGo /\ c.rowgroup = q.rowgroup
      /\ c.spare = <<>>
  BY <1>2, <1>5 DEF Supplied, Changes, OutputFields
<1> SUFFICES Upsamples(q, b, n, room)
  OBVIOUS
<1> HIDE DEF c, x, V, H, s, b
<1>8. num \in 1 .. room /\ num <= V - x /\ num <= H - (s + x)
  <2>1. V - x \in Nat \ {0} /\ H - (s + x) \in Nat \ {0}
    BY <1>1, <1>2, <1>4
  <2> DEFINE y == Least(V - x, H - (s + x))
  <2>2. y \in Nat \ {0} /\ y <= V - x /\ y <= H - (s + x)
    <3> DEFINE e == V - x
               f == H - (s + x)
    <3>1. e \in Nat \ {0} /\ f \in Nat \ {0}
      BY <2>1
    <3> HIDE DEF e, f
    <3> QED
      BY <3>1 DEF Least, e, f
  <2> HIDE DEF y
  <2>3. Least(y, room) \in 1 .. room /\ Least(y, room) <= y
    BY <2>2 DEF Least
  <2>4. num = Least(y, room)
    BY DEF y
  <2> HIDE DEF num
  <2> QED
    BY <1>1, <1>4, <2>1, <2>2, <2>3, <2>4
<1>9. /\ Changes(c, b, {"rows", "toGo", "nextOut", "rowgroup"})
      /\ b.rows = [i \in 1 .. num |-> ColorConvertRow(c, x + i - 1)]
      /\ b.toGo = q.toGo - num /\ b.nextOut = x + num
      /\ b.rowgroup = IF x + num >= V THEN q.rowgroup + 1 ELSE q.rowgroup
  <2>1. num = Least(Least(MaxV(c.g) - c.nextOut, c.toGo), room)
    BY <1>2, <1>5, <1>7 DEF V
  <2> HIDE DEF num
  <2> QED
    BY <1>5, <1>6, <1>7, <2>1 DEF ConvertRows, Changes, OutputFields, V
<1> HIDE DEF num
<1>10. /\ Changes(q, b, Grown) /\ b.g = g /\ b.spare = <<>> /\ b.color = c.color /\ b.buf = c.buf /\ b.xbuf = c.xbuf
       /\ b.g = c.g
  BY <1>5, <1>7, <1>9 DEF Changes, OutputFields, Grown
<1>11. ASSUME NEW i \in 1 .. num PROVE b.rows[i] = Upsampled(g, s + x + i - 1)
  <2> DEFINE k == x + i - 1
  <2>1. k \in x .. V - 1 /\ s + k < H /\ s + k = s + x + i - 1
    BY <1>1, <1>4, <1>8
  <2>2. b.rows[i] = ColorConvertRow(c, k)
    BY <1>9
  <2> HIDE DEF k
  <2> QED
    BY <1>5, <2>1, <2>2
<1>12. b.rows \in Seq(Pictures(g)) /\ Len(b.rows) = num
  <2>1. s + x \in Nat /\ num \in Nat
    BY <1>1, <1>4, <1>8
  <2>2. \A i \in 1 .. num : b.rows[i] = Upsampled(g, (s + x) + i - 1)
    BY <1>11
  <2>3. DOMAIN b.rows = 1 .. num /\ b.rows = [i \in 1 .. num |-> b.rows[i]]
    BY <1>9
  <2> DEFINE rows == b.rows
             from == s + x
  <2> HIDE DEF rows, from
  <2>4. /\ from \in Nat /\ num \in Nat /\ \A i \in 1 .. num : rows[i] = Upsampled(g, from + i - 1)
        /\ DOMAIN rows = 1 .. num /\ rows = [i \in 1 .. num |-> rows[i]]
    BY <2>1, <2>2, <2>3 DEF rows, from
  <2>5. rows \in Seq(Pictures(g)) /\ Len(rows) = num
    BY <2>4, PictureRows
  <2> QED
    BY <2>5 DEF rows
<1> DEFINE left == q.toGo
           shown == s + x
<1>15. /\ V \in 1 .. 4 /\ H \in Nat /\ s \in Nat /\ x \in 0 .. V - 1 /\ num \in 1 .. room /\ num <= V - x
       /\ num <= H - shown /\ left = H - shown /\ shown = s + x /\ b.toGo = left - num /\ b.nextOut = x + num
  BY <1>1, <1>2, <1>4, <1>8, <1>9
<1> HIDE DEF left, shown
<1>16. ~g.merged /\ ~b.g.merged /\ MaxV(b.g) = V /\ OutputHeight(b.g) = H
  BY <1>10 DEF g, V, H
<1>13. CASE x + num >= V
  <2>1. x + num = V
    BY <1>13, <1>15
  <2>2. b.nextOut = V /\ Partial(b) = 0
    BY <1>1, <1>9, <1>10, <2>1 DEF Partial, V
  <2>3. b.toGo = H - (s + V) /\ s + V <= H /\ V \in 1 .. V
    BY <1>15, <2>1
  <2>4. Upsampling(b, n + 1)
    <3>1. s + V = (n + 1) * MaxV(b.g) + Partial(b)
      BY <1>1, <1>15, <1>16, <2>2
    <3>2. b.nextOut \in 1 .. MaxV(b.g) /\ s + V <= OutputHeight(b.g) /\ b.toGo = OutputHeight(b.g) - (s + V)
      BY <1>16, <2>2, <2>3
    <3>3. ~(Partial(b) > 0)
      BY <2>2
    <3> QED
      BY <1>10, <1>16, <3>1, <3>2, <3>3, UpsamplingAt
  <2>5. b.rowgroup = q.rowgroup + 1
    BY <1>9, <1>13
  <2> QED
    BY <1>10, <1>11, <1>12, <1>15, <2>1, <2>2, <2>4, <2>5, Zenon DEF Upsamples, V, s, x, g
<1>14. CASE ~(x + num >= V)
  <2>1. b.nextOut = x + num /\ x + num \in 1 .. V - 1
    BY <1>14, <1>15
  <2>2. Partial(b) = x + num
    BY <1>15, <1>16, <2>1 DEF Partial
  <2>3. b.toGo = H - (s + (x + num)) /\ s + (x + num) <= H /\ x + num \in 1 .. V
    BY <1>15, <2>1
  <2>4. ASSUME NEW k \in x + num .. V - 1, s + k < H PROVE ColorConvertRow(b, k) = Upsampled(g, s + k)
    <3>1. k \in x .. V - 1
      BY <1>15, <2>1
    <3>2. ColorConvertRow(c, k) = Upsampled(g, s + k)
      BY <1>5, <2>4, <3>1
    <3>3. ColorConvertRow(b, k) = ColorConvertRow(c, k)
      <4>1. \A w, ci, i : RowAt(b, w, ci, i) = RowAt(c, w, ci, i)
        BY <1>10, SameView
      <4> QED
        BY <1>10, <4>1 DEF ColorConvertRow
    <3> QED
      BY <3>2, <3>3
  <2>5. Upsampling(b, n)
    <3>1. s + (x + num) = n * MaxV(b.g) + Partial(b)
      BY <1>16, <2>2 DEF s
    <3>2. \A k \in Partial(b) .. MaxV(b.g) - 1 : n * MaxV(b.g) + k < OutputHeight(b.g) =>
             ReadyRow(b, k) = Upsampled(b.g, n * MaxV(b.g) + k)
      BY <1>10, <1>16, <2>2, <2>4 DEF ReadyRow, s
    <3>3. /\ b.nextOut \in 1 .. MaxV(b.g) /\ s + (x + num) <= OutputHeight(b.g)
          /\ b.toGo = OutputHeight(b.g) - (s + (x + num))
      BY <1>15, <1>16, <2>1, <2>3
    <3> QED
      BY <1>10, <1>16, <3>1, <3>2, <3>3, UpsamplingAt
  <2>6. b.rowgroup = q.rowgroup
    BY <1>9, <1>14
  <2> QED
    BY <1>10, <1>11, <1>12, <1>15, <2>2, <2>5, <2>6, Zenon DEF Upsamples, V, s, x, g
<1> QED
  BY <1>13, <1>14

\* The merged upsampler, without context: a row of the row group.
LEMMA MergedRowRight ==
  ASSUME NEW q, NEW n \in Nat, q.g \in Outputs, q.rowgroup \in Nat, q.g.merged = TRUE, ShowsGroup(q, q.rowgroup, n),
         NEW k \in 0 .. MaxV(q.g) - 1, n * MaxV(q.g) + k < OutputHeight(q.g)
  PROVE  MergedRow(q, k) = Upsampled(q.g, n * MaxV(q.g) + k)
<1> DEFINE g == q.g
           e(ci) == MaxV(g) \div RowGroup(g, ci)
           row == n * MaxV(g) + k
<1>1. ASSUME NEW ci \in Comps(g)
      PROVE  RowAt(q, q.which, ci, q.rowgroup * RowGroup(g, ci) + k \div e(ci)) = row \div e(ci)
  BY GroupShown
<1>2. Upsampled(g, row) = [ci \in Comps(g) |-> <<row \div e(ci)>>]
  BY DEF Upsampled
<1>3. MergedRow(q, k) = [ci \in Comps(g) |-> <<RowAt(q, q.which, ci, q.rowgroup * RowGroup(g, ci) + k \div e(ci))>>]
  BY DEF MergedRow
<1> HIDE DEF e, row
<1> QED
  BY <1>1, <1>2, <1>3 DEF row

LEMMA SubSeqOfTwo ==
  ASSUME NEW x, NEW y
  PROVE  SubSeq(<<x, y>>, 1, 1) = <<x>> /\ SubSeq(<<x, y>>, 1, 2) = <<x, y>>
<1>1. ASSUME NEW k \in {1, 2} PROVE SubSeq(<<x, y>>, 1, k) = [i \in 1 .. k |-> <<x, y>>[i]]
  BY DEF SubSeq
<1>2. [i \in 1 .. 1 |-> <<x, y>>[i]] = <<x>>
  OBVIOUS
<1>3. [i \in 1 .. 2 |-> <<x, y>>[i]] = <<x, y>>
  OBVIOUS
<1> QED
  BY <1>1, <1>2, <1>3

LEMMA MergedUpsamples ==
  ASSUME NEW q, NEW n \in Nat, Supplied(q, n), q.g.merged = TRUE, NEW room \in Nat \ {0}
  PROVE  Upsamples(q, Upsample(q, room), n, room)
<1> DEFINE g == q.g
           V == MaxV(g)
           H == OutputHeight(g)
           s == n * V
           b == Upsample(q, room)
<1>1. V \in 1 .. 2 /\ H \in Nat /\ s \in Nat /\ (n + 1) * V = s + V /\ g \in Outputs /\ g.merged = TRUE
  <2>1. V \in 1 .. 4 /\ V <= 2 /\ H \in Nat
    BY OutputRates, OutputRows, OutputsAssumption DEF Supplied
  <2> HIDE DEF V
  <2> QED
    BY <2>1 DEF Supplied
<1>2. /\ q.nextOut = V /\ (q.spare # <<>> => V = 2) /\ s + Partial(q) < H /\ q.rowgroup \in Nat
      /\ (V = 2 => q.toGo = H - (s + Partial(q))) /\ DOMAIN q = OutputFields
      /\ Partial(q) > 0 => \A k \in Partial(q) .. V - 1 : s + k < H => q.spare = Upsampled(g, s + k)
  BY DEF Supplied, Upsampling, ReadyRow
<1>3. Partial(q) = IF q.spare # <<>> THEN 1 ELSE 0
  BY <1>1, <1>2 DEF Partial
<1>4. ASSUME q.spare = <<>>, NEW k \in 0 .. V - 1, s + k < H PROVE MergedRow(q, k) = Upsampled(g, s + k)
  BY <1>1, <1>2, <1>3, <1>4, MergedRowRight DEF Supplied
<1>5. MergedRow(q, 1) # <<>>
  <2>1. 1 \in DOMAIN MergedRow(q, 1)
    BY <1>1, OutputRates DEF MergedRow
  <2>2. \A f : f = <<>> => 1 \notin DOMAIN f
    OBVIOUS
  <2> HIDE DEF V
  <2> QED
    BY <2>1, <2>2
<1> SUFFICES Upsamples(q, b, n, room)
  OBVIOUS
<1>7. CASE V = 1
  <2>1. b = Merged1vUpsample(q)
    BY <1>1, <1>7 DEF Upsample
  <2>2. q.spare = <<>> /\ Partial(q) = 0 /\ s = n
    BY <1>2, <1>3, <1>7
  <2> DEFINE row == MergedRow(q, 0)
  <2>3. row = Upsampled(g, s)
    BY <1>1, <1>2, <1>4, <2>2, <1>7
  <2> HIDE DEF b, row, s
  <2>4. /\ Changes(q, b, Grown) /\ b.rows = <<row>> /\ b.rowgroup = q.rowgroup + 1 /\ b.g = g /\ b.spare = <<>>
        /\ b.nextOut = V
    BY <1>2, <2>1, <2>2 DEF Merged1vUpsample, Changes, Grown, OutputFields, row
  <2>5. Len(b.rows) = 1 /\ b.rows \in Seq(Pictures(g)) /\ b.rows[1] = Upsampled(g, s)
    <3>1. row \in Pictures(g)
      BY <1>1, <2>3 DEF Pictures
    <3> HIDE DEF Pictures
    <3> QED
      BY <2>3, <2>4, <3>1
  <2>6. Partial(b) = 0
    BY <1>1, <2>4 DEF Partial
  <2>7. Upsampling(b, n + 1)
    <3>1. n + 1 = (n + 1) * MaxV(b.g) + Partial(b)
      BY <1>1, <1>7, <2>4, <2>6
    <3>2. n + 1 <= OutputHeight(b.g)
      BY <1>1, <1>2, <2>2, <2>4
    <3>3. ~(Partial(b) > 0)
      BY <2>6
    <3>4. b.nextOut \in 1 .. MaxV(b.g) /\ b.nextOut = MaxV(b.g) /\ b.g.merged /\ MaxV(b.g) = 1
      BY <1>1, <1>7, <2>4
    <3> QED
      BY <2>4, <3>1, <3>2, <3>3, <3>4, UpsamplingAt
  <2>8. \A i \in 1 .. Len(b.rows) : b.rows[i] = Upsampled(g, n * V + Partial(q) + i - 1)
    <3> SUFFICES ASSUME NEW i \in 1 .. Len(b.rows) PROVE b.rows[i] = Upsampled(g, n * V + Partial(q) + i - 1)
      OBVIOUS
    <3>1. i = 1
      BY <2>5
    <3>2. n * V + Partial(q) + 1 - 1 = s
      BY <1>1, <2>2 DEF s
    <3> QED
      BY <2>5, <3>1, <3>2
  <2>9. V = Partial(q) + Len(b.rows) /\ Len(b.rows) \in 1 .. room
    BY <1>7, <2>2, <2>5
  <2> QED
    BY <2>4, <2>5, <2>6, <2>7, <2>8, <2>9, Zenon DEF Upsamples, V, g
<1>8. CASE V = 2 /\ q.spare # <<>>
  <2>1. b = MergedOut([q EXCEPT !.rows = <<q.spare>>, !.spare = <<>>])
    BY <1>1, <1>8 DEF Upsample, Merged2vUpsample
  <2>2. Partial(q) = 1
    BY <1>3, <1>8
  <2> DEFINE row == q.spare
  <2>3. row = Upsampled(g, s + 1)
    BY <1>1, <1>2, <2>2, <1>8
  <2> HIDE DEF b, row, s
  <2>4. /\ Changes(q, b, Grown) /\ b.rows = <<row>> /\ b.rowgroup = q.rowgroup + 1 /\ b.g = g /\ b.spare = <<>>
        /\ b.nextOut = V /\ b.toGo = q.toGo - 1
    <3> DEFINE r == [q EXCEPT !.rows = <<q.spare>>, !.spare = <<>>]
    <3>1. /\ Changes(q, r, Grown) /\ r.rows = <<row>> /\ r.spare = <<>> /\ r.toGo = q.toGo /\ r.rowgroup = q.rowgroup
          /\ DOMAIN r = OutputFields /\ r.g = g /\ r.nextOut = V
      BY <1>2 DEF Changes, Grown, OutputFields, row
    <3> HIDE DEF r
    <3>2. Len(r.rows) = 1
      BY <3>1
    <3>3. b = [r EXCEPT !.toGo = @ - Len(r.rows), !.rowgroup = IF r.spare = <<>> THEN @ + 1 ELSE @]
      BY <2>1 DEF MergedOut, r
    <3> QED
      BY <3>1, <3>2, <3>3 DEF Changes, Grown, OutputFields
  <2>5. Len(b.rows) = 1 /\ b.rows \in Seq(Pictures(g)) /\ b.rows[1] = Upsampled(g, s + 1)
    <3>1. row \in Pictures(g)
      BY <1>1, <2>3 DEF Pictures
    <3> HIDE DEF Pictures
    <3> QED
      BY <2>3, <2>4, <3>1
  <2>6. Partial(b) = 0
    BY <1>1, <2>4 DEF Partial
  <2>7. Upsampling(b, n + 1)
    <3>1. s + 2 = (n + 1) * MaxV(b.g) + Partial(b)
      BY <1>1, <1>8, <2>4, <2>6 DEF s
    <3>2. s + 2 <= OutputHeight(b.g) /\ b.toGo = OutputHeight(b.g) - (s + 2)
      BY <1>1, <1>2, <1>8, <2>2, <2>4
    <3>3. ~(Partial(b) > 0)
      BY <2>6
    <3>4. b.nextOut \in 1 .. MaxV(b.g) /\ b.nextOut = MaxV(b.g) /\ b.g.merged
      BY <1>1, <1>8, <2>4
    <3> QED
      BY <2>4, <3>1, <3>2, <3>3, <3>4, UpsamplingAt
  <2>8. \A i \in 1 .. Len(b.rows) : b.rows[i] = Upsampled(g, n * V + Partial(q) + i - 1)
    <3> SUFFICES ASSUME NEW i \in 1 .. Len(b.rows) PROVE b.rows[i] = Upsampled(g, n * V + Partial(q) + i - 1)
      OBVIOUS
    <3>1. i = 1
      BY <2>5
    <3>2. n * V + Partial(q) + 1 - 1 = s + 1
      BY <1>1, <2>2 DEF s
    <3> QED
      BY <2>5, <3>1, <3>2
  <2>9. V = Partial(q) + Len(b.rows) /\ Len(b.rows) \in 1 .. room
    BY <1>8, <2>2, <2>5
  <2> QED
    BY <2>4, <2>5, <2>6, <2>7, <2>8, <2>9, Zenon DEF Upsamples, V, g
<1>9. CASE V = 2 /\ q.spare = <<>>
  <2> DEFINE num == Least(Least(2, q.toGo), room)
             zero == MergedRow(q, 0)
             one == MergedRow(q, 1)
             r == [q EXCEPT !.rows = SubSeq(<<zero, one>>, 1, num), !.spare = IF num > 1 THEN <<>> ELSE one]
  <2>1. b = MergedOut(r)
    BY <1>1, <1>9 DEF Upsample, Merged2vUpsample
  <2>2. Partial(q) = 0 /\ q.toGo = H - s
    BY <1>1, <1>2, <1>3, <1>9
  <2>3. zero = Upsampled(g, s) /\ (s + 1 < H => one = Upsampled(g, s + 1)) /\ one # <<>>
    <3>1. s + 0 = s /\ s < H /\ 0 \in 0 .. V - 1 /\ 1 \in 0 .. V - 1
      BY <1>1, <1>2, <1>9, <2>2
    <3> HIDE DEF s, V
    <3> QED
      BY <1>4, <1>5, <1>9, <3>1
  <2>4. num \in {1, 2} /\ num <= room /\ num <= H - s
    <3> HIDE DEF s
    <3>1. H - s \in Nat \ {0}
      BY <1>1, <1>2, <2>2
    <3> QED
      BY <2>2, <3>1 DEF Least
  <2> HIDE DEF b, r, zero, one, s, num
  <2>5. /\ Changes(q, r, Grown) /\ r.rows = SubSeq(<<zero, one>>, 1, num) /\ r.spare = IF num > 1 THEN <<>> ELSE one
        /\ r.toGo = q.toGo /\ r.rowgroup = q.rowgroup /\ DOMAIN r = OutputFields /\ r.g = g /\ r.nextOut = V
    BY <1>2 DEF Changes, Grown, OutputFields, r
  <2>6. r.rows = IF num = 1 THEN <<zero>> ELSE <<zero, one>>
    BY <2>4, <2>5, SubSeqOfTwo
  <2>7. Len(r.rows) = num
    BY <2>4, <2>6
  <2>8. /\ Changes(q, b, Grown) /\ b.rows = r.rows /\ b.spare = r.spare /\ b.g = g /\ b.nextOut = V
        /\ b.toGo = q.toGo - num /\ b.rowgroup = IF num = 1 THEN q.rowgroup ELSE q.rowgroup + 1
    <3>1. b = [r EXCEPT !.toGo = @ - Len(r.rows), !.rowgroup = IF r.spare = <<>> THEN @ + 1 ELSE @]
      BY <2>1 DEF MergedOut
    <3>2. (r.spare = <<>>) <=> (num # 1)
      BY <2>3, <2>4, <2>5
    <3> QED
      BY <2>5, <2>7, <3>1, <3>2 DEF Changes, Grown, OutputFields
  <2>9. ASSUME NEW i \in 1 .. num PROVE b.rows[i] = Upsampled(g, n * V + Partial(q) + i - 1)
    <3>0. n * V + Partial(q) + i - 1 = s + (i - 1)
      BY <1>1, <2>2, <2>4 DEF s
    <3>1. CASE i = 1
      <4>1. b.rows[i] = zero /\ s + (i - 1) = s
        BY <1>1, <2>6, <2>8, <3>1
      <4> QED
        BY <2>3, <3>0, <4>1
    <3>2. CASE i # 1
      <4>1. i = 2 /\ num = 2 /\ s + (i - 1) = s + 1 /\ s + 1 < H
        BY <1>1, <2>4, <3>2
      <4>2. b.rows[i] = one
        BY <2>6, <2>8, <4>1
      <4> QED
        BY <2>3, <3>0, <4>1, <4>2
    <3> QED
      BY <3>1, <3>2
  <2>10. b.rows \in Seq(Pictures(g)) /\ Len(b.rows) = num
    <3>1. s \in Nat /\ num \in Nat /\ DOMAIN b.rows = 1 .. num /\ b.rows = [i \in 1 .. num |-> b.rows[i]]
      <4>1. s \in Nat /\ num \in Nat
        BY <1>1, <2>4
      <4>2. CASE num = 1
        BY <2>6, <2>8, <4>1, <4>2
      <4>3. CASE num = 2
        BY <2>6, <2>8, <4>1, <4>3
      <4> QED
        BY <2>4, <4>2, <4>3
    <3>2. \A i \in 1 .. num : b.rows[i] = Upsampled(g, s + i - 1)
      <4> SUFFICES ASSUME NEW i \in 1 .. num PROVE b.rows[i] = Upsampled(g, s + i - 1)
        OBVIOUS
      <4>1. n * V + Partial(q) + i - 1 = s + i - 1
        BY <1>1, <2>2, <2>4 DEF s
      <4> QED
        BY <2>9, <4>1
    <3> DEFINE rows == b.rows
    <3> HIDE DEF rows
    <3>3. /\ DOMAIN rows = 1 .. num /\ rows = [i \in 1 .. num |-> rows[i]] /\ s \in Nat /\ num \in Nat
          /\ \A i \in 1 .. num : rows[i] = Upsampled(g, s + i - 1)
      BY <3>1, <3>2 DEF rows
    <3>4. rows \in Seq(Pictures(g)) /\ Len(rows) = num
      BY <3>3, PictureRows
    <3> QED
      BY <3>4 DEF rows
  <2>11. b.nextOut \in 1 .. MaxV(b.g) /\ b.nextOut = MaxV(b.g) /\ b.g.merged /\ MaxV(b.g) = 2
    BY <1>1, <1>9, <2>8
  <2>12. CASE num = 1
    <3>1. Partial(b) = 1 /\ b.spare = one
      BY <1>1, <2>3, <2>5, <2>8, <2>12 DEF Partial
    <3>2. Upsampling(b, n)
      <4>1. s + 1 = n * MaxV(b.g) + Partial(b)
        BY <2>8, <3>1 DEF s
      <4>2. s + 1 <= OutputHeight(b.g) /\ b.toGo = OutputHeight(b.g) - (s + 1)
        BY <1>1, <1>2, <2>2, <2>4, <2>8, <2>12
      <4>3. ASSUME NEW k \in Partial(b) .. MaxV(b.g) - 1, n * MaxV(b.g) + k < OutputHeight(b.g)
            PROVE  ReadyRow(b, k) = Upsampled(b.g, n * MaxV(b.g) + k)
        <5>1. k = 1
          BY <2>11, <3>1
        <5>2. n * MaxV(b.g) + k = s + 1
          BY <4>1, <5>1, <3>1
        <5> QED
          BY <2>3, <2>8, <2>11, <3>1, <4>3, <5>2 DEF ReadyRow
      <4> QED
        BY <2>11, <4>1, <4>2, <4>3, UpsamplingAt
    <3> QED
      BY <2>2, <2>4, <2>8, <2>9, <2>10, <2>12, <3>1, <3>2 DEF Upsamples, V, g
  <2>13. CASE num = 2
    <3>1. Partial(b) = 0 /\ b.spare = <<>>
      BY <1>1, <2>5, <2>8, <2>13 DEF Partial
    <3>2. Upsampling(b, n + 1)
      <4>1. s + 2 = (n + 1) * MaxV(b.g) + Partial(b)
        BY <1>1, <1>9, <2>8, <3>1 DEF s
      <4>2. s + 2 <= OutputHeight(b.g) /\ b.toGo = OutputHeight(b.g) - (s + 2)
        BY <1>1, <1>2, <2>2, <2>4, <2>8, <2>13
      <4>3. ~(Partial(b) > 0)
        BY <3>1
      <4> QED
        BY <2>11, <3>1, <4>1, <4>2, <4>3, UpsamplingAt
    <3> QED
      BY <1>9, <2>2, <2>4, <2>8, <2>9, <2>10, <2>13, <3>1, <3>2 DEF Upsamples, V, g
  <2> QED
    BY <2>4, <2>12, <2>13
<1> QED
  BY <1>1, <1>7, <1>8, <1>9

LEMMA AllUpsample ==
  ASSUME NEW q, NEW n \in Nat, Supplied(q, n), NEW room \in Nat \ {0}
  PROVE  Upsamples(q, Upsample(q, room), n, room)
<1>1. q.g.merged \in BOOLEAN
  BY OutputsAssumption DEF Supplied
<1>2. CASE q.g.merged = TRUE
  BY <1>2, MergedUpsamples
<1>3. CASE q.g.merged = FALSE
  <2>1. Upsample(q, room) = SepUpsample(q, room)
    BY <1>3 DEF Upsample
  <2> QED
    BY <1>3, <2>1, SepUpsamples
<1> QED
  BY <1>1, <1>2, <1>3

-----------------------------------------------------------------------------
(***************************************************************************)
(* The postprocessor.                                                      *)
(***************************************************************************)
LEMMA SameUpsampling ==
  ASSUME NEW q, NEW b, NEW n, b.g = q.g, b.nextOut = q.nextOut, b.spare = q.spare, b.toGo = q.toGo,
         b.color = q.color, b.buf = q.buf, b.xbuf = q.xbuf
  PROVE  Partial(b) = Partial(q) /\ (Upsampling(q, n) => Upsampling(b, n))
<1>1. Partial(b) = Partial(q)
  BY DEF Partial
<1>2. \A w, ci, i : RowAt(b, w, ci, i) = RowAt(q, w, ci, i)
  BY SameView
<1>3. \A k : ReadyRow(b, k) = ReadyRow(q, k)
  <2>1. ASSUME NEW k PROVE ColorConvertRow(b, k) = ColorConvertRow(q, k)
    BY <1>2 DEF ColorConvertRow
  <2> QED
    BY <2>1 DEF ReadyRow
<1>4. ASSUME Upsampling(q, n) PROVE Upsampling(b, n)
  BY <1>1, <1>3, <1>4 DEF Upsampling
<1> QED
  BY <1>1, <1>4

LEMMA SameGroup ==
  ASSUME NEW q, NEW b, NEW u, NEW n, b.g = q.g, b.which = q.which, b.buf = q.buf, b.xbuf = q.xbuf, ShowsGroup(q, u, n)
  PROVE  ShowsGroup(b, u, n)
<1>1. \A w, ci, i : RowAt(b, w, ci, i) = RowAt(q, w, ci, i)
  BY SameView
<1> QED
  BY <1>1 DEF ShowsGroup, ShowsRows

\* The next strip of the virtual array of a two-pass quantizer.
LEMMA StripFits ==
  ASSUME NEW g \in Outputs, NeedFull(g), NEW n \in Nat, n * MaxV(g) < OutputHeight(g)
  PROVE  n * MaxV(g) + MaxV(g) <= WholeRows(g) /\ WholeRows(g) \in Nat /\ OutputHeight(g) <= WholeRows(g)
<1> DEFINE V == MaxV(g)
           H == OutputHeight(g)
           k == RoundUp(H, V)
<1>1. V \in 1 .. 4 /\ H \in Nat \ {0}
  BY OutputRates, OutputRows
<1>2. WholeRows(g) = k * V
  BY DEF WholeRows
<1>3. k \in Nat \ {0} /\ H <= k * V
  <2> HIDE DEF V, H
  <2>1. V \in Nat \ {0}
    BY <1>1
  <2> QED
    BY <1>1, <2>1, RoundedBelow
<1> HIDE DEF V, H, k
<1>4. n * V < H
  BY DEF V, H
<1>5. n * V \in Int /\ k * V \in Nat /\ V \in Nat \ {0}
  BY <1>1, <1>3
<1>6. n * V < k * V
  BY <1>1, <1>3, <1>4, <1>5
<1>7. n + 1 <= k
  BY <1>3, <1>5, <1>6, Smaller
<1>8. (n + 1) * V <= k * V /\ (n + 1) * V = n * V + V
  BY <1>3, <1>5, <1>7
<1> QED
  BY <1>2, <1>3, <1>5, <1>8 DEF V, H

LEMMA PostsFrom ==
  ASSUME NEW q, NEW u, NEW b, NEW n \in Nat, NEW room \in Nat, Supplied(q, n), Upsamples(q, u, n, room),
         Changes(q, b, Handed), Screen(b), NEW s, s = n * MaxV(q.g) + Partial(q), Handing(b, s + Len(u.rows)),
         b.g = u.g, b.nextOut = u.nextOut, b.spare = u.spare, b.toGo = u.toGo, b.color = u.color,
         b.buf = u.buf, b.xbuf = u.xbuf, b.rowgroup = u.rowgroup
  PROVE  Posts(q, b, n)
<1> DEFINE V == MaxV(q.g)
           num == Len(u.rows)
<1>1. V \in 1 .. 4
  BY OutputRates DEF Supplied
<1>6. /\ num \in Nat \ {0}
      /\ \/ u.rowgroup = q.rowgroup /\ Upsampling(u, n) /\ Partial(u) = Partial(q) + num
         \/ u.rowgroup = q.rowgroup + 1 /\ Upsampling(u, n + 1) /\ Partial(u) = 0 /\ V = Partial(q) + num
  BY DEF Upsamples
<1>9. Changes(q, b, Handed) /\ Screen(b) /\ b.rowgroup = u.rowgroup
  OBVIOUS
<1>14. Handing(b, s + num)
  OBVIOUS
<1> HIDE DEF num, V
<1>15. Partial(b) = Partial(u) /\ (\A k : Upsampling(u, k) => Upsampling(b, k))
  BY SameUpsampling
<1>16. n * V \in Nat /\ (n + 1) * V = n * V + V /\ s = n * V + Partial(q)
  <2>1. s = n * V + Partial(q)
    BY DEF V
  <2> QED
    BY <1>1, <2>1
<1>17. Partial(q) \in Nat
  BY <1>1 DEF Supplied, Upsampling, Partial, V
<1>18. CASE u.rowgroup = q.rowgroup /\ Upsampling(u, n) /\ Partial(u) = Partial(q) + num
  <2>1. Partial(b) > 0 /\ s + num = n * V + Partial(b)
    BY <1>6, <1>15, <1>16, <1>17, <1>18
  <2>2. Handing(b, n * V + Partial(b)) /\ Upsampling(b, n) /\ b.rowgroup = q.rowgroup
    BY <1>9, <1>14, <1>15, <1>18, <2>1
  <2> QED
    BY <1>9, <2>1, <2>2 DEF Posts, V
<1>19. CASE u.rowgroup = q.rowgroup + 1 /\ Upsampling(u, n + 1) /\ Partial(u) = 0 /\ V = Partial(q) + num
  <2>1. Partial(b) = 0 /\ s + num = (n + 1) * V
    <3> DEFINE a == n * V
               c == (n + 1) * V
    <3> HIDE DEF a, c
    <3>1. a \in Nat /\ c = a + V /\ s = a + Partial(q)
      BY <1>16 DEF a, c
    <3>2. V = Partial(q) + num /\ Partial(b) = 0 /\ num \in Nat /\ V \in Nat
      BY <1>1, <1>6, <1>15, <1>19
    <3>3. s + num = c
      BY <1>17, <3>1, <3>2
    <3> QED
      BY <3>2, <3>3 DEF c
  <2>2. Handing(b, (n + 1) * V) /\ Upsampling(b, n + 1) /\ b.rowgroup = q.rowgroup + 1
    BY <1>9, <1>14, <1>15, <1>19, <2>1
  <2> QED
    BY <1>9, <2>1, <2>2 DEF Posts, V
<1> QED
  BY <1>6, <1>18, <1>19

LEMMA EmitsRows ==
  ASSUME NEW q, NEW n \in Nat, NEW room \in Nat \ {0}, Supplied(q, n), Screen(q), q.post \in {"none", "1pass"},
         Handing(q, n * MaxV(q.g) + Partial(q)), NEW s, s = n * MaxV(q.g) + Partial(q)
  PROVE  Posts(q, PostProcessData(q, room), n)
<1> DEFINE g == q.g
           V == MaxV(g)
           some == IF q.post = "1pass" THEN Least(room, V) ELSE room
           u == Upsample(q, some)
           b == PostProcessData(q, room)
           num == Len(u.rows)
<1>1. V \in 1 .. 4 /\ g \in Outputs /\ DOMAIN q = OutputFields
  BY OutputRates DEF Supplied
<1>2. some \in Nat \ {0}
  BY <1>1 DEF Least
<1>3. Upsamples(q, u, n, some)
  BY <1>2, AllUpsample
<1>4. b = Emit(u, u.rows)
  BY DEF PostProcessData, PostProcess1pass, EmitAll
<1> SUFFICES Posts(q, b, n)
  OBVIOUS
<1>5. Handing(q, s)
  OBVIOUS
<1> HIDE DEF V, some, u, b
<1>6. /\ Changes(q, u, Grown) /\ u.rows \in Seq(Pictures(g)) /\ num \in Nat \ {0}
      /\ \A i \in 1 .. num : u.rows[i] = Upsampled(g, s + i - 1)
      /\ \/ u.rowgroup = q.rowgroup /\ Upsampling(u, n) /\ Partial(u) = Partial(q) + num
         \/ u.rowgroup = q.rowgroup + 1 /\ Upsampling(u, n + 1) /\ Partial(u) = 0 /\ V = Partial(q) + num
  BY <1>2, <1>3 DEF Upsamples, V
<1>7. DOMAIN u = OutputFields /\ u.out = q.out /\ u.count = q.count /\ u.g = g
  BY <1>1, <1>6 DEF Changes, Grown, OutputFields
<1>8. b = [u EXCEPT !.out = @ \o u.rows, !.count = @ + num]
  BY <1>4 DEF Emit
<1>9. /\ Changes(q, b, Handed) /\ b.out = q.out \o u.rows /\ b.count = q.count + num /\ b.rowgroup = u.rowgroup
      /\ b.g = u.g /\ b.nextOut = u.nextOut /\ b.spare = u.spare /\ b.toGo = u.toGo /\ b.color = u.color
      /\ b.buf = u.buf /\ b.xbuf = u.xbuf /\ b.err = u.err /\ b.defined = u.defined /\ b.whole = u.whole
  BY <1>6, <1>7, <1>8 DEF Changes, Grown, Handed, OutputFields
<1>10. /\ b.g = g /\ b.scanline = q.scanline /\ b.from = q.from /\ b.post = q.post /\ b.buf = q.buf /\ b.xbuf = q.xbuf
       /\ b.err = q.err /\ b.defined = q.defined /\ b.whole = q.whole /\ DOMAIN b = OutputFields
  <2>1. /\ b.scanline = q.scanline /\ b.from = q.from /\ b.post = q.post /\ b.buf = q.buf /\ b.xbuf = q.xbuf
        /\ DOMAIN b = OutputFields
    BY <1>1, <1>9 DEF Changes, Grown, Handed, OutputFields
  <2>2. u.err = q.err /\ u.defined = q.defined /\ u.whole = q.whole
    BY <1>1, <1>6 DEF Changes, Grown, OutputFields
  <2> QED
    BY <1>7, <1>9, <2>1, <2>2
<1>11. Screen(b)
  BY <1>10 DEF Screen, g
<1>12. Emitted(q) /\ q.count \in Nat /\ q.scanline + q.count = s /\ q.from = q.scanline /\ q.scanline \in Int
  BY <1>5 DEF Handing, Screen
<1>13. Emitted(b)
  <2> DEFINE P == Pictures(g)
             out == q.out
             rows == u.rows
  <2>1. out \in Seq(P) /\ rows \in Seq(P) /\ Len(out) = q.count /\ Len(rows) = num
    BY <1>6, <1>12 DEF Emitted
  <2>2. /\ \A i \in 1 .. Len(out) : out[i] = Upsampled(g, q.from + i - 1)
        /\ \A i \in 1 .. Len(rows) : rows[i] = Upsampled(g, s + i - 1)
    BY <1>6, <1>12 DEF Emitted
  <2>3. q.from \in Int /\ q.from + Len(out) = s /\ Len(out) \in Nat /\ num \in Nat
    BY <1>6, <1>12, <2>1
  <2> HIDE DEF P, out, rows
  <2>4. out \o rows \in Seq(P) /\ Len(out \o rows) = Len(out) + Len(rows)
    BY <2>1
  <2>5. ASSUME NEW i \in 1 .. Len(out) + Len(rows) PROVE (out \o rows)[i] = Upsampled(g, q.from + i - 1)
    <3>1. CASE i <= Len(out)
      BY <2>1, <2>2, <2>3, <3>1
    <3>2. CASE i > Len(out)
      <4>1. (out \o rows)[i] = rows[i - Len(out)] /\ i - Len(out) \in 1 .. Len(rows)
        BY <2>1, <2>3, <3>2
      <4>2. s + (i - Len(out)) - 1 = q.from + i - 1
        BY <2>1, <2>3
      <4> QED
        BY <2>2, <4>1, <4>2
    <3> QED
      BY <2>1, <2>3, <3>1, <3>2
  <2>6. DOMAIN (out \o rows) = 1 .. Len(out) + Len(rows)
    BY <2>1, <2>4
  <2> QED
    BY <1>9, <1>10, <2>1, <2>4, <2>5, <2>6 DEF Emitted, P, out, rows
<1>14. Handing(b, s + num)
  <2>1. b.count \in Nat /\ b.scanline + b.count = s + num
    BY <1>6, <1>9, <1>10, <1>12
  <2> QED
    BY <1>10, <1>12, <1>13, <2>1 DEF Handing
<1>15. b.g = u.g /\ b.nextOut = u.nextOut /\ b.spare = u.spare /\ b.toGo = u.toGo /\ b.color = u.color
       /\ b.buf = u.buf /\ b.xbuf = u.xbuf /\ b.rowgroup = u.rowgroup
  BY <1>9
<1> HIDE DEF num
<1> QED
  BY <1>2, <1>3, <1>9, <1>11, <1>14, <1>15, PostsFrom DEF num, V

\* Access to a strip that lies in the array, for writing or after it has been written.
LEMMA StripAccess ==
  ASSUME NEW q, DOMAIN q = OutputFields, NEW writable \in BOOLEAN, q.defined \in Nat, q.starting \in Nat,
         MaxV(q.g) \in Nat, q.starting + MaxV(q.g) <= WholeRows(q.g), WholeRows(q.g) \in Nat, q.err = "none",
         IF writable THEN q.starting <= q.defined ELSE q.starting + MaxV(q.g) <= q.defined
  PROVE  LET w == AccessStrip(q, writable)
         IN /\ Changes(q, w, {"defined"}) /\ w.defined \in Nat
            /\ w.defined >= q.defined /\ w.defined >= q.starting + MaxV(q.g)
<1> DEFINE end == q.starting + MaxV(q.g)
           w == AccessStrip(q, writable)
<1>1. ~(end > WholeRows(q.g) \/ (q.defined < end /\ (~writable \/ q.defined < q.starting)))
  OBVIOUS
<1>2. w = [q EXCEPT !.defined = IF @ < end THEN end ELSE @]
  <2> HIDE DEF end
  <2> QED
    BY <1>1 DEF AccessStrip, end
<1> HIDE DEF w
<1>3. /\ Changes(q, w, {"defined"}) /\ w.defined = IF q.defined < end THEN end ELSE q.defined
  BY <1>2 DEF Changes, OutputFields
<1> QED
  BY <1>3 DEF w

LEMMA StoresRows ==
  ASSUME NEW q, NEW n \in Nat, NEW room, Supplied(q, n), Screen(q), q.post = "prepass",
         Handing(q, n * MaxV(q.g) + Partial(q)), NEW s, s = n * MaxV(q.g) + Partial(q)
  PROVE  Posts(q, PostProcessData(q, room), n)
<1> DEFINE g == q.g
           V == MaxV(g)
           H == OutputHeight(g)
           w == IF q.nextRow = 0 THEN AccessStrip(q, TRUE) ELSE q
           space == V - q.nextRow
           u == Upsample(w, space)
           num == Len(u.rows)
           t == Stored(u)
           b == PostProcessData(q, room)
<1>1. V \in 1 .. 4 /\ H \in Nat /\ g \in Outputs /\ DOMAIN q = OutputFields /\ s < H /\ q.err = "none" /\ q.defined \in Nat
  BY OutputRates, OutputRows DEF Supplied, Screen
<1>2. /\ q.starting \in Nat /\ q.nextRow \in 0 .. V - 1 /\ q.starting + q.nextRow = s /\ NeedFull(g)
      /\ q.defined >= q.starting + (IF q.nextRow > 0 THEN V ELSE 0) /\ WholeUpTo(q, q.starting + q.nextRow)
      /\ q.count \in Nat /\ q.scanline + q.count = s /\ q.out = <<>>
  BY DEF Handing, Storing, InStrip
<1>3. PICK k \in Nat : q.starting = k * V
  BY DEF Handing, Storing, InStrip
<1>4. Changes(q, w, {"defined"}) /\ w.defined \in Nat /\ w.defined >= q.starting + V
  <2>1. CASE q.nextRow = 0
    <3>1. k * V < H
      BY <1>1, <1>2, <1>3, <2>1
    <3>2. k * V + V <= WholeRows(g) /\ WholeRows(g) \in Nat
      BY <1>1, <1>2, <3>1, StripFits
    <3>3. w = AccessStrip(q, TRUE)
      BY <2>1
    <3>4. q.starting + V <= WholeRows(g) /\ q.starting <= q.defined
      BY <1>1, <1>2, <1>3, <2>1, <3>2
    <3>5. LET x == AccessStrip(q, TRUE)
          IN Changes(q, x, {"defined"}) /\ x.defined \in Nat /\ x.defined >= q.starting + V
      <4>1. MaxV(q.g) \in Nat /\ TRUE \in BOOLEAN
        BY <1>1
      <4>2. q.starting \in Nat /\ q.starting + MaxV(q.g) <= WholeRows(q.g) /\ WholeRows(q.g) \in Nat
        BY <1>2, <3>2, <3>4
      <4> QED
        BY <1>1, <3>4, <4>1, <4>2, StripAccess
    <3> HIDE DEF w, V
    <3> QED
      BY <3>3, <3>5
  <2>2. CASE q.nextRow # 0
    <3>1. w = q /\ q.nextRow > 0
      BY <1>2, <2>2
    <3> HIDE DEF w
    <3> QED
      BY <1>1, <1>2, <3>1 DEF Changes
  <2> QED
    BY <2>1, <2>2
<1> HIDE DEF w
<1>5. /\ DOMAIN w = OutputFields /\ w.g = g /\ w.nextRow = q.nextRow /\ w.rowgroup = q.rowgroup /\ w.which = q.which
      /\ w.nextOut = q.nextOut /\ w.spare = q.spare /\ w.toGo = q.toGo /\ w.color = q.color /\ w.buf = q.buf
      /\ w.xbuf = q.xbuf
  BY <1>1, <1>4 DEF Changes, OutputFields
<1>6. Partial(w) = Partial(q) /\ Supplied(w, n)
  <2>1. Partial(w) = Partial(q) /\ (Upsampling(q, n) => Upsampling(w, n))
    BY <1>5, SameUpsampling
  <2>2. ShowsGroup(q, q.rowgroup, n) => ShowsGroup(w, q.rowgroup, n)
    BY <1>5, SameGroup
  <2> QED
    BY <1>5, <2>1, <2>2 DEF Supplied
<1>7. space \in Nat \ {0} /\ w.nextRow = q.nextRow
  BY <1>1, <1>2, <1>5
<1>8. Upsamples(w, u, n, space)
  BY <1>6, <1>7, AllUpsample
<1>9. b = NextStrip(t)
  BY DEF PostProcessData, PostProcessPrepass, w
<1> SUFFICES Posts(q, b, n)
  OBVIOUS
<1> HIDE DEF u, b, t
<1>10. /\ Changes(w, u, Grown) /\ num \in 1 .. space /\ u.rows \in Seq(Pictures(g))
       /\ \A i \in 1 .. num : u.rows[i] = Upsampled(g, s + i - 1)
  BY <1>5, <1>6, <1>8 DEF Upsamples
<1>22. Changes(q, u, Grown \cup {"defined"})
  <2>1. Changes(q, w, Grown \cup {"defined"}) /\ Changes(w, u, Grown \cup {"defined"})
    BY <1>4, <1>10, ChangesMore
  <2> QED
    BY <2>1, ChangesAfter
<1>23. u.defined = w.defined
  BY <1>5, <1>10 DEF Changes, Grown, OutputFields
<1>11. /\ DOMAIN u = OutputFields /\ u.g = g /\ u.starting = q.starting
       /\ u.nextRow = q.nextRow /\ u.whole = q.whole /\ u.count = q.count /\ u.defined = w.defined /\ u.err = q.err
       /\ u.out = q.out /\ u.scanline = q.scanline /\ u.post = q.post
  BY <1>1, <1>22, <1>23 DEF Changes, Grown, OutputFields
<1> HIDE DEF num
<1>12. /\ Changes(u, t, {"whole", "nextRow", "count"})
       /\ t.whole = [r \in DOMAIN q.whole |-> IF r \in s .. s + num - 1 THEN u.rows[r - s + 1] ELSE q.whole[r]]
       /\ t.nextRow = q.nextRow + num /\ t.count = q.count + num
  <2> DEFINE first == q.starting + q.nextRow
             whole == [r \in DOMAIN q.whole |-> IF r \in first .. first + num - 1 THEN u.rows[r - first + 1] ELSE q.whole[r]]
  <2>1. t = [u EXCEPT !.whole = whole, !.nextRow = @ + num, !.count = @ + num]
    BY <1>11 DEF Stored, num, t
  <2> HIDE DEF whole
  <2>2. Changes(u, t, {"whole", "nextRow", "count"}) /\ t.whole = whole /\ t.nextRow = q.nextRow + num /\ t.count = q.count + num
    BY <1>11, <2>1 DEF Changes, OutputFields
  <2>3. first = s
    BY <1>2
  <2> HIDE DEF first
  <2> QED
    BY <2>2, <2>3 DEF whole
<1>13. DOMAIN t = OutputFields /\ t.g = g /\ t.starting = q.starting
  BY <1>11, <1>12 DEF Changes, OutputFields
<1>14. /\ Changes(t, b, {"starting", "nextRow"})
       /\ IF q.nextRow + num >= V THEN b.starting = q.starting + V /\ b.nextRow = 0
          ELSE b.starting = q.starting /\ b.nextRow = q.nextRow + num
  <2> HIDE DEF V
  <2>1. b = IF q.nextRow + num >= V THEN [t EXCEPT !.starting = @ + V, !.nextRow = 0] ELSE t
    BY <1>9, <1>12, <1>13 DEF NextStrip, V
  <2>2. CASE q.nextRow + num >= V
    <3>1. b = [t EXCEPT !.starting = @ + V, !.nextRow = 0]
      BY <2>1, <2>2
    <3> QED
      BY <1>13, <2>2, <3>1 DEF Changes, OutputFields
  <2>3. CASE ~(q.nextRow + num >= V)
    <3>1. b = t
      BY <2>1, <2>3
    <3> QED
      BY <1>12, <1>13, <2>3, <3>1 DEF Changes
  <2> QED
    BY <2>2, <2>3
<1>15. /\ Changes(q, b, Handed) /\ b.g = u.g /\ b.nextOut = u.nextOut /\ b.spare = u.spare /\ b.toGo = u.toGo
       /\ b.color = u.color /\ b.buf = u.buf /\ b.xbuf = u.xbuf /\ b.rowgroup = u.rowgroup
  BY <1>1, <1>11, <1>12, <1>13, <1>14, <1>22 DEF Changes, Grown, Handed, OutputFields
<1>16. /\ b.g = g /\ b.whole = t.whole /\ b.count = q.count + num /\ b.defined = w.defined /\ b.err = q.err /\ b.out = q.out
       /\ b.scanline = q.scanline /\ b.post = q.post /\ b.buf = q.buf /\ b.xbuf = q.xbuf /\ DOMAIN b = OutputFields
  <2>1. b.whole = t.whole /\ b.count = t.count /\ b.defined = t.defined /\ b.err = t.err /\ b.out = t.out
        /\ DOMAIN b = OutputFields /\ b.g = t.g
    BY <1>13, <1>14 DEF Changes, OutputFields
  <2>2. t.defined = u.defined /\ t.err = u.err /\ t.out = u.out
    BY <1>11, <1>12 DEF Changes, OutputFields
  <2>3. b.scanline = q.scanline /\ b.post = q.post /\ b.buf = q.buf /\ b.xbuf = q.xbuf
    BY <1>1, <1>15 DEF Changes, Handed, Grown, OutputFields
  <2> QED
    BY <1>11, <1>12, <1>13, <2>1, <2>2, <2>3
<1>17. Screen(b)
  <2>1. DOMAIN b.whole = DOMAIN q.whole
    BY <1>12, <1>16
  <2> QED
    BY <1>4, <1>16, <2>1 DEF Screen, g
<1>18. InStrip(b) /\ b.starting + b.nextRow = s + num /\ b.defined >= b.starting + (IF b.nextRow > 0 THEN V ELSE 0)
  <2>1. k * V \in Nat /\ (k + 1) * V = k * V + V
    BY <1>1, <1>3
  <2>2. V \in 1 .. 4 /\ q.nextRow \in 0 .. V - 1 /\ num \in 1 .. V - q.nextRow
    BY <1>1, <1>2, <1>10
  <2> HIDE DEF V
  <2>3. CASE q.nextRow + num >= V
    <3>1. q.nextRow + num = V
      BY <2>2, <2>3
    <3>2. b.starting = (k + 1) * V /\ b.nextRow = 0 /\ b.starting = q.starting + V
      BY <1>3, <1>14, <2>1, <2>3
    <3>3. b.starting \in Nat /\ b.nextRow \in 0 .. V - 1 /\ k + 1 \in Nat
      BY <1>2, <2>2, <3>2
    <3>4. b.starting + b.nextRow = s + num /\ b.defined >= b.starting + 0
      BY <1>2, <1>4, <1>16, <2>2, <3>1, <3>2
    <3> QED
      BY <1>2, <1>16, <3>2, <3>3, <3>4 DEF InStrip, V
  <2>4. CASE ~(q.nextRow + num >= V)
    <3>1. b.starting = q.starting /\ b.nextRow = q.nextRow + num
      BY <1>14, <2>4
    <3>2. b.nextRow \in 1 .. V - 1 /\ b.nextRow > 0
      BY <2>2, <2>4, <3>1
    <3>3. b.starting + b.nextRow = s + num /\ b.defined >= b.starting + V
      BY <1>2, <1>4, <1>16, <2>2, <3>1
    <3>4. b.nextRow \in 0 .. V - 1
      BY <2>2, <3>2
    <3> QED
      BY <1>2, <1>3, <1>16, <3>1, <3>2, <3>3, <3>4 DEF InStrip, V
  <2> QED
    BY <2>3, <2>4
<1>19. WholeUpTo(b, b.starting + b.nextRow)
  <2> SUFFICES ASSUME NEW r \in DOMAIN q.whole, r < s + num PROVE b.whole[r] = Upsampled(g, r)
    BY <1>12, <1>16, <1>18 DEF WholeUpTo
  <2>1. r \in Nat /\ s \in Nat /\ num \in Nat
    <3>1. WholeRows(g) \in Int /\ r \in 0 .. WholeRows(g) - 1
      <4>1. RoundUp(H, V) \in Nat
        BY <1>1, Rounded
      <4> QED
        BY <1>1, <4>1 DEF Screen, WholeRows
    <3>2. num \in Nat
      BY <1>7, <1>10
    <3>3. s \in Nat
      BY <1>2
    <3>4. r \in Nat
      <4> DEFINE rows == WholeRows(g)
      <4> HIDE DEF rows
      <4>1. rows \in Int /\ r \in 0 .. rows - 1
        BY <3>1 DEF rows
      <4> QED
        BY <4>1
    <3> QED
      BY <3>2, <3>3, <3>4
  <2>2. CASE r < s
    <3>1. b.whole[r] = q.whole[r]
      BY <1>12, <1>16, <2>1, <2>2
    <3> QED
      BY <1>2, <2>2, <3>1 DEF WholeUpTo
  <2>3. CASE ~(r < s)
    <3>1. r \in s .. s + num - 1 /\ r - s + 1 \in 1 .. num /\ s + (r - s + 1) - 1 = r
      BY <2>1, <2>3
    <3>2. b.whole[r] = u.rows[r - s + 1]
      BY <1>12, <1>16, <3>1
    <3>3. u.rows[r - s + 1] = Upsampled(g, s + (r - s + 1) - 1)
      BY <1>10, <3>1
    <3> QED
      BY <3>1, <3>2, <3>3
  <2> QED
    BY <2>2, <2>3
<1>20. Handing(b, s + num)
  <2>1. num \in Nat /\ b.count \in Nat /\ b.scanline + b.count = s + num
    <3>1. num \in Nat
      BY <1>7, <1>10
    <3>2. q.scanline \in Int
      BY DEF Screen
    <3> QED
      BY <1>2, <1>16, <3>1, <3>2
  <2> QED
    BY <1>2, <1>16, <1>18, <1>19, <2>1 DEF Handing, Storing
<1>21. Posts(w, b, n)
  <2>1. Changes(w, b, Handed)
    BY <1>1, <1>4, <1>15 DEF Changes, Grown, Handed, OutputFields
  <2>2. s = n * MaxV(w.g) + Partial(w)
    BY <1>5, <1>6
  <2> QED
    BY <1>6, <1>7, <1>8, <1>15, <1>17, <1>20, <2>1, <2>2, PostsFrom DEF num
<1> QED
  BY <1>5, <1>15, <1>21 DEF Posts

LEMMA PostRows ==
  ASSUME NEW q, NEW n \in Nat, NEW room, q.post = "prepass" \/ room \in Nat \ {0}, Supplied(q, n), Screen(q),
         Handing(q, n * MaxV(q.g) + Partial(q))
  PROVE  Posts(q, PostProcessData(q, room), n)
<1>1. CASE q.post = "prepass"
  BY <1>1, StoresRows
<1>2. CASE q.post # "prepass"
  <2>1. q.post \in {"none", "1pass"} /\ room \in Nat \ {0}
    BY <1>2 DEF Handing
  <2> QED
    BY <2>1, EmitsRows
<1> QED
  BY <1>1, <1>2

\* The second pass of a two-pass quantizer.
LEMMA CrankShows ==
  ASSUME NEW q, Cranking(q), Screen(q), StripsFit, q.scanline < OutputHeight(q.g), q.from = q.scanline,
         q.out = <<>>, q.count = 0, NEW room \in Nat \ {0}
  PROVE  LET b == PostProcessData(q, room)
         IN /\ Changes(q, b, Handed) /\ Screen(b) /\ Emitted(b) /\ InStrip(b)
            /\ b.starting + b.nextRow = q.scanline + b.count /\ q.scanline + b.count \in 0 .. OutputHeight(q.g)
            /\ b.defined >= WholeRows(q.g) /\ WholeUpTo(b, OutputHeight(q.g))
<1> DEFINE g == q.g
           V == MaxV(g)
           H == OutputHeight(g)
           s == q.scanline
           w == IF q.nextRow = 0 THEN AccessStrip(q, FALSE) ELSE q
           num == Least(Least(V - q.nextRow, room), H - q.starting)
           rows == [i \in 1 .. num |-> w.whole[s + i - 1]]
           e == Emit(w, rows)
           t == [e EXCEPT !.nextRow = @ + num]
           b == PostProcessData(q, room)
<1>1. V \in 1 .. 4 /\ H \in Nat /\ g \in Outputs /\ DOMAIN q = OutputFields /\ s < H /\ q.err = "none" /\ q.defined \in Nat
      /\ s \in Nat
  <2>1. g \in Outputs /\ DOMAIN q = OutputFields /\ q.err = "none" /\ q.defined \in Nat /\ s \in 0 .. H
    BY DEF Screen
  <2> QED
    BY <2>1, OutputRates, OutputRows
<1>2. /\ q.starting \in Nat /\ q.nextRow \in 0 .. V - 1 /\ q.starting + q.nextRow = s /\ NeedFull(g)
      /\ q.defined >= WholeRows(g) /\ WholeUpTo(q, H) /\ q.post = "2pass"
  BY DEF Cranking, InStrip
<1>3. PICK k \in Nat : q.starting = k * V
  BY DEF Cranking, InStrip
<1>4. q.starting + V <= WholeRows(g) /\ WholeRows(g) \in Nat /\ H <= WholeRows(g)
  <2>1. k * V < H
    BY <1>1, <1>2, <1>3
  <2> QED
    BY <1>1, <1>2, <1>3, <2>1, StripFits
<1>5. Changes(q, w, {"defined"}) /\ w.defined \in Nat /\ w.defined >= WholeRows(g)
  <2>1. CASE q.nextRow = 0
    <3>1. MaxV(q.g) \in Nat /\ FALSE \in BOOLEAN /\ q.starting + MaxV(q.g) <= q.defined
      BY <1>1, <1>2, <1>4
    <3> DEFINE x == AccessStrip(q, FALSE)
    <3>2. Changes(q, x, {"defined"}) /\ x.defined \in Nat /\ x.defined >= q.defined
      BY <1>1, <1>2, <1>4, <3>1, StripAccess
    <3>3. w = x
      BY <2>1
    <3> HIDE DEF w, x
    <3>4. x.defined >= WholeRows(g)
      BY <1>1, <1>2, <1>4, <3>2
    <3> QED
      BY <3>2, <3>3, <3>4
  <2>2. CASE q.nextRow # 0
    <3>1. w = q
      BY <2>2
    <3> HIDE DEF w
    <3> QED
      BY <1>1, <1>2, <3>1 DEF Changes
  <2> QED
    BY <2>1, <2>2
<1>6. b = NextStrip(t)
  <2>1. b = PostProcess2pass(q, room)
    BY <1>2 DEF PostProcessData
  <2>2. w.err = "none"
    <3> HIDE DEF w
    <3> QED
      BY <1>1, <1>5 DEF Changes, OutputFields
  <2>3. b = IF w.err # "none" THEN w
            ELSE NextStrip([Emit(w, [i \in 1..num |-> w.whole[(q.starting + q.nextRow) + i - 1]]) EXCEPT !.nextRow = @ + num])
    BY <2>1 DEF PostProcess2pass
  <2>4. rows = [i \in 1..num |-> w.whole[(q.starting + q.nextRow) + i - 1]]
    BY <1>2
  <2> QED
    BY <2>2, <2>3, <2>4
<1>7. num \in Nat \ {0} /\ num <= V - q.nextRow /\ s + num <= H
  <2> DEFINE a == V - q.nextRow
             c == H - q.starting
  <2>1. a \in Nat \ {0} /\ c \in Nat \ {0}
    BY <1>1, <1>2
  <2>2. num \in Nat \ {0} /\ num <= a /\ num <= c
    <3> DEFINE y == Least(a, room)
    <3> HIDE DEF a, c
    <3>1. y \in Nat \ {0} /\ y <= a
      BY <2>1 DEF Least
    <3> HIDE DEF y
    <3>2. Least(y, c) \in Nat \ {0} /\ Least(y, c) <= y /\ Least(y, c) <= c
      BY <2>1, <3>1 DEF Least
    <3>3. num = Least(y, c)
      BY DEF y, a, c
    <3> HIDE DEF num
    <3> QED
      BY <2>1, <3>1, <3>2, <3>3
  <2> HIDE DEF num
  <2>3. PICK m \in Nat : H \in {m * V, m * V + 1}
    BY <1>1, <1>2 DEF StripsFit
  <2>4. q.starting + V <= H \/ q.nextRow = 0
    <3>1. V \in Nat \ {0} /\ q.starting \in Nat /\ q.nextRow \in Nat /\ q.starting + q.nextRow < H /\ H \in Nat
      BY <1>1, <1>2
    <3> HIDE DEF V, H, a, c
    <3>2. m * V \in Nat /\ k * V \in Nat /\ (k + 1) * V = k * V + V
      BY <3>1
    <3>3. CASE k < m
      <4>1. (k + 1) * V <= m * V
        <5>1. k + 1 \in Int /\ m \in Int /\ k + 1 <= m
          BY <3>3
        <5> QED
          BY <3>1, <5>1, Smaller
      <4> QED
        BY <1>3, <2>3, <3>1, <3>2, <4>1
    <3>4. CASE ~(k < m)
      <4>1. m * V <= k * V
        <5>1. k \in Int /\ m \in Int /\ m <= k
          BY <3>4
        <5> QED
          BY <3>1, <5>1, Smaller
      <4>2. q.starting >= m * V /\ H <= m * V + 1
        BY <1>3, <2>3, <3>2, <4>1
      <4> DEFINE x == m * V
      <4>3. x \in Nat /\ q.starting >= x /\ H <= x + 1
        BY <3>2, <4>2
      <4> HIDE DEF x
      <4>4. q.nextRow = 0
        BY <3>1, <4>3
      <4> QED
        BY <4>4
    <3> QED
      BY <3>3, <3>4
  <2>5. CASE q.starting + V <= H
    BY <1>1, <1>2, <2>2, <2>5
  <2>6. CASE q.nextRow = 0
    BY <1>1, <1>2, <2>2, <2>6
  <2> QED
    BY <2>4, <2>5, <2>6
<1> HIDE DEF w, num
<1>8. /\ DOMAIN w = OutputFields /\ w.g = g /\ w.whole = q.whole /\ w.out = <<>> /\ w.count = 0 /\ w.nextRow = q.nextRow
      /\ w.starting = q.starting
  BY <1>1, <1>5 DEF Changes, OutputFields
<1>9. ASSUME NEW i \in 1 .. num PROVE rows[i] = Upsampled(g, s + i - 1)
  <2>1. rows[i] = q.whole[s + i - 1]
    BY <1>8
  <2>2. s + i - 1 \in 0 .. WholeRows(g) - 1 /\ s + i - 1 < H
    BY <1>1, <1>4, <1>7
  <2>3. s + i - 1 \in DOMAIN q.whole
    BY <2>2 DEF Screen
  <2> QED
    BY <1>2, <2>1, <2>2, <2>3 DEF WholeUpTo
<1>10. rows \in Seq(Pictures(g)) /\ Len(rows) = num /\ DOMAIN rows = 1 .. num
  <2>1. DOMAIN rows = 1 .. num /\ rows = [i \in 1 .. num |-> rows[i]] /\ num \in Nat
    BY <1>7
  <2>2. \A i \in 1 .. num : rows[i] = Upsampled(g, s + i - 1)
    BY <1>9
  <2> HIDE DEF rows, s, g
  <2>3. s \in Nat
    BY <1>1
  <2>4. rows \in Seq(Pictures(g)) /\ Len(rows) = num
    BY <2>1, <2>2, <2>3, PictureRows
  <2> QED
    BY <2>1, <2>4
<1> HIDE DEF rows
<1>11. /\ Changes(w, t, {"out", "count", "nextRow"}) /\ t.out = rows /\ t.count = num /\ t.nextRow = q.nextRow + num
  <2>1. e = [w EXCEPT !.out = @ \o rows, !.count = @ + Len(rows)]
    BY DEF Emit
  <2>2. <<>> \o rows = rows /\ 0 + num = num
    BY <1>7, <1>10
  <2> HIDE DEF e
  <2>3. Changes(w, e, {"out", "count"}) /\ e.out = rows /\ e.count = num
    BY <1>8, <1>10, <2>1, <2>2 DEF Changes, OutputFields
  <2> QED
    BY <1>8, <2>3 DEF Changes, OutputFields
<1> HIDE DEF t, b
<1>12. DOMAIN t = OutputFields /\ t.g = g /\ t.starting = q.starting
  BY <1>8, <1>11 DEF Changes, OutputFields
<1>13. /\ Changes(t, b, {"starting", "nextRow"})
       /\ IF q.nextRow + num >= V THEN b.starting = q.starting + V /\ b.nextRow = 0
          ELSE b.starting = q.starting /\ b.nextRow = q.nextRow + num
  <2> HIDE DEF V
  <2>1. b = IF q.nextRow + num >= V THEN [t EXCEPT !.starting = @ + V, !.nextRow = 0] ELSE t
    BY <1>6, <1>11, <1>12 DEF NextStrip, V
  <2>2. CASE q.nextRow + num >= V
    <3>1. b = [t EXCEPT !.starting = @ + V, !.nextRow = 0]
      BY <2>1, <2>2
    <3> QED
      BY <1>12, <2>2, <3>1 DEF Changes, OutputFields
  <2>3. CASE ~(q.nextRow + num >= V)
    <3>1. b = t
      BY <2>1, <2>3
    <3> QED
      BY <1>11, <1>12, <2>3, <3>1 DEF Changes
  <2> QED
    BY <2>2, <2>3
<1>14. /\ DOMAIN b = OutputFields /\ b.g = g /\ b.out = rows /\ b.count = num /\ b.whole = q.whole
       /\ b.defined = w.defined /\ b.err = q.err /\ b.from = s /\ b.scanline = s /\ b.buf = q.buf /\ b.xbuf = q.xbuf
  <2>1. b.out = t.out /\ b.count = t.count /\ b.whole = t.whole /\ b.defined = t.defined /\ b.err = t.err
        /\ b.from = t.from /\ b.scanline = t.scanline /\ b.buf = t.buf /\ b.xbuf = t.xbuf
        /\ DOMAIN b = OutputFields /\ b.g = t.g
    BY <1>12, <1>13 DEF Changes, OutputFields
  <2>2. t.whole = w.whole /\ t.defined = w.defined /\ t.err = w.err
        /\ t.from = w.from /\ t.scanline = w.scanline /\ t.buf = w.buf /\ t.xbuf = w.xbuf
    BY <1>8, <1>11 DEF Changes, OutputFields
  <2>3. w.err = q.err /\ w.from = q.from /\ w.scanline = q.scanline /\ w.buf = q.buf /\ w.xbuf = q.xbuf
    BY <1>1, <1>5 DEF Changes, OutputFields
  <2> QED
    BY <1>8, <1>11, <1>12, <2>1, <2>2, <2>3
<1>15. Changes(q, b, Handed)
  BY <1>1, <1>5, <1>8, <1>11, <1>12, <1>13 DEF Changes, Handed, OutputFields
<1>16. Screen(b)
  BY <1>5, <1>14 DEF Screen, g, s
<1>17. Emitted(b)
  BY <1>7, <1>9, <1>10, <1>14 DEF Emitted
<1>18. InStrip(b) /\ b.starting + b.nextRow = s + num
  <2>1. k * V \in Nat /\ (k + 1) * V = k * V + V
    <3>1. k \in Nat /\ V \in Nat
      BY <1>1, <1>3
    <3> HIDE DEF V
    <3> QED
      BY <3>1
  <2>2. V \in 1 .. 4 /\ q.nextRow \in 0 .. V - 1 /\ num \in 1 .. V - q.nextRow
    BY <1>1, <1>2, <1>7
  <2> HIDE DEF V
  <2>3. CASE q.nextRow + num >= V
    <3>1. q.nextRow + num = V
      BY <2>2, <2>3
    <3>2. b.starting = (k + 1) * V /\ b.nextRow = 0 /\ b.starting = q.starting + V
      BY <1>3, <1>13, <2>1, <2>3
    <3>3. b.starting \in Nat /\ b.nextRow \in 0 .. V - 1 /\ k + 1 \in Nat
      BY <1>2, <2>2, <3>2
    <3>4. b.starting + b.nextRow = s + num
      BY <1>2, <2>2, <3>1, <3>2
    <3> QED
      BY <1>2, <1>14, <3>2, <3>3, <3>4 DEF InStrip, V
  <2>4. CASE ~(q.nextRow + num >= V)
    <3>1. b.starting = q.starting /\ b.nextRow = q.nextRow + num
      BY <1>13, <2>4
    <3>2. b.nextRow \in 0 .. V - 1
      BY <2>2, <2>4, <3>1
    <3>3. b.starting + b.nextRow = s + num
      BY <1>2, <2>2, <3>1
    <3> QED
      BY <1>2, <1>3, <1>14, <3>1, <3>2, <3>3 DEF InStrip, V
  <2> QED
    BY <2>3, <2>4
<1>19. WholeUpTo(b, H)
  BY <1>2, <1>14 DEF WholeUpTo
<1>20. s + num \in 0 .. H
  BY <1>1, <1>7
<1> HIDE DEF g, H, s
<1>21. Changes(q, b, Handed) /\ Screen(b) /\ Emitted(b) /\ InStrip(b) /\ b.starting + b.nextRow = s + b.count
       /\ s + b.count \in 0 .. H /\ b.defined >= WholeRows(g) /\ WholeUpTo(b, H)
  BY <1>5, <1>14, <1>15, <1>16, <1>17, <1>18, <1>19, <1>20
<1> QED
  BY <1>21, Zenon DEF b, g, H, s

-----------------------------------------------------------------------------
(***************************************************************************)
(* The workspace of the main controller and the lists of pointers.         *)
(***************************************************************************)
LEMMA WorkspaceSize ==
  ASSUME NEW g \in Outputs, NEW ci \in Comps(g)
  PROVE  /\ RowGroup(g, ci) \in 1 .. 4 /\ ImcuLines(g, ci) \in Nat \ {0}
         /\ Workspace(g, ci) = ImcuLines(g, ci) + 2 * RowGroup(g, ci)
         /\ RowGroup(g, ci) * (g.m + 3) = Workspace(g, ci) + RowGroup(g, ci)
         /\ NeedContext(g) => g.m >= 2 /\ ImcuLines(g, ci) >= 2 * RowGroup(g, ci)
<1> DEFINE rg == RowGroup(g, ci)
           m == g.m
<1>1. rg \in 1 .. 4 /\ m \in Nat \ {0}
  BY Groupings, OutputRates
<1>2. NeedContext(g) => m > 1
  BY DEF NeedContext, Fancy
<1> HIDE DEF rg, m
<1>3. rg * m \in Nat \ {0} /\ rg * (m + 2) = rg * m + 2 * rg /\ rg * (m + 3) = rg * (m + 2) + rg
  BY <1>1
<1>4. m > 1 => rg * m >= 2 * rg
  BY <1>1
<1> QED
  BY <1>1, <1>2, <1>3, <1>4 DEF ImcuLines, Workspace, rg, m

\* The two lists see each row of the workspace once, and the last two row groups of an
\* iMCU row are in one list above where they are in the other.
LEMMA FunnyLists ==
  ASSUME NEW g \in Outputs, NEW ci \in Comps(g), NeedContext(g), NEW w \in 0 .. 1
  PROVE  LET n == Workspace(g, ci)
             lines == ImcuLines(g, ci)
         IN /\ \A i \in 0 .. n - 1 : Funny(g, ci, w, i) \in 0 .. n - 1
            /\ \A i, j \in 0 .. n - 1 : Funny(g, ci, w, i) = Funny(g, ci, w, j) => i = j
            /\ \A i \in lines .. n - 1 : Funny(g, ci, 1 - w, i) = Funny(g, ci, w, i - 2 * RowGroup(g, ci))
<1> DEFINE n == Workspace(g, ci)
           lines == ImcuLines(g, ci)
           rg == RowGroup(g, ci)
<1>1. rg \in 1 .. 4 /\ lines \in Nat \ {0} /\ n = lines + 2 * rg /\ lines >= 2 * rg
  BY WorkspaceSize
<1> HIDE DEF n, lines, rg
<1>2. CASE w = 0
  <2>1. \A i \in 0 .. n - 1 : Funny(g, ci, w, i) = i
    BY <1>2 DEF Funny
  <2>2. \A i \in lines .. n - 1 : i - 2 * rg \in 0 .. n - 1 /\ Funny(g, ci, 1 - w, i) = i - 2 * rg
    BY <1>1, <1>2 DEF Funny, lines, rg
  <2> QED
    BY <2>1, <2>2 DEF n, lines, rg
<1>3. CASE w = 1
  <2>1. \A i \in 0 .. n - 1 : Funny(g, ci, w, i) =
           IF i >= lines THEN i - 2 * rg ELSE IF i >= lines - 2 * rg THEN i + 2 * rg ELSE i
    BY <1>3 DEF Funny, lines, rg
  <2>2. \A i \in 0 .. n - 1 : Funny(g, ci, w, i) \in 0 .. n - 1
    BY <1>1, <2>1
  <2>3. \A i, j \in 0 .. n - 1 : Funny(g, ci, w, i) = Funny(g, ci, w, j) => i = j
    BY <1>1, <2>1
  <2>4. ASSUME NEW i \in lines .. n - 1 PROVE Funny(g, ci, 1 - w, i) = Funny(g, ci, w, i - 2 * rg)
    <3>1. i - 2 * rg \in 0 .. n - 1 /\ ~(i - 2 * rg >= lines) /\ i - 2 * rg >= lines - 2 * rg /\ (i - 2 * rg) + 2 * rg = i
      BY <1>1, <2>4
    <3>2. Funny(g, ci, w, i - 2 * rg) = i
      BY <2>1, <3>1
    <3>3. Funny(g, ci, 1 - w, i) = i
      BY <1>3 DEF Funny
    <3> QED
      BY <3>2, <3>3
  <2> QED
    BY <2>2, <2>3, <2>4 DEF n, lines, rg
<1> QED
  BY <1>2, <1>3

\* The row of the workspace that an entry points to, while the lists are whole.
LEMMA Pointed ==
  ASSUME NEW q, Screen(q), NEW w \in 0 .. 1, NEW ci \in Comps(q.g),
         NeedContext(q.g) => Pointing(q, TRUE) \/ Pointing(q, FALSE)
  PROVE  LET n == Workspace(q.g, ci)
         IN /\ \A i \in 0 .. n - 1 : PointerAt(q, w, ci, i) \in DOMAIN q.buf[ci]
            /\ \A i, j \in 0 .. n - 1 : PointerAt(q, w, ci, i) = PointerAt(q, w, ci, j) => i = j
<1> DEFINE n == Workspace(q.g, ci)
<1>1. DOMAIN q.buf[ci] = 0 .. n - 1 /\ q.g \in Outputs
  BY DEF Screen
<1>2. CASE NeedContext(q.g)
  <2>1. \A i \in 0 .. n - 1 : PointerAt(q, w, ci, i) = Funny(q.g, ci, w, i)
    BY <1>2 DEF PointerAt, Pointing
  <2> QED
    BY <1>1, <1>2, <2>1, FunnyLists
<1>3. CASE ~NeedContext(q.g)
  <2>1. \A i : PointerAt(q, w, ci, i) = i
    BY <1>3 DEF PointerAt
  <2> HIDE DEF n
  <2> QED
    BY <1>1, <2>1 DEF n
<1> QED
  BY <1>2, <1>3

\* What decoding does to the rows of the workspace.
Overwritten(q, b, ci) ==
  /\ DOMAIN b.buf[ci] = DOMAIN q.buf[ci]
  /\ \A k \in DOMAIN q.buf[ci] :
       (\A j \in DecodedRows(q, ci) : PointerAt(q, q.which, ci, j) # k) => b.buf[ci][k] = q.buf[ci][k]

Decoded(q, b, suspend) ==
  /\ Changes(q, b, IF suspend THEN {"buf"} ELSE {"buf", "coefRow", "full", "imcu"})
  /\ ~suspend => b.coefRow = q.coefRow + 1 /\ b.full = TRUE /\ b.imcu = q.imcu + 1
  /\ DOMAIN b.buf = Comps(q.g)
  /\ \A ci \in Comps(q.g) :
       /\ Overwritten(q, b, ci)
       /\ ~suspend => \A j \in DecodedRows(q, ci) :
            b.buf[ci][PointerAt(q, q.which, ci, j)] = q.coefRow * ImcuHeight(q.g, ci) + j

LEMMA Decodes ==
  ASSUME NEW q, Screen(q), q.which \in 0 .. 1, q.coefRow \in 0 .. ImcuRows(q.g) - 1, NEW suspend \in BOOLEAN,
         NeedContext(q.g) => Pointing(q, TRUE) \/ Pointing(q, FALSE)
  PROVE  Decoded(q, DecompressData(q, suspend), suspend)
<1> DEFINE b == DecompressData(q, suspend)
           P(ci, j) == PointerAt(q, q.which, ci, j)
           Js(ci, k) == {j \in DecodedRows(q, ci) : P(ci, j) = k}
           First(ci, k) == CHOOSE j \in Js(ci, k) : \A i \in Js(ci, k) : i <= j
           Label(ci, j) == IF suspend THEN Torn ELSE q.coefRow * ImcuHeight(q.g, ci) + j
           buf == [ci \in Comps(q.g) |-> [k \in DOMAIN q.buf[ci] |->
                     IF Js(ci, k) = {} THEN q.buf[ci][k] ELSE Label(ci, First(ci, k))]]
<1>1. DOMAIN q = OutputFields /\ q.g \in Outputs /\ DOMAIN q.buf = Comps(q.g) /\ ~(q.coefRow = ImcuRows(q.g))
  <2>1. ImcuRows(q.g) \in Nat
    BY OutputRows DEF Screen
  <2> QED
    BY <2>1 DEF Screen
<1>2. CASE suspend
  <2>1. b = Written(q, LAMBDA ci, j : Torn)
    BY <1>1, <1>2 DEF DecompressData
  <2>2. Written(q, LAMBDA ci, j : Torn) = [q EXCEPT !.buf = buf]
    BY <1>2, Zenon DEF Written
  <2>3. b = [q EXCEPT !.buf = buf]
    BY <2>1, <2>2, Zenon
  <2> HIDE DEF b, buf
  <2>4. Changes(q, b, {"buf"}) /\ b.buf = buf
    BY <1>1, <2>3 DEF Changes, OutputFields
  <2>5. ASSUME NEW ci \in Comps(q.g) PROVE Overwritten(q, b, ci)
    <3>1. b.buf[ci] = [k \in DOMAIN q.buf[ci] |-> IF Js(ci, k) = {} THEN q.buf[ci][k] ELSE Label(ci, First(ci, k))]
      BY <2>4 DEF buf
    <3> HIDE DEF Label, First
    <3> QED
      BY <3>1 DEF Overwritten
  <2>6. DOMAIN b.buf = Comps(q.g)
    BY <2>4 DEF buf
  <2> QED
    BY <1>2, <2>4, <2>5, <2>6 DEF b, Decoded
<1>3. CASE ~suspend
  <2>1. b = [Written(q, LAMBDA ci, j : q.coefRow * ImcuHeight(q.g, ci) + j)
             EXCEPT !.coefRow = @ + 1, !.full = TRUE, !.imcu = @ + 1]
    BY <1>1, <1>3 DEF DecompressData
  <2>2. Written(q, LAMBDA ci, j : q.coefRow * ImcuHeight(q.g, ci) + j) = [q EXCEPT !.buf = buf]
    <3> DEFINE rows == [ci \in Comps(q.g) |-> [k \in DOMAIN q.buf[ci] |->
                          IF Js(ci, k) = {} THEN q.buf[ci][k] ELSE q.coefRow * ImcuHeight(q.g, ci) + First(ci, k)]]
    <3>1. Written(q, LAMBDA ci, j : q.coefRow * ImcuHeight(q.g, ci) + j) = [q EXCEPT !.buf = rows]
      BY Zenon DEF Written
    <3>2. rows = buf
      BY <1>3
    <3> QED
      BY <3>1, <3>2, Zenon
  <2>3. b = [[q EXCEPT !.buf = buf] EXCEPT !.coefRow = @ + 1, !.full = TRUE, !.imcu = @ + 1]
    BY <2>1, <2>2, Zenon
  <2> HIDE DEF b, buf
  <2>4. /\ Changes(q, b, {"buf", "coefRow", "full", "imcu"}) /\ b.buf = buf
        /\ b.coefRow = q.coefRow + 1 /\ b.full = TRUE /\ b.imcu = q.imcu + 1
    BY <1>1, <2>3 DEF Changes, OutputFields
  <2>5. ASSUME NEW ci \in Comps(q.g)
        PROVE  /\ Overwritten(q, b, ci)
               /\ \A j \in DecodedRows(q, ci) :
                    b.buf[ci][PointerAt(q, q.which, ci, j)] = q.coefRow * ImcuHeight(q.g, ci) + j
    <3>1. b.buf[ci] = [k \in DOMAIN q.buf[ci] |-> IF Js(ci, k) = {} THEN q.buf[ci][k] ELSE Label(ci, First(ci, k))]
      BY <2>4 DEF buf
    <3>2. Overwritten(q, b, ci)
      <4> HIDE DEF Label, First
      <4> QED
        BY <3>1 DEF Overwritten
    <3>3. ASSUME NEW j \in DecodedRows(q, ci) PROVE b.buf[ci][P(ci, j)] = q.coefRow * ImcuHeight(q.g, ci) + j
      <4> DEFINE n == Workspace(q.g, ci)
                 k == P(ci, j)
      <4>1. DecodedRows(q, ci) \subseteq 0 .. n - 1
        <5>1. DecodedRows(q, ci) \subseteq 0 .. ImcuLines(q.g, ci) - 1
          BY <1>1, DecodesAll
        <5>2. n = ImcuLines(q.g, ci) + 2 * RowGroup(q.g, ci) /\ RowGroup(q.g, ci) \in Nat /\ ImcuLines(q.g, ci) \in Nat
          BY <1>1, WorkspaceSize
        <5> HIDE DEF n
        <5> QED
          BY <5>1, <5>2
      <4>2. /\ \A i \in 0 .. n - 1 : P(ci, i) \in DOMAIN q.buf[ci]
            /\ \A i, l \in 0 .. n - 1 : P(ci, i) = P(ci, l) => i = l
        BY Pointed
      <4> HIDE DEF n, P
      <4>3. Js(ci, k) = {j} /\ k \in DOMAIN q.buf[ci]
        BY <3>3, <4>1, <4>2
      <4>4. First(ci, k) = j
        <5>1. \A i \in {j} : i <= j
          BY <3>3, <4>1
        <5>2. \E i \in Js(ci, k) : \A l \in Js(ci, k) : l <= i
          BY <4>3, <5>1
        <5>3. First(ci, k) \in Js(ci, k)
          BY <5>2
        <5> HIDE DEF Js, First, k
        <5> QED
          BY <4>3, <5>3
      <4>5. b.buf[ci][k] = Label(ci, First(ci, k))
        <5> HIDE DEF Label, First, k, Js
        <5>1. Js(ci, k) # {}
          BY <4>3
        <5> QED
          BY <3>1, <4>3, <5>1
      <4> QED
        BY <1>3, <4>4, <4>5
    <3> QED
      BY <3>2, <3>3
  <2>6. DOMAIN b.buf = Comps(q.g)
    BY <2>4 DEF buf
  <2> QED
    BY <1>3, <2>4, <2>5, <2>6 DEF b, Decoded
<1> QED
  BY <1>2, <1>3

\* What the list in use shows after an iMCU row has been decoded, or half of it.
Viewed(q, b, ci, suspend) ==
  LET lines == ImcuLines(q.g, ci)
  IN /\ \A j \in lines .. Workspace(q.g, ci) - 1 : RowAt(b, q.which, ci, j) = RowAt(q, q.which, ci, j)
     /\ ~suspend => \A j \in 0 .. lines - 1 :
          q.coefRow * lines + j < DownHeight(q.g, ci) => RowAt(b, q.which, ci, j) = q.coefRow * lines + j

LEMMA DecodedView ==
  ASSUME NEW q, Screen(q), q.which \in 0 .. 1, q.coefRow \in 0 .. ImcuRows(q.g) - 1, NEW suspend \in BOOLEAN,
         NeedContext(q.g) => Pointing(q, TRUE) \/ Pointing(q, FALSE), NEW ci \in Comps(q.g)
  PROVE  Viewed(q, DecompressData(q, suspend), ci, suspend)
<1> DEFINE b == DecompressData(q, suspend)
           w == q.which
           lines == ImcuLines(q.g, ci)
           n == Workspace(q.g, ci)
           P(j) == PointerAt(q, w, ci, j)
<1>1. DOMAIN q = OutputFields /\ q.g \in Outputs
  BY DEF Screen
<1>2. /\ Changes(q, b, IF suspend THEN {"buf"} ELSE {"buf", "coefRow", "full", "imcu"})
      /\ Overwritten(q, b, ci)
      /\ ~suspend => \A j \in DecodedRows(q, ci) : b.buf[ci][P(j)] = q.coefRow * ImcuHeight(q.g, ci) + j
  <2>1. Decoded(q, b, suspend)
    BY Decodes
  <2> HIDE DEF b
  <2> QED
    BY <2>1 DEF Decoded
<1>3. /\ \A i \in 0 .. n - 1 : P(i) \in DOMAIN q.buf[ci]
      /\ \A i, j \in 0 .. n - 1 : P(i) = P(j) => i = j
  BY Pointed
<1>4. n = lines + 2 * RowGroup(q.g, ci) /\ RowGroup(q.g, ci) \in Nat /\ lines \in Nat /\ ImcuHeight(q.g, ci) = lines
  BY <1>1, WorkspaceSize, Groupings
<1>5. /\ DecodedRows(q, ci) \subseteq 0 .. lines - 1
      /\ \A j \in 0 .. lines - 1 : q.coefRow * lines + j < DownHeight(q.g, ci) => j \in DecodedRows(q, ci)
  BY <1>1, DecodesAll
<1> HIDE DEF b
<1>6. b.g = q.g /\ b.xbuf = q.xbuf /\ b.which = q.which /\ DOMAIN b.buf[ci] = DOMAIN q.buf[ci]
  BY <1>1, <1>2 DEF Changes, OutputFields, Overwritten
<1>7. \A j : PointerAt(b, w, ci, j) = P(j)
  BY <1>6 DEF PointerAt
<1> HIDE DEF P, lines, n
<1>8. \A j \in 0 .. n - 1 : RowAt(b, w, ci, j) = b.buf[ci][P(j)] /\ RowAt(q, w, ci, j) = q.buf[ci][P(j)]
  BY <1>3, <1>6, <1>7 DEF RowAt, P
<1>9. ASSUME NEW j \in lines .. n - 1 PROVE RowAt(b, w, ci, j) = RowAt(q, w, ci, j)
  <2>1. j \in 0 .. n - 1 /\ \A i \in DecodedRows(q, ci) : i \in 0 .. n - 1 /\ i # j
    BY <1>4, <1>5
  <2>2. \A i \in DecodedRows(q, ci) : P(i) # P(j)
    BY <1>3, <2>1
  <2>3. b.buf[ci][P(j)] = q.buf[ci][P(j)]
    BY <1>2, <1>3, <2>1, <2>2 DEF Overwritten, P
  <2> QED
    BY <1>8, <2>1, <2>3
<1>10. ASSUME ~suspend, NEW j \in 0 .. lines - 1, q.coefRow * lines + j < DownHeight(q.g, ci)
       PROVE  RowAt(b, w, ci, j) = q.coefRow * lines + j
  <2>1. j \in DecodedRows(q, ci) /\ j \in 0 .. n - 1
    BY <1>4, <1>5, <1>10
  <2> QED
    BY <1>2, <1>4, <1>8, <1>10, <2>1
<1> QED
  BY <1>9, <1>10 DEF Viewed, b, lines, n

\* The same list, pointers and rows: the same views.
LEMMA SamePointing ==
  ASSUME NEW q, NEW b, b.g = q.g, b.xbuf = q.xbuf, NEW wrapped
  PROVE  Pointing(b, wrapped) <=> Pointing(q, wrapped)
BY Zenon DEF Pointing

LEMMA DecodesLive ==
  ASSUME NEW q, Screen(q), Live(q), q.full = FALSE, NEW suspend \in BOOLEAN
  PROVE  LET b == DecompressData(q, suspend)
         IN /\ Screen(b) /\ Live(b) /\ Changes(q, b, {"buf", "coefRow", "full", "imcu"})
            /\ GroupAt(b) = GroupAt(q) /\ Partial(b) = Partial(q)
<1> DEFINE b == DecompressData(q, suspend)
           g == q.g
<1>1. DOMAIN q = OutputFields /\ g \in Outputs /\ ImcuRows(g) \in Nat \ {0} /\ g.m \in Nat
  BY OutputRates, OutputRows DEF Screen
<1>2. /\ q.imcu \in 0 .. ImcuRows(g) - 1 /\ q.coefRow = q.imcu /\ q.which \in 0 .. 1 /\ Partial(q) = 0
      /\ Upsampling(q, GroupAt(q)) /\ IF NeedContext(g) THEN ContextMain(q) ELSE SimpleMain(q)
  BY <1>1 DEF Live
<1>3. NeedContext(g) => \/ q.ctx = "prepare" /\ AtTop(q) /\ q.imcu = 0 /\ q.which = 0 /\ Pointing(q, FALSE)
                        \/ q.ctx = "postponed" /\ AtLast(q) /\ q.imcu >= 1 /\ Pointing(q, TRUE) /\ Saved(q, q.imcu)
  <2> SUFFICES ASSUME NeedContext(g)
                PROVE  \/ q.ctx = "prepare" /\ AtTop(q) /\ q.imcu = 0 /\ q.which = 0 /\ Pointing(q, FALSE)
                       \/ q.ctx = "postponed" /\ AtLast(q) /\ q.imcu >= 1 /\ Pointing(q, TRUE) /\ Saved(q, q.imcu)
    OBVIOUS
  <2>1. ImcuAt(q) = q.imcu
    BY DEF ImcuAt
  <2>2. ContextMain(q)
    BY <1>2
  <2>3. CASE q.ctx = "prepare"
    <3>1. AtTop(q)
      BY <2>2, <2>3 DEF ContextMain
    <3>2. q.imcu = 0 /\ (q.imcu > 1) = FALSE
      BY <3>1 DEF AtTop
    <3>3. q.which = 0 /\ Pointing(q, q.imcu > 1)
      BY <3>1, <3>2 DEF AtTop
    <3>4. Pointing(q, FALSE)
      BY <3>2, <3>3
    <3> QED
      BY <2>3, <3>1, <3>2, <3>3, <3>4
  <2>4. CASE q.ctx = "postponed"
    <3>1. AtLast(q)
      BY <2>2, <2>4 DEF ContextMain
    <3> QED
      BY <2>1, <2>4, <3>1 DEF AtLast
  <2>5. CASE q.ctx = "process"
    <3>1. Within(q)
      BY <2>2, <2>5 DEF ContextMain
    <3> QED
      BY <3>1 DEF Within
  <2> QED
    BY <2>2, <2>3, <2>4, <2>5 DEF ContextMain
<1>4. Decoded(q, b, suspend) /\ q.coefRow \in 0 .. ImcuRows(g) - 1 /\ (NeedContext(g) => Pointing(q, TRUE) \/ Pointing(q, FALSE))
  BY <1>2, <1>3, Decodes
<1>5. ASSUME NEW ci \in Comps(g)
      PROVE  /\ \A j \in ImcuLines(g, ci) .. Workspace(g, ci) - 1 : RowAt(b, q.which, ci, j) = RowAt(q, q.which, ci, j)
             /\ ~suspend => \A j \in 0 .. ImcuLines(g, ci) - 1 : q.imcu * ImcuLines(g, ci) + j < DownHeight(g, ci) =>
                  RowAt(b, q.which, ci, j) = q.imcu * ImcuLines(g, ci) + j
  <2> DEFINE lines == ImcuLines(g, ci)
             n == Workspace(g, ci)
  <2>1. /\ \A j \in lines .. n - 1 : RowAt(b, q.which, ci, j) = RowAt(q, q.which, ci, j)
        /\ ~suspend => \A j \in 0 .. lines - 1 : q.coefRow * lines + j < DownHeight(g, ci) =>
                  RowAt(b, q.which, ci, j) = q.coefRow * lines + j
    <3>1. Viewed(q, b, ci, suspend)
      BY <1>2, <1>4, DecodedView
    <3> HIDE DEF b
    <3> QED
      BY <3>1 DEF Viewed
  <2> HIDE DEF lines, n, b
  <2>2. q.coefRow = q.imcu
    BY <1>2
  <2> QED
    BY <2>1, <2>2 DEF lines, n
<1> HIDE DEF b
<1>6. /\ Changes(q, b, {"buf", "coefRow", "full", "imcu"})
      /\ suspend => b.full = FALSE /\ b.imcu = q.imcu
      /\ ~suspend => b.full = TRUE /\ b.imcu = q.imcu + 1
      /\ b.coefRow = b.imcu
  <2>1. CASE suspend
    BY <1>1, <1>2, <1>4, <2>1 DEF Decoded, Changes, OutputFields
  <2>2. CASE ~suspend
    BY <1>1, <1>2, <1>4, <2>2 DEF Decoded, Changes, OutputFields
  <2> QED
    BY <2>1, <2>2
<1>7. /\ DOMAIN b = OutputFields /\ b.g = g /\ b.which = q.which /\ b.xbuf = q.xbuf /\ b.ctx = q.ctx /\ b.err = q.err
      /\ b.rowgroup = q.rowgroup /\ b.avail = q.avail /\ b.nextOut = q.nextOut /\ b.toGo = q.toGo
      /\ b.spare = q.spare /\ b.color = q.color /\ b.defined = q.defined /\ b.whole = q.whole /\ b.scanline = q.scanline
  BY <1>1, <1>6 DEF Changes, OutputFields
<1>8. Screen(b)
  <2>1. DOMAIN b.buf = Comps(g) /\ \A ci \in Comps(g) : DOMAIN b.buf[ci] = DOMAIN q.buf[ci]
    BY <1>4 DEF Decoded, Overwritten
  <2> QED
    BY <1>7, <2>1 DEF Screen
<1>9. Partial(b) = 0 /\ Partial(b) = Partial(q)
  BY <1>2, <1>7 DEF Partial
<1>10. ImcuAt(b) = q.imcu /\ ImcuAt(q) = q.imcu /\ GroupAt(b) = GroupAt(q)
  <2>1. ImcuAt(b) = q.imcu /\ ImcuAt(q) = q.imcu
    BY <1>2, <1>6 DEF ImcuAt
  <2> QED
    BY <1>7, <2>1 DEF GroupAt
<1>11. Upsampling(b, GroupAt(b))
  BY <1>2, <1>7, <1>9, <1>10 DEF Upsampling
<1>12. /\ b.imcu \in 0 .. ImcuRows(g) /\ b.which \in 0 .. 1 /\ b.full \in BOOLEAN
       /\ IF b.full THEN b.imcu >= 1 /\ b.imcu - 1 = q.imcu ELSE b.imcu < ImcuRows(g)
  <2>0. q.imcu \in Nat /\ q.imcu < ImcuRows(g) /\ b.which \in 0 .. 1
    BY <1>1, <1>2, <1>7
  <2>1. CASE suspend
    <3>1. b.full = FALSE /\ b.imcu = q.imcu
      BY <1>6, <2>1
    <3>2. q.imcu \in 0 .. ImcuRows(g)
      BY <1>1, <2>0
    <3> QED
      BY <2>0, <3>1, <3>2
  <2>2. CASE ~suspend
    <3>1. b.full = TRUE /\ b.imcu = q.imcu + 1
      BY <1>6, <2>2
    <3>2. q.imcu + 1 \in 0 .. ImcuRows(g) /\ q.imcu + 1 >= 1 /\ (q.imcu + 1) - 1 = q.imcu
      BY <1>1, <2>0
    <3> QED
      BY <2>0, <3>1, <3>2
  <2> QED
    BY <2>1, <2>2
<1>13. ASSUME ~suspend, NEW ci \in Comps(g), NEW j \in -Reach(g) .. ImcuLines(g, ci) - 1,
              q.imcu * ImcuLines(g, ci) + j < DownHeight(g, ci)
       PROVE  RowAt(b, b.which, ci, j) = Clamp(q.imcu * ImcuLines(g, ci) + j, DownHeight(g, ci))
  <2> DEFINE lines == ImcuLines(g, ci)
             n == Workspace(g, ci)
             h == DownHeight(g, ci)
             w == q.which
             top == q.imcu * lines
  <2>1. /\ RowGroup(g, ci) \in 1 .. 4 /\ lines \in Nat \ {0} /\ n = lines + 2 * RowGroup(g, ci)
        /\ h \in Nat \ {0} /\ top \in Nat /\ q.imcu \in Nat /\ (q.imcu >= 1 => top >= lines)
    <3>1. /\ RowGroup(g, ci) \in 1 .. 4 /\ lines \in Nat \ {0} /\ n = lines + 2 * RowGroup(g, ci)
          /\ h \in Nat \ {0} /\ q.imcu \in Nat
      BY <1>1, <1>2, WorkspaceSize, ComponentRows
    <3> HIDE DEF lines, n, h
    <3>2. q.imcu * lines \in Nat /\ (q.imcu >= 1 => q.imcu * lines >= lines)
      BY <3>1
    <3> QED
      BY <3>1, <3>2
  <2>2. \A i \in 0 .. lines - 1 : top + i < h => RowAt(b, w, ci, i) = top + i
    BY <1>5, <1>13
  <2>3. CASE j >= 0
    <3>0. j \in -Reach(g) .. lines - 1 /\ top + j < h
      BY <1>13
    <3> HIDE DEF top, h, lines, n
    <3>1. j \in 0 .. lines - 1 /\ top + j < h /\ top + j \in 0 .. h - 1
      BY <2>1, <2>3, <3>0 DEF Reach
    <3>2. Clamp(top + j, h) = top + j
      BY <2>1, <3>1, ClampRow
    <3>3. RowAt(b, w, ci, j) = top + j
      BY <2>2, <3>1
    <3> QED
      BY <1>7, <3>2, <3>3 DEF top, h, lines
  <2>4. CASE ~(j >= 0)
    <3>1. j = -1 /\ NeedContext(g)
      BY <2>4 DEF Reach
    <3>2. CASE q.ctx = "prepare" /\ q.imcu = 0 /\ w = 0 /\ Pointing(q, FALSE)
      <4>1. q.xbuf[0][ci][-1] = 0 /\ q.xbuf[0][ci][0] = Funny(g, ci, 0, 0)
        <5>1. 0 \in 0 .. n - 1
          <6> HIDE DEF n, lines
          <6> QED
            BY <2>1
        <5> QED
          BY <3>2, <5>1 DEF Pointing
      <4>2. PointerAt(b, w, ci, -1) = PointerAt(b, w, ci, 0)
        BY <1>7, <3>1, <3>2, <4>1 DEF PointerAt, Funny
      <4>3. RowAt(b, w, ci, -1) = RowAt(b, w, ci, 0)
        BY <4>2 DEF RowAt
      <4> HIDE DEF h, lines, n
      <4>4. top = 0 /\ top + 0 < h /\ 0 \in 0 .. lines - 1
        BY <2>1, <3>2
      <4>5. RowAt(b, w, ci, 0) = 0
        BY <2>2, <4>4
      <4>6. Clamp(top + j, h) = 0
        BY <3>1, <4>4 DEF Clamp
      <4> QED
        BY <1>7, <3>1, <4>3, <4>5, <4>6 DEF top, h, lines
    <3>3. CASE q.ctx = "postponed" /\ q.imcu >= 1 /\ Pointing(q, TRUE) /\ Saved(q, q.imcu)
      <4>1. q.xbuf[w][ci][-1] = Funny(g, ci, w, n - 1) /\ q.xbuf[w][ci][n - 1] = Funny(g, ci, w, n - 1)
        <5>1. n - 1 \in 0 .. n - 1
          <6> HIDE DEF n, lines
          <6> QED
            BY <2>1
        <5>2. w \in 0 .. 1
          BY <1>2
        <5> HIDE DEF w
        <5> QED
          BY <3>3, <5>1, <5>2 DEF Pointing, n
      <4>2. PointerAt(b, w, ci, -1) = PointerAt(b, w, ci, n - 1)
        BY <1>7, <3>1, <4>1 DEF PointerAt
      <4>3. RowAt(b, w, ci, -1) = RowAt(b, w, ci, n - 1)
        BY <4>2 DEF RowAt
      <4>4. n - 1 \in lines .. n - 1
        <5> HIDE DEF n, lines
        <5> QED
          BY <2>1
      <4>5. RowAt(b, w, ci, n - 1) = RowAt(q, w, ci, n - 1)
        BY <1>5, <4>4
      <4>6. RowAt(q, w, ci, n - 1) = top + (n - 1) - n
        BY <3>3, <4>4 DEF Saved
      <4> HIDE DEF h, lines, n, top
      <4>7. top + (n - 1) - n = top + j /\ top + j \in 0 .. h - 1
        BY <1>13, <2>1, <3>1, <3>3 DEF top, lines, h
      <4>8. Clamp(top + j, h) = top + j
        BY <2>1, <4>7, ClampRow
      <4> QED
        BY <1>7, <3>1, <4>3, <4>5, <4>6, <4>7, <4>8 DEF top, h, lines
    <3> QED
      BY <1>3, <3>1, <3>2, <3>3
  <2> QED
    BY <2>3, <2>4
<1>14. ~suspend => Laid(b, b.imcu - 1)
  BY <1>7, <1>12, <1>13, <1>6 DEF Laid
<1>15. ASSUME NeedContext(g) PROVE ContextMain(b)
  <2>1. \A x \in BOOLEAN : Pointing(b, x) <=> Pointing(q, x)
    BY <1>7, SamePointing
  <2>2. CASE q.ctx = "prepare" /\ AtTop(q) /\ q.imcu = 0 /\ q.which = 0 /\ Pointing(q, FALSE)
    <3>1. b.imcu <= 1 /\ (b.full => ~suspend) /\ (~b.full => b.imcu = 0) /\ ((b.imcu > 1) = FALSE) /\ ((q.imcu > 1) = FALSE)
      BY <1>6, <2>2
    <3>2. AtTop(b)
      BY <1>7, <1>9, <1>14, <2>1, <2>2, <3>1 DEF AtTop
    <3> QED
      BY <1>7, <1>15, <2>2, <3>2 DEF ContextMain
  <2>3. CASE q.ctx = "postponed" /\ AtLast(q) /\ q.imcu >= 1 /\ Pointing(q, TRUE) /\ Saved(q, q.imcu)
    <3>1. Saved(b, q.imcu)
      BY <1>5, <1>7, <2>3 DEF Saved
    <3>2. AtLast(b)
      BY <1>6, <1>7, <1>10, <1>14, <2>1, <2>3, <3>1 DEF AtLast
    <3> QED
      BY <1>7, <1>15, <2>3, <3>2 DEF ContextMain
  <2> QED
    BY <1>3, <1>15, <2>2, <2>3
<1>16. ASSUME ~NeedContext(g) PROVE SimpleMain(b)
  <2>1. SimpleMain(q)
    BY <1>2, <1>16
  <2> QED
    BY <1>6, <1>7, <1>14, <2>1 DEF SimpleMain
<1>17. Live(b)
  BY <1>6, <1>7, <1>9, <1>11, <1>12, <1>15, <1>16 DEF Live
<1>18. /\ Screen(b) /\ Live(b) /\ Changes(q, b, {"buf", "coefRow", "full", "imcu"})
       /\ GroupAt(b) = GroupAt(q) /\ Partial(b) = Partial(q)
  BY <1>6, <1>8, <1>9, <1>10, <1>17
<1> QED
  BY <1>18, Zenon DEF b

\* An entry that points where another one pointed shows what that one showed.
LEMMA SameEntry ==
  ASSUME NEW q, NEW b, b.g = q.g, b.buf = q.buf, NeedContext(q.g), NEW w, NEW v, NEW ci, NEW i, NEW k,
         b.xbuf[v][ci][i] = q.xbuf[w][ci][k]
  PROVE  RowAt(b, v, ci, i) = RowAt(q, w, ci, k)
BY DEF RowAt, PointerAt

\* The shape of the lists.
Lists(q, x) ==
  /\ DOMAIN x = 0 .. 1
  /\ \A w \in 0 .. 1 : /\ DOMAIN x[w] = Comps(q.g)
                       /\ \A ci \in Comps(q.g) :
                            DOMAIN x[w][ci] = -RowGroup(q.g, ci) .. RowGroup(q.g, ci) * (q.g.m + 3) - 1

LEMMA ScreenKept ==
  ASSUME NEW q, NEW b, NEW F, Screen(q), Changes(q, b, F),
         F \subseteq {"xbuf", "which", "ctx", "avail", "rowgroup", "imcu", "full"},
         NeedContext(q.g) => Lists(q, b.xbuf)
  PROVE  Screen(b)
<1>1. DOMAIN q = OutputFields
  BY DEF Screen
<1>2. DOMAIN b = OutputFields /\ b.g = q.g /\ b.err = q.err /\ b.buf = q.buf /\ b.defined = q.defined /\ b.whole = q.whole
      /\ b.scanline = q.scanline
  BY <1>1 DEF Changes, OutputFields
<1> QED
  BY <1>2 DEF Screen, Lists

LEMMA ListEnds ==
  ASSUME NEW g \in Outputs, NEW ci \in Comps(g), NeedContext(g)
  PROVE  LET n == Workspace(g, ci)
             rg == RowGroup(g, ci)
             all == -rg .. rg * (g.m + 3) - 1
         IN /\ n \in Nat \ {0} /\ rg \in 1 .. 4 /\ -1 \in all /\ n \in all /\ -1 \in -rg .. -1
            /\ 0 .. n - 1 \subseteq all /\ rg * (g.m + 2) = n /\ rg * g.m = ImcuLines(g, ci)
            /\ rg * (g.m - 2) = ImcuLines(g, ci) - 2 * rg
<1> DEFINE n == Workspace(g, ci)
           rg == RowGroup(g, ci)
           lines == ImcuLines(g, ci)
           end == rg * (g.m + 3)
<1>1. rg \in 1 .. 4 /\ lines \in Nat \ {0} /\ n = lines + 2 * rg /\ end = n + rg
  BY WorkspaceSize
<1>2. rg * (g.m + 2) = n /\ rg * g.m = lines
  BY DEF Workspace, ImcuLines
<1>3. rg * (g.m - 2) = rg * g.m - 2 * rg
  <2>1. g.m \in Nat
    BY OutputRates
  <2> HIDE DEF rg
  <2> QED
    BY <1>1, <2>1
<1>4. rg * (g.m - 2) = lines - 2 * rg
  BY <1>2, <1>3
<1> HIDE DEF n, rg, lines, end
<1>5. n \in Nat \ {0} /\ rg \in 1 .. 4 /\ -1 \in -rg .. end - 1 /\ n \in -rg .. end - 1 /\ -1 \in -rg .. -1
      /\ 0 .. n - 1 \subseteq -rg .. end - 1
  BY <1>1
<1> QED
  BY <1>2, <1>4, <1>5 DEF n, rg, lines, end

LEMMA FunnyMade ==
  ASSUME NEW q, Screen(q), NeedContext(q.g)
  PROVE  LET b == MakeFunnyPointers(q)
         IN Changes(q, b, {"xbuf"}) /\ Screen(b) /\ Pointing(b, FALSE)
<1> DEFINE b == MakeFunnyPointers(q)
           g == q.g
           Swapped(ci, i) == LET rg == RowGroup(g, ci)
                             IN IF i \in rg * (g.m - 2) .. rg * g.m - 1 THEN i + 2 * rg
                                ELSE IF i \in rg * g.m .. rg * (g.m + 2) - 1 THEN i - 2 * rg ELSE i
           Entry(w, ci, i) ==
             IF i \in 0 .. RowGroup(g, ci) * (g.m + 2) - 1 THEN IF w = 0 THEN i ELSE Swapped(ci, i)
             ELSE IF w = 0 /\ i \in -RowGroup(g, ci) .. -1 THEN 0 ELSE q.xbuf[w][ci][i]
           x == [w \in 0..1 |-> [ci \in Comps(g) |-> [i \in DOMAIN q.xbuf[w][ci] |-> Entry(w, ci, i)]]]
<1>1. DOMAIN q = OutputFields /\ g \in Outputs /\ Lists(q, q.xbuf)
  BY DEF Screen, Lists
<1>2. b = [q EXCEPT !.xbuf = x]
  BY <1>1 DEF MakeFunnyPointers
<1> HIDE DEF b, x
<1>3. Changes(q, b, {"xbuf"}) /\ b.xbuf = x /\ b.g = g
  BY <1>1, <1>2 DEF Changes, OutputFields
<1>4. Lists(q, x)
  <2> HIDE DEF Entry
  <2> QED
    BY <1>1 DEF Lists, x
<1>5. Screen(b)
  BY <1>3, <1>4, ScreenKept
<1>6. ASSUME NEW ci \in Comps(g), NEW w \in 0 .. 1, NEW i \in 0 .. Workspace(g, ci) - 1
      PROVE  x[w][ci][i] = Funny(g, ci, w, i)
  <2> DEFINE n == Workspace(g, ci)
             rg == RowGroup(g, ci)
             lines == ImcuLines(g, ci)
  <2>1. i \in DOMAIN q.xbuf[w][ci] /\ i \in 0 .. rg * (g.m + 2) - 1
    <3>1. 0 .. n - 1 \subseteq DOMAIN q.xbuf[w][ci] /\ rg * (g.m + 2) = n
      BY <1>1, ListEnds DEF Lists
    <3> HIDE DEF n, rg
    <3> QED
      BY <3>1 DEF n
  <2>2. x[w][ci][i] = IF w = 0 THEN i ELSE Swapped(ci, i)
    <3> HIDE DEF Swapped
    <3> QED
      BY <2>1 DEF x
  <2>3. /\ rg * (g.m + 2) = n /\ rg * g.m = lines /\ rg * (g.m - 2) = lines - 2 * rg /\ rg \in 1 .. 4
        /\ lines \in Nat \ {0} /\ lines >= 2 * rg /\ n = lines + 2 * rg
    BY <1>1, ListEnds, WorkspaceSize
  <2>4. Swapped(ci, i) = IF i >= lines THEN i - 2 * rg ELSE IF i >= lines - 2 * rg THEN i + 2 * rg ELSE i
    <3>1. Swapped(ci, i) = IF i \in lines - 2 * rg .. lines - 1 THEN i + 2 * rg
                           ELSE IF i \in lines .. n - 1 THEN i - 2 * rg ELSE i
      BY <2>3
    <3>2. i \in 0 .. n - 1
      OBVIOUS
    <3> HIDE DEF n, rg, lines, Swapped
    <3> QED
      BY <2>3, <3>1, <3>2
  <2> QED
    BY <2>2, <2>4 DEF Funny
<1>7. ASSUME NEW ci \in Comps(g) PROVE x[0][ci][-1] = 0
  <2>1. -1 \in DOMAIN q.xbuf[0][ci] /\ -1 \in -RowGroup(g, ci) .. -1
    <3> DEFINE rg == RowGroup(g, ci)
    <3>1. DOMAIN q.xbuf[0][ci] = -rg .. rg * (g.m + 3) - 1
      BY <1>1 DEF Lists
    <3>2. -1 \in -rg .. rg * (g.m + 3) - 1 /\ rg \in 1 .. 4
      BY <1>1, ListEnds
    <3> HIDE DEF rg
    <3> QED
      BY <3>1, <3>2 DEF rg
  <2>2. -1 \notin 0 .. RowGroup(g, ci) * (g.m + 2) - 1
    OBVIOUS
  <2>3. x[0][ci][-1] = Entry(0, ci, -1)
    <3> HIDE DEF Entry
    <3> QED
      BY <2>1 DEF x
  <2> QED
    BY <2>1, <2>2, <2>3
<1>8. Pointing(b, FALSE)
  BY <1>3, <1>6, <1>7 DEF Pointing
<1> QED
  BY <1>3, <1>5, <1>8 DEF b

LEMMA Wraps ==
  ASSUME NEW q, Screen(q), NeedContext(q.g)
  PROVE  LET b == SetWraparoundPointers(q)
         IN /\ Changes(q, b, {"xbuf"}) /\ Screen(b) /\ (Pointing(q, FALSE) => Pointing(b, TRUE))
<1> DEFINE b == SetWraparoundPointers(q)
           g == q.g
           Entry(f, rg, i) == IF i < 0 THEN f[rg * (g.m + 2) + i] ELSE IF i >= rg * (g.m + 2) THEN f[i - rg * (g.m + 2)] ELSE f[i]
           x == [w \in 0..1 |-> [ci \in Comps(g) |->
                  [i \in DOMAIN q.xbuf[w][ci] |-> Entry(q.xbuf[w][ci], RowGroup(g, ci), i)]]]
<1>1. DOMAIN q = OutputFields /\ g \in Outputs /\ Lists(q, q.xbuf)
  BY DEF Screen, Lists
<1>2. b = [q EXCEPT !.xbuf = x]
  BY <1>1 DEF SetWraparoundPointers
<1> HIDE DEF b, x
<1>3. Changes(q, b, {"xbuf"}) /\ b.xbuf = x /\ b.g = g
  BY <1>1, <1>2 DEF Changes, OutputFields
<1>4. Lists(q, x)
  <2> HIDE DEF Entry
  <2> QED
    BY <1>1 DEF Lists, x
<1>5. Screen(b)
  BY <1>3, <1>4, ScreenKept
<1>6. ASSUME NEW ci \in Comps(g), NEW w \in 0 .. 1, Pointing(q, FALSE)
      PROVE  /\ \A i \in 0 .. Workspace(g, ci) - 1 : x[w][ci][i] = Funny(g, ci, w, i)
             /\ x[w][ci][-1] = Funny(g, ci, w, Workspace(g, ci) - 1)
             /\ x[w][ci][Workspace(g, ci)] = Funny(g, ci, w, 0)
  <2> DEFINE n == Workspace(g, ci)
             rg == RowGroup(g, ci)
             f == q.xbuf[w][ci]
  <2>1. /\ n \in Nat \ {0} /\ -1 \in DOMAIN f /\ n \in DOMAIN f /\ 0 .. n - 1 \subseteq DOMAIN f /\ rg * (g.m + 2) = n
    BY <1>1, ListEnds DEF Lists
  <2>2. \A i \in DOMAIN f : x[w][ci][i] = Entry(f, rg, i)
    <3> HIDE DEF Entry
    <3> QED
      BY DEF x
  <2>3. \A i \in DOMAIN f : x[w][ci][i] = IF i < 0 THEN f[n + i] ELSE IF i >= n THEN f[i - n] ELSE f[i]
    BY <2>1, <2>2
  <2>4. \A i \in 0 .. n - 1 : f[i] = Funny(g, ci, w, i)
    BY <1>6 DEF Pointing
  <2> HIDE DEF n, rg, f
  <2>5. \A i \in 0 .. n - 1 : x[w][ci][i] = f[i]
    BY <2>1, <2>3
  <2>6. x[w][ci][-1] = f[n - 1]
    <3>1. n + (-1) = n - 1 /\ -1 < 0
      BY <2>1
    <3> QED
      BY <2>1, <2>3, <3>1
  <2>7. x[w][ci][n] = f[0]
    <3>1. n - n = 0 /\ n >= n /\ ~(n < 0)
      BY <2>1
    <3> QED
      BY <2>1, <2>3, <3>1
  <2>8. n - 1 \in 0 .. n - 1 /\ 0 \in 0 .. n - 1
    BY <2>1
  <2> QED
    BY <2>4, <2>5, <2>6, <2>7, <2>8 DEF n
<1>7. Pointing(q, FALSE) => Pointing(b, TRUE)
  BY <1>3, <1>6 DEF Pointing
<1> QED
  BY <1>3, <1>5, <1>7 DEF b

-----------------------------------------------------------------------------
(***************************************************************************)
(* The row groups in the list in use.                                      *)
(***************************************************************************)
LEMMA GroupLines ==
  ASSUME NEW g \in Outputs, NEW ci \in Comps(g), NEW c \in Nat, NEW u \in Nat
  PROVE  /\ (c * g.m + u) * RowGroup(g, ci) = c * ImcuLines(g, ci) + u * RowGroup(g, ci)
         /\ c * ImcuLines(g, ci) \in Nat /\ u * RowGroup(g, ci) \in Nat
         /\ u < g.m => u * RowGroup(g, ci) + RowGroup(g, ci) <= ImcuLines(g, ci)
         /\ u < g.m - 1 => u * RowGroup(g, ci) + 2 * RowGroup(g, ci) <= ImcuLines(g, ci)
<1> DEFINE rg == RowGroup(g, ci)
           m == g.m
<1>1. rg \in 1 .. 4 /\ m \in Nat \ {0}
  BY Groupings, OutputRates
<1> HIDE DEF rg, m
<1>2. (c * m + u) * rg = c * (rg * m) + u * rg
  BY <1>1
<1>3. c * (rg * m) \in Nat /\ u * rg \in Nat
  BY <1>1
<1>4. ASSUME u < m PROVE u * rg + rg <= rg * m
  <2>1. u + 1 <= m
    BY <1>1, <1>4
  <2>2. (u + 1) * rg <= m * rg
    BY <1>1, <2>1, Smaller
  <2> QED
    BY <1>1, <2>2
<1>5. ASSUME u < m - 1 PROVE u * rg + 2 * rg <= rg * m
  <2>1. u + 2 <= m /\ u + 2 \in Int /\ m \in Int
    BY <1>1, <1>5
  <2>2. (u + 2) * rg <= m * rg
    BY <1>1, <2>1, Smaller
  <2> QED
    BY <1>1, <2>2
<1> QED
  BY <1>2, <1>3, <1>4, <1>5 DEF rg, m, ImcuLines

\* A row group is shown when the lines around it are.
LEMMA GroupOfLines ==
  ASSUME NEW q, q.g \in Outputs, NEW c \in Nat, NEW u \in Nat,
         \A ci \in Comps(q.g) :
           \A e \in u * RowGroup(q.g, ci) - Reach(q.g) .. u * RowGroup(q.g, ci) + RowGroup(q.g, ci) - 1 + Reach(q.g) :
             c * ImcuLines(q.g, ci) + e < DownHeight(q.g, ci) + Reach(q.g) =>
               RowAt(q, q.which, ci, e) = Clamp(c * ImcuLines(q.g, ci) + e, DownHeight(q.g, ci))
  PROVE  ShowsGroup(q, u, c * q.g.m + u)
<1> DEFINE g == q.g
           R == Reach(g)
<1> SUFFICES ASSUME NEW ci \in Comps(g), NEW i \in -R .. RowGroup(g, ci) - 1 + R,
                    (c * g.m + u) * RowGroup(g, ci) + i < DownHeight(g, ci) + R
             PROVE  RowAt(q, q.which, ci, u * RowGroup(g, ci) + i) =
                      Clamp((c * g.m + u) * RowGroup(g, ci) + i, DownHeight(g, ci))
  BY DEF ShowsGroup, ShowsRows
<1> DEFINE rg == RowGroup(g, ci)
           top == c * ImcuLines(g, ci)
           at == u * rg
           e == at + i
           row == (c * g.m + u) * rg
<1>1. row = top + at /\ top \in Nat /\ at \in Nat
  BY GroupLines
<1>2. rg \in 1 .. 4 /\ R \in 0 .. 1
  BY Groupings DEF Reach
<1>3. \A j \in at - R .. at + rg - 1 + R : top + j < DownHeight(g, ci) + R => RowAt(q, q.which, ci, j) = Clamp(top + j, DownHeight(g, ci))
  OBVIOUS
<1>4. row + i < DownHeight(g, ci) + R /\ i \in -R .. rg - 1 + R
  OBVIOUS
<1> HIDE DEF rg, top, at, row, R
<1>5. e \in at - R .. at + rg - 1 + R /\ top + e = row + i
  BY <1>1, <1>2, <1>4
<1>6. RowAt(q, q.which, ci, e) = Clamp(top + e, DownHeight(g, ci))
  BY <1>3, <1>4, <1>5
<1> QED
  BY <1>5, <1>6 DEF rg, top, at, row

\* Without context every row group of the workspace is shown.
LEMMA SimpleGroup ==
  ASSUME NEW q, q.g \in Outputs, ~NeedContext(q.g), NEW c \in Nat, Laid(q, c), NEW u \in 0 .. q.g.m - 1
  PROVE  ShowsGroup(q, u, c * q.g.m + u)
<1> DEFINE g == q.g
<1>1. Reach(g) = 0 /\ u \in Nat /\ u < g.m
  <2>1. g.m \in Nat
    BY OutputRates
  <2> QED
    BY <2>1 DEF Reach
<1>2. ASSUME NEW ci \in Comps(g), NEW e \in u * RowGroup(g, ci) .. u * RowGroup(g, ci) + RowGroup(g, ci) - 1,
             c * ImcuLines(g, ci) + e < DownHeight(g, ci)
      PROVE  RowAt(q, q.which, ci, e) = Clamp(c * ImcuLines(g, ci) + e, DownHeight(g, ci))
  <2> DEFINE rg == RowGroup(g, ci)
             at == u * rg
             lines == ImcuLines(g, ci)
  <2>1. at \in Nat /\ at + rg <= lines /\ rg \in 1 .. 4 /\ lines \in Nat
    BY <1>1, GroupLines, WorkspaceSize
  <2>2. e \in at .. at + rg - 1
    BY <1>2
  <2> HIDE DEF rg, at, lines
  <2>3. e \in -0 .. lines - 1
    BY <2>1, <2>2
  <2> QED
    BY <1>1, <1>2, <2>3 DEF Laid, lines
<1>3. ASSUME NEW ci \in Comps(g),
             NEW e \in u * RowGroup(g, ci) - Reach(g) .. u * RowGroup(g, ci) + RowGroup(g, ci) - 1 + Reach(g),
             c * ImcuLines(g, ci) + e < DownHeight(g, ci) + Reach(g)
      PROVE  RowAt(q, q.which, ci, e) = Clamp(c * ImcuLines(g, ci) + e, DownHeight(g, ci))
  <2> DEFINE rg == RowGroup(g, ci)
             at == u * rg
             h == DownHeight(g, ci)
             top == c * ImcuLines(g, ci)
  <2>1. at \in Nat /\ rg \in 1 .. 4 /\ h \in Nat /\ top \in Nat
    BY <1>1, GroupLines, Groupings, ComponentRows
  <2>2. e \in at - 0 .. at + rg - 1 + 0 /\ top + e < h + 0
    BY <1>1, <1>3
  <2> HIDE DEF rg, at, h, top
  <2>3. e \in at .. at + rg - 1 /\ top + e < h
    BY <2>1, <2>2
  <2> QED
    BY <1>2, <2>3 DEF rg, at, h, top
<1> QED
  BY <1>1, <1>3, GroupOfLines

\* With context all but the last row group of an iMCU row that is not the last one.
LEMMA InnerGroup ==
  ASSUME NEW q, q.g \in Outputs, NeedContext(q.g), NEW c \in Nat, c < ImcuRows(q.g) - 1, Laid(q, c), NEW u \in 0 .. q.g.m - 2
  PROVE  ShowsGroup(q, u, c * q.g.m + u)
<1> DEFINE g == q.g
<1>1. Reach(g) = 1 /\ u \in Nat /\ u < g.m - 1
  <2>1. g.m \in Nat
    BY OutputRates
  <2> QED
    BY <2>1 DEF Reach
<1>2. ASSUME NEW ci \in Comps(g),
             NEW e \in u * RowGroup(g, ci) - Reach(g) .. u * RowGroup(g, ci) + RowGroup(g, ci) - 1 + Reach(g)
      PROVE  RowAt(q, q.which, ci, e) = Clamp(c * ImcuLines(g, ci) + e, DownHeight(g, ci))
  <2> DEFINE rg == RowGroup(g, ci)
             at == u * rg
             h == DownHeight(g, ci)
             lines == ImcuLines(g, ci)
             N == ImcuRows(g)
  <2>1. at \in Nat /\ at + 2 * rg <= lines /\ rg \in 1 .. 4 /\ lines \in Nat \ {0} /\ h \in Nat /\ (N - 1) * lines < h /\ N \in Nat
    BY <1>1, GroupLines, WorkspaceSize, ComponentRows, OutputRows
  <2>2. e \in at - 1 .. at + rg - 1 + 1 /\ c < N - 1
    BY <1>1
  <2> HIDE DEF rg, at, h, lines, N
  <2>3. e \in -1 .. lines - 1
    BY <2>1, <2>2
  <2>4. c * lines + e < h
    <3>1. c + 1 <= N - 1 /\ c + 1 \in Int /\ N - 1 \in Int
      BY <2>1, <2>2
    <3>2. (c + 1) * lines <= (N - 1) * lines
      BY <2>1, <3>1, Smaller
    <3>3. (c + 1) * lines = c * lines + lines /\ c * lines \in Nat /\ (N - 1) * lines \in Int
      BY <2>1
    <3> DEFINE x == c * lines
               y == (N - 1) * lines
               z == (c + 1) * lines
    <3> HIDE DEF x, y, z
    <3>4. z <= y /\ z = x + lines /\ x \in Nat /\ y < h /\ y \in Int
      BY <2>1, <3>2, <3>3 DEF x, y, z
    <3>5. x + e < h
      BY <2>1, <2>3, <3>4
    <3> QED
      BY <3>5 DEF x
  <2> QED
    BY <1>1, <2>3, <2>4 DEF Laid, lines, h
<1> QED
  BY <1>1, <1>2, GroupOfLines

\* The last row group of an iMCU row, when the next one has been decoded.
LEMMA LastGroup ==
  ASSUME NEW q, q.g \in Outputs, NeedContext(q.g), NEW c \in Nat \ {0}, c < ImcuRows(q.g), q.which \in 0 .. 1,
         Laid(q, c), Saved(q, c), Pointing(q, TRUE)
  PROVE  ShowsGroup(q, q.g.m + 1, c * q.g.m - 1)
<1> DEFINE g == q.g
           m == g.m
<1>1. Reach(g) = 1 /\ m \in Nat \ {0} /\ m >= 2
  BY OutputRates, WorkspaceSize DEF Reach
<1> SUFFICES ASSUME NEW ci \in Comps(g), NEW i \in -1 .. RowGroup(g, ci) - 1 + 1
             PROVE  RowAt(q, q.which, ci, (m + 1) * RowGroup(g, ci) + i) =
                      Clamp((c * m - 1) * RowGroup(g, ci) + i, DownHeight(g, ci))
  BY <1>1, Zenon DEF ShowsGroup, ShowsRows
<1> DEFINE rg == RowGroup(g, ci)
           lines == ImcuLines(g, ci)
           n == Workspace(g, ci)
           h == DownHeight(g, ci)
           w == q.which
           N == ImcuRows(g)
           top == c * lines
           e == (m + 1) * rg + i
           row == (c * m - 1) * rg + i
<1>2. /\ rg \in 1 .. 4 /\ lines \in Nat \ {0} /\ n = lines + 2 * rg /\ lines >= 2 * rg /\ lines = rg * m
      /\ h \in Nat \ {0} /\ (N - 1) * lines < h /\ N \in Nat
  BY WorkspaceSize, ComponentRows, OutputRows DEF ImcuLines
<1>3. i \in -1 .. rg /\ c < N /\ w \in 0 .. 1
  <2> HIDE DEF rg
  <2> QED
    BY <1>2 DEF rg
<1> HIDE DEF rg, lines, n, h, w, N, m
<1>4. e = (n - rg) + i /\ row = (top - rg) + i /\ top \in Nat /\ top >= lines
  <2>1. (m + 1) * rg = lines + rg /\ c * (rg * m) = (c * m) * rg /\ (c * m - 1) * rg = (c * m) * rg - rg
    BY <1>1, <1>2
  <2>2. c * lines \in Nat /\ c * lines >= lines
    BY <1>2
  <2> HIDE DEF top
  <2>3. (m + 1) * rg = n - rg /\ (c * m - 1) * rg = top - rg
    BY <1>2, <2>1 DEF top
  <2> QED
    BY <2>2, <2>3 DEF top
<1>5. top < h
  <2>1. c <= N - 1 /\ N - 1 \in Int
    BY <1>2, <1>3
  <2>2. c * lines <= (N - 1) * lines /\ c * lines \in Int /\ (N - 1) * lines \in Int
    BY <1>2, <2>1, Smaller
  <2> DEFINE y == (N - 1) * lines
  <2> HIDE DEF y, top
  <2> QED
    BY <1>2, <2>2 DEF y, top
<1> HIDE DEF top, e, row
<1>6. CASE i < rg
  <2>1. e \in lines .. n - 1 /\ top + e - n = row /\ row \in 0 .. h - 1
    BY <1>2, <1>3, <1>4, <1>5, <1>6
  <2>2. RowAt(q, w, ci, e) = top + e - n
    BY <2>1 DEF Saved, lines, n, top, w
  <2>3. Clamp(row, h) = row
    BY <1>2, <2>1, ClampRow
  <2> QED
    BY <2>1, <2>2, <2>3 DEF e, row, h, w, rg, m
<1>7. CASE ~(i < rg)
  <2>1. e = n /\ row = top /\ 0 \in 0 .. n - 1
    BY <1>2, <1>3, <1>4, <1>7
  <2>2. q.xbuf[w][ci][n] = q.xbuf[w][ci][0]
    BY <1>3, <2>1 DEF Pointing, n
  <2>3. RowAt(q, w, ci, n) = RowAt(q, w, ci, 0)
    BY <2>2, SameEntry
  <2>4. 0 \in -1 .. lines - 1 /\ top + 0 < h /\ top + 0 = top /\ top \in 0 .. h - 1
    BY <1>2, <1>4, <1>5
  <2>5. RowAt(q, w, ci, 0) = Clamp(top + 0, h)
    BY <1>1, <2>4 DEF Laid, lines, top, h, w
  <2> QED
    BY <2>1, <2>3, <2>4, <2>5 DEF e, row, h, w, rg, m
<1> QED
  BY <1>6, <1>7

\* The last iMCU row, after set_bottom_pointers.
LEMMA BottomMade ==
  ASSUME NEW q, Screen(q), NeedContext(q.g), q.which \in 0 .. 1, Laid(q, ImcuRows(q.g) - 1)
  PROVE  LET b == SetBottomPointers(q)
         IN /\ Changes(q, b, {"xbuf", "avail"}) /\ Screen(b) /\ b.avail \in Nat \ {0}
            /\ ((ImcuRows(q.g) - 1) * q.g.m + b.avail) * MaxV(q.g) >= OutputHeight(q.g)
            /\ \A u \in 0 .. b.avail - 1 : ShowsGroup(b, u, (ImcuRows(q.g) - 1) * q.g.m + u)
<1> DEFINE b == SetBottomPointers(q)
           g == q.g
           w == q.which
           left == (RowsLeft(g, 1) - 1) \div RowGroup(g, 1) + 1
           Entry(f, ci, i) ==
             IF i \in RowsLeft(g, ci) .. RowsLeft(g, ci) + 2 * RowGroup(g, ci) - 1 THEN f[RowsLeft(g, ci) - 1] ELSE f[i]
           y == [ci \in Comps(g) |-> [i \in DOMAIN q.xbuf[w][ci] |-> Entry(q.xbuf[w][ci], ci, i)]]
           x == [q.xbuf EXCEPT ![w] = y]
           c == ImcuRows(g) - 1
<1>1. DOMAIN q = OutputFields /\ g \in Outputs /\ Lists(q, q.xbuf) /\ c \in Nat
  <2>1. DOMAIN q = OutputFields /\ g \in Outputs /\ Lists(q, q.xbuf)
    BY DEF Screen, Lists
  <2> QED
    BY <2>1, OutputRows
<1>2. b = [q EXCEPT !.xbuf = x, !.avail = left]
  BY <1>1 DEF SetBottomPointers
<1>3. left \in Nat \ {0} /\ (c * g.m + left) * MaxV(g) >= OutputHeight(g)
  BY <1>1, LastRowGroups
<1> HIDE DEF b, x, y, left
<1>4. /\ Changes(q, b, {"xbuf", "avail"}) /\ b.xbuf = x /\ b.avail = left /\ b.g = g /\ b.which = w /\ b.buf = q.buf
  BY <1>1, <1>2 DEF Changes, OutputFields
<1>5. Lists(q, x) /\ x[w] = y
  <2> HIDE DEF Entry
  <2> QED
    BY <1>1 DEF Lists, x, y
<1>6. Screen(b)
  BY <1>4, <1>5, ScreenKept
<1>7. ASSUME NEW ci \in Comps(g), NEW e \in -1 .. ImcuLines(g, ci), c * ImcuLines(g, ci) + e < DownHeight(g, ci) + 1
      PROVE  RowAt(b, w, ci, e) = Clamp(c * ImcuLines(g, ci) + e, DownHeight(g, ci))
  <2> DEFINE rg == RowGroup(g, ci)
             lines == ImcuLines(g, ci)
             n == Workspace(g, ci)
             h == DownHeight(g, ci)
             L == RowsLeft(g, ci)
             top == c * lines
             f == q.xbuf[w][ci]
  <2>1. /\ rg \in 1 .. 4 /\ lines \in Nat \ {0} /\ n = lines + 2 * rg /\ h \in Nat \ {0} /\ top \in Nat
        /\ L \in 1 .. lines /\ h = top + L
    <3>1. /\ rg \in 1 .. 4 /\ lines \in Nat \ {0} /\ n = lines + 2 * rg /\ h \in Nat \ {0}
          /\ L \in 1 .. lines /\ h = top + L
      BY <1>1, WorkspaceSize, ComponentRows, LeftRows
    <3> HIDE DEF lines, c
    <3>2. top \in Nat
      BY <1>1, <3>1
    <3> QED
      BY <3>1, <3>2
  <2>2. DOMAIN f = -rg .. rg * (g.m + 3) - 1 /\ -1 \in -rg .. rg * (g.m + 3) - 1 /\ 0 .. n - 1 \subseteq -rg .. rg * (g.m + 3) - 1
    BY <1>1, ListEnds DEF Lists
  <2>3. \A i \in DOMAIN f : x[w][ci][i] = Entry(f, ci, i)
    <3> HIDE DEF Entry
    <3> QED
      BY <1>5 DEF y
  <2>4. e \in -1 .. lines /\ top + e < h + 1
    BY <1>7
  <2>5. /\ Reach(g) = 1
        /\ \A j \in -1 .. lines - 1 : top + j < h => RowAt(q, w, ci, j) = Clamp(top + j, h)
    <3>1. Reach(g) = 1
      BY DEF Reach
    <3> QED
      BY <3>1 DEF Laid
  <2> HIDE DEF rg, lines, n, h, L, top, f
  <2>6. e \in DOMAIN f
    <3>1. e = -1 \/ e \in 0 .. n - 1
      BY <2>1, <2>4
    <3> QED
      BY <2>2, <3>1
  <2>7. CASE e < L
    <3>1. x[w][ci][e] = f[e]
      BY <2>1, <2>3, <2>4, <2>6, <2>7 DEF L, rg
    <3>2. RowAt(b, w, ci, e) = RowAt(q, w, ci, e)
      BY <1>4, <3>1, SameEntry DEF f
    <3>3. e \in -1 .. lines - 1 /\ top + e < h
      BY <2>1, <2>4, <2>7
    <3> QED
      BY <2>5, <3>2, <3>3 DEF top, h, lines
  <2>8. CASE ~(e < L)
    <3>1. e = L /\ e \in L .. L + 2 * rg - 1
      BY <2>1, <2>4, <2>8
    <3>2. x[w][ci][e] = f[L - 1]
      BY <2>3, <2>6, <3>1 DEF L, rg
    <3>3. RowAt(b, w, ci, e) = RowAt(q, w, ci, L - 1)
      BY <1>4, <3>2, SameEntry DEF f
    <3>4. L - 1 \in -1 .. lines - 1 /\ top + (L - 1) < h /\ top + (L - 1) \in 0 .. h - 1
      BY <2>1
    <3>5. RowAt(q, w, ci, L - 1) = Clamp(top + (L - 1), h)
      BY <2>5, <3>4
    <3>6. Clamp(top + (L - 1), h) = h - 1 /\ Clamp(top + e, h) = h - 1
      BY <2>1, <3>1, <3>4 DEF Clamp
    <3> QED
      BY <3>3, <3>5, <3>6 DEF top, h, lines
  <2> QED
    BY <2>7, <2>8
<1>8. ASSUME NEW u \in 0 .. b.avail - 1 PROVE ShowsGroup(b, u, c * g.m + u)
  <2>1. u \in Nat /\ u <= left - 1
    BY <1>3, <1>4
  <2> SUFFICES ASSUME NEW ci \in Comps(g),
                      NEW e \in u * RowGroup(g, ci) - 1 .. u * RowGroup(g, ci) + RowGroup(g, ci) - 1 + 1,
                      c * ImcuLines(g, ci) + e < DownHeight(g, ci) + 1
               PROVE  RowAt(b, w, ci, e) = Clamp(c * ImcuLines(g, ci) + e, DownHeight(g, ci))
    <3>1. Reach(g) = 1
      BY DEF Reach
    <3> QED
      BY <1>1, <1>4, <2>1, <3>1, GroupOfLines
  <2> DEFINE rg == RowGroup(g, ci)
             lines == ImcuLines(g, ci)
             h == DownHeight(g, ci)
             top == c * lines
             at == u * rg
  <2>2. rg \in 1 .. 4 /\ lines \in Nat \ {0} /\ h \in Nat \ {0} /\ top \in Nat /\ at \in Nat /\ h - top <= lines
    <3>1. rg \in 1 .. 4 /\ lines \in Nat \ {0} /\ h \in Nat \ {0} /\ RowsLeft(g, ci) \in 1 .. lines /\ h = top + RowsLeft(g, ci)
      BY <1>1, WorkspaceSize, ComponentRows, LeftRows
    <3>2. top \in Nat /\ at \in Nat
      BY <1>1, <2>1, GroupLines
    <3> HIDE DEF rg, lines, h, top, at
    <3> QED
      BY <3>1, <3>2
  <2>3. e \in at - 1 .. at + rg - 1 + 1 /\ top + e < h + 1
    OBVIOUS
  <2> HIDE DEF rg, lines, h, top, at
  <2>4. e \in -1 .. lines
    BY <2>2, <2>3
  <2> QED
    BY <1>7, <2>3, <2>4 DEF lines, h, top
<1> QED
  BY <1>3, <1>4, <1>6, <1>8 DEF b

-----------------------------------------------------------------------------
(***************************************************************************)
(* The main controller.                                                    *)
(***************************************************************************)

\* What it changes itself, and what a call changes.
MainFields == {"buf", "xbuf", "which", "ctx", "avail", "rowgroup", "imcu", "full", "coefRow"}
CallFields == MainFields \cup Handed

\* Row s of the pass is the next one.
AtRow(q, s) == Live(q) /\ s = GroupAt(q) * MaxV(q.g) + Partial(q)

\* s rows of the pass have been shown; as long as there are more the controller is at the next one.
Left(q) == \E s \in 0 .. OutputHeight(q.g) : Handing(q, s) /\ (s < OutputHeight(q.g) => AtRow(q, s))

\* There is room for a row: a dummy pass asks for none.
Room(q, n) == IF q.post = "prepass" THEN n = 0 ELSE n \in Nat /\ q.count < n

LEMMA SameHanding ==
  ASSUME NEW q, NEW b, DOMAIN q = OutputFields, Changes(q, b, MainFields)
  PROVE  /\ \A s : Handing(q, s) => Handing(b, s)
         /\ \A n : Room(q, n) => Room(b, n)
         /\ Partial(b) = Partial(q)
<1>1. b.g = q.g /\ b.count = q.count /\ b.scanline = q.scanline /\ b.post = q.post /\ b.starting = q.starting
      /\ b.nextRow = q.nextRow /\ b.out = q.out /\ b.from = q.from /\ b.defined = q.defined /\ b.whole = q.whole
      /\ b.nextOut = q.nextOut /\ b.spare = q.spare
  BY DEF Changes, OutputFields, MainFields
<1> QED
  BY <1>1 DEF Handing, Storing, InStrip, WholeUpTo, Emitted, Room, Partial

LEMMA RoomForRows ==
  ASSUME NEW q, NEW n, NEW s, Handing(q, s), Room(q, n)
  PROVE  q.post = "prepass" \/ n - q.count \in Nat \ {0}
BY DEF Handing, Room

\* Without rows above it an upsampler does not mind what the main controller does.
LEMMA UpsamplerKept ==
  ASSUME NEW q, NEW b, NEW n, DOMAIN q = OutputFields, Changes(q, b, MainFields), Partial(q) = 0, Upsampling(q, n)
  PROVE  Upsampling(b, n)
<1>1. b.g = q.g /\ b.nextOut = q.nextOut /\ b.spare = q.spare /\ b.toGo = q.toGo
  BY DEF Changes, OutputFields, MainFields
<1>2. Partial(b) = 0
  BY <1>1 DEF Partial
<1> QED
  BY <1>1, <1>2 DEF Upsampling

\* The CTX_PREPARE_FOR_IMCU case: the lists show the row groups that can be shown.
LEMMA Prepares ==
  ASSUME NEW q, Screen(q), Live(q), NeedContext(q.g), q.ctx = "prepare", q.full = TRUE
  PROVE  LET b == PrepareForImcu(q)
         IN /\ Screen(b) /\ Live(b) /\ Changes(q, b, MainFields)
            /\ b.ctx = "process" /\ GroupAt(b) = GroupAt(q) /\ Partial(b) = Partial(q)
<1> DEFINE b == PrepareForImcu(q)
           g == q.g
           N == ImcuRows(g)
           w == [q EXCEPT !.rowgroup = 0, !.avail = g.m - 1, !.ctx = "process"]
<1>1. DOMAIN q = OutputFields /\ g \in Outputs /\ N \in Nat \ {0} /\ g.m \in Nat /\ g.m >= 2 /\ Lists(q, q.xbuf)
  <2>1. DOMAIN q = OutputFields /\ g \in Outputs /\ Lists(q, q.xbuf)
    BY DEF Screen, Lists
  <2>2. 1 \in Comps(g)
    BY <2>1, OutputRates
  <2> QED
    BY <2>1, <2>2, OutputRates, OutputRows, WorkspaceSize
<1>2. /\ q.imcu \in 1 .. N /\ q.coefRow = q.imcu /\ q.which \in 0 .. 1 /\ Upsampling(q, GroupAt(q))
      /\ AtTop(q)
  <2>1. q.imcu \in 0 .. N /\ q.imcu >= 1 /\ q.coefRow = q.imcu /\ q.which \in 0 .. 1 /\ Upsampling(q, GroupAt(q)) /\ ContextMain(q)
    BY DEF Live
  <2>2. AtTop(q)
    BY <2>1 DEF ContextMain
  <2> QED
    BY <1>1, <2>1, <2>2
<1>3. /\ Laid(q, q.imcu - 1) /\ Pointing(q, q.imcu > 1) /\ (q.imcu = 1 => q.which = 0) /\ Partial(q) = 0
  BY <1>2 DEF AtTop
<1> HIDE DEF w
<1>4. /\ Changes(q, w, {"rowgroup", "avail", "ctx"}) /\ w.rowgroup = 0 /\ w.avail = g.m - 1 /\ w.ctx = "process"
  BY <1>1 DEF Changes, OutputFields, w
<1>5. /\ DOMAIN w = OutputFields /\ w.g = g /\ w.buf = q.buf /\ w.xbuf = q.xbuf /\ w.which = q.which /\ w.imcu = q.imcu
      /\ w.full = TRUE /\ w.coefRow = q.coefRow
  BY <1>1, <1>4 DEF Changes, OutputFields
<1>6. Screen(w)
  BY <1>1, <1>4, <1>5, ScreenKept
<1>7. Laid(w, q.imcu - 1) /\ Pointing(w, q.imcu > 1)
  <2>1. \A v, ci, i : RowAt(w, v, ci, i) = RowAt(q, v, ci, i)
    BY <1>5, SameView
  <2> QED
    BY <1>3, <1>5, <2>1 DEF Laid, Pointing
<1>8. ASSUME NEW x, Changes(q, x, MainFields), x.ctx = "process", x.rowgroup = 0, x.full = TRUE, x.imcu = q.imcu, x.which = q.which,
             x.coefRow = q.coefRow, x.g = g, Within(x)
      PROVE  Live(x) /\ GroupAt(x) = GroupAt(q) /\ Partial(x) = Partial(q)
  <2>1. Partial(x) = Partial(q)
    BY <1>1, <1>8, SameHanding
  <2>2. GroupAt(x) = GroupAt(q)
    <3>1. ImcuAt(x) = ImcuAt(q)
      BY <1>8 DEF ImcuAt
    <3> QED
      BY <1>8, <3>1 DEF GroupAt
  <2>3. Upsampling(x, GroupAt(x))
    BY <1>1, <1>2, <1>3, <1>8, <2>2, UpsamplerKept
  <2>4. ContextMain(x)
    BY <1>8 DEF ContextMain
  <2>5. x.imcu \in 0 .. ImcuRows(x.g) /\ x.imcu >= 1 /\ x.coefRow = x.imcu /\ x.which \in 0 .. 1
    BY <1>1, <1>2, <1>8
  <2> QED
    BY <1>8, <2>1, <2>2, <2>3, <2>4, <2>5 DEF Live
<1>9. CASE q.imcu = N
  <2> DEFINE x == SetBottomPointers(w)
  <2>1. b = x
    BY <1>9 DEF PrepareForImcu, w
  <2>2. /\ Changes(w, x, {"xbuf", "avail"}) /\ Screen(x) /\ x.avail \in Nat \ {0}
        /\ ((N - 1) * g.m + x.avail) * MaxV(g) >= OutputHeight(g)
        /\ \A u \in 0 .. x.avail - 1 : ShowsGroup(x, u, (N - 1) * g.m + u)
    <3>1. w.which \in 0 .. 1 /\ Laid(w, ImcuRows(w.g) - 1) /\ NeedContext(w.g)
      BY <1>2, <1>5, <1>7, <1>9
    <3> HIDE DEF x, N
    <3>2. /\ Changes(w, x, {"xbuf", "avail"}) /\ Screen(x) /\ x.avail \in Nat \ {0}
          /\ ((ImcuRows(w.g) - 1) * w.g.m + x.avail) * MaxV(w.g) >= OutputHeight(w.g)
          /\ \A u \in 0 .. x.avail - 1 : ShowsGroup(x, u, (ImcuRows(w.g) - 1) * w.g.m + u)
      BY <1>6, <3>1, BottomMade, Zenon DEF x
    <3> QED
      BY <1>5, <3>2 DEF N
  <2> HIDE DEF x, b
  <2>3. /\ Changes(q, x, MainFields) /\ x.ctx = "process" /\ x.rowgroup = 0 /\ x.full = TRUE /\ x.imcu = q.imcu
        /\ x.which = q.which /\ x.coefRow = q.coefRow /\ x.g = g
    BY <1>1, <1>4, <1>5, <2>2 DEF Changes, OutputFields, MainFields
  <2>4. Within(x)
    <3>1. 0 \in 0 .. x.avail - 1 /\ x.avail \in Nat /\ ~(x.imcu < ImcuRows(x.g))
      BY <1>1, <1>9, <2>2, <2>3
    <3> QED
      BY <1>9, <2>2, <2>3, <3>1 DEF Within
  <2> QED
    BY <1>8, <2>1, <2>2, <2>3, <2>4 DEF b
<1>10. CASE q.imcu # N
  <2>1. b = w
    BY <1>10 DEF PrepareForImcu, w
  <2>2. Changes(q, w, MainFields)
    BY <1>4 DEF Changes, MainFields
  <2>3. q.imcu - 1 \in Nat /\ q.imcu - 1 < N - 1 /\ q.imcu < N /\ 0 \in 0 .. (g.m - 1) - 1 /\ (g.m - 1) - 1 = g.m - 2
        /\ g.m - 1 \in Nat
    BY <1>1, <1>2, <1>10
  <2>4. ASSUME NEW u \in 0 .. (g.m - 1) - 1 PROVE ShowsGroup(w, u, (q.imcu - 1) * g.m + u)
    BY <1>1, <1>5, <1>7, <2>3, InnerGroup
  <2>5. Within(w)
    BY <1>3, <1>4, <1>5, <1>7, <2>3, <2>4 DEF Within
  <2>6. Live(w) /\ GroupAt(w) = GroupAt(q) /\ Partial(w) = Partial(q)
    BY <1>4, <1>5, <1>8, <2>2, <2>5
  <2> HIDE DEF b
  <2> QED
    BY <1>4, <1>6, <2>1, <2>2, <2>6 DEF b
<1> QED
  BY <1>9, <1>10

\* What the postprocessor leaves alone.
LEMMA SameMain ==
  ASSUME NEW q, NEW b, DOMAIN q = OutputFields, Changes(q, b, Handed)
  PROVE  /\ DOMAIN b = OutputFields /\ b.g = q.g /\ b.buf = q.buf /\ b.xbuf = q.xbuf /\ b.which = q.which /\ b.ctx = q.ctx
         /\ b.avail = q.avail /\ b.imcu = q.imcu /\ b.full = q.full /\ b.coefRow = q.coefRow /\ b.post = q.post
         /\ b.scanline = q.scanline /\ b.from = q.from
         /\ \A c : Laid(q, c) => Laid(b, c)
         /\ \A c : Saved(q, c) => Saved(b, c)
         /\ \A x \in BOOLEAN : Pointing(q, x) => Pointing(b, x)
         /\ \A u, n : ShowsGroup(q, u, n) => ShowsGroup(b, u, n)
<1>1. /\ DOMAIN b = OutputFields /\ b.g = q.g /\ b.buf = q.buf /\ b.xbuf = q.xbuf /\ b.which = q.which /\ b.ctx = q.ctx
      /\ b.avail = q.avail /\ b.imcu = q.imcu /\ b.full = q.full /\ b.coefRow = q.coefRow /\ b.post = q.post
      /\ b.scanline = q.scanline /\ b.from = q.from
  BY DEF Changes, Handed, Grown, OutputFields
<1>2. \A v, ci, i : RowAt(b, v, ci, i) = RowAt(q, v, ci, i)
  BY <1>1, SameView
<1>3. \A c : Laid(q, c) => Laid(b, c)
  BY <1>1, <1>2 DEF Laid
<1>4. \A c : Saved(q, c) => Saved(b, c)
  BY <1>1, <1>2 DEF Saved
<1>5. \A x \in BOOLEAN : Pointing(q, x) => Pointing(b, x)
  BY <1>1, SamePointing
<1>6. \A u, n : ShowsGroup(q, u, n) => ShowsGroup(b, u, n)
  BY <1>1, SameGroup
<1> QED
  BY <1>1, <1>3, <1>4, <1>5, <1>6

\* The last row group of an iMCU row waits for the next one: the lists change places.
LEMMA PostponesLast ==
  ASSUME NEW q, Screen(q), NeedContext(q.g), q.imcu \in 1 .. ImcuRows(q.g) - 1, q.coefRow = q.imcu, q.which \in 0 .. 1,
         q.imcu = 1 => q.which = 0, Pointing(q, q.imcu > 1), Laid(q, q.imcu - 1), Partial(q) = 0,
         Upsampling(q, q.imcu * q.g.m - 1), ~RowGroupsLeft(q)
  PROVE  LET b == PostponeLast(q)
         IN /\ Screen(b) /\ Live(b) /\ Changes(q, b, MainFields) /\ GroupAt(b) = q.imcu * q.g.m - 1 /\ Partial(b) = 0
<1> DEFINE b == PostponeLast(q)
           g == q.g
           N == ImcuRows(g)
           r == IF q.imcu = 1 THEN SetWraparoundPointers(q) ELSE q
<1>1. DOMAIN q = OutputFields /\ g \in Outputs /\ N \in Nat \ {0} /\ g.m \in Nat /\ Lists(q, q.xbuf)
  <2>1. DOMAIN q = OutputFields /\ g \in Outputs /\ Lists(q, q.xbuf)
    BY DEF Screen, Lists
  <2> QED
    BY <2>1, OutputRates, OutputRows
<1>2. b = [r EXCEPT !.which = 1 - @, !.full = FALSE, !.rowgroup = q.g.m + 1, !.avail = q.g.m + 2, !.ctx = "postponed"]
  BY DEF PostponeLast
<1>3. /\ Changes(q, r, {"xbuf"}) /\ Screen(r) /\ Pointing(r, TRUE)
  <2>1. CASE q.imcu = 1
    <3>1. (q.imcu > 1) = FALSE /\ r = SetWraparoundPointers(q)
      BY <2>1
    <3>2. Pointing(q, FALSE)
      BY <3>1
    <3> HIDE DEF r
    <3> QED
      BY <3>1, <3>2, Wraps
  <2>2. CASE q.imcu # 1
    <3>1. (q.imcu > 1) = TRUE /\ r = q
      BY <1>1, <2>2
    <3>2. Pointing(q, TRUE)
      BY <3>1
    <3> HIDE DEF r
    <3> QED
      BY <3>1, <3>2 DEF Changes
  <2> QED
    BY <2>1, <2>2
<1>4. /\ DOMAIN r = OutputFields /\ r.g = g /\ r.buf = q.buf /\ r.which = q.which
  <2> HIDE DEF r
  <2> QED
    BY <1>1, <1>3 DEF Changes, OutputFields
<1> HIDE DEF r, b
<1>5. /\ Changes(r, b, {"which", "full", "rowgroup", "avail", "ctx"}) /\ b.which = 1 - q.which /\ b.full = FALSE
      /\ b.rowgroup = g.m + 1 /\ b.avail = g.m + 2 /\ b.ctx = "postponed"
  BY <1>2, <1>4 DEF Changes, OutputFields
<1>6. /\ DOMAIN b = OutputFields /\ b.g = g /\ b.buf = q.buf /\ b.xbuf = r.xbuf /\ b.imcu = q.imcu /\ b.coefRow = q.coefRow
      /\ Changes(q, b, MainFields)
  BY <1>1, <1>3, <1>4, <1>5 DEF Changes, OutputFields, MainFields
<1>7. Screen(b)
  <2>1. Lists(r, b.xbuf)
    BY <1>3, <1>4, <1>6 DEF Screen, Lists
  <2> QED
    BY <1>3, <1>5, <2>1, ScreenKept
<1>8. Pointing(b, TRUE)
  BY <1>3, <1>4, <1>6, SamePointing
<1>9. Saved(b, q.imcu)
  <2> SUFFICES ASSUME NEW ci \in Comps(g), NEW j \in ImcuLines(g, ci) .. Workspace(g, ci) - 1
               PROVE  RowAt(b, b.which, ci, j) = q.imcu * ImcuLines(g, ci) + j - Workspace(g, ci)
    BY <1>6 DEF Saved
  <2> DEFINE rg == RowGroup(g, ci)
             lines == ImcuLines(g, ci)
             n == Workspace(g, ci)
             h == DownHeight(g, ci)
             w == q.which
             c == q.imcu - 1
  <2>1. /\ rg \in 1 .. 4 /\ lines \in Nat \ {0} /\ n = lines + 2 * rg /\ lines >= 2 * rg
        /\ h \in Nat \ {0} /\ (N - 1) * lines < h
    BY <1>1, WorkspaceSize, ComponentRows
  <2>2. c \in Nat /\ q.imcu \in Nat /\ q.imcu <= N - 1 /\ w \in 0 .. 1 /\ 1 - w \in 0 .. 1 /\ j \in lines .. n - 1 /\ Reach(g) = 1
    BY <1>1 DEF Reach
  <2> HIDE DEF rg, lines, n, h, w, N
  <2>3. j \in 0 .. n - 1 /\ j - 2 * rg \in 0 .. lines - 1 /\ j - 2 * rg \in 0 .. n - 1 /\ j - 2 * rg \in -1 .. lines - 1
    BY <2>1, <2>2
  <2>4. b.xbuf[1 - w][ci][j] = Funny(g, ci, 1 - w, j)
    BY <1>6, <1>8, <2>2, <2>3 DEF Pointing, n
  <2>5. Funny(g, ci, 1 - w, j) = Funny(g, ci, w, j - 2 * rg)
    BY <1>1, <2>2, FunnyLists DEF n, lines, rg
  <2>6. q.xbuf[w][ci][j - 2 * rg] = Funny(g, ci, w, j - 2 * rg)
    BY <2>2, <2>3 DEF Pointing, n
  <2>7. RowAt(b, 1 - w, ci, j) = RowAt(q, w, ci, j - 2 * rg)
    BY <1>6, <2>4, <2>5, <2>6, SameEntry
  <2>8. /\ c * lines + (j - 2 * rg) < h /\ c * lines + (j - 2 * rg) \in 0 .. h - 1
        /\ c * lines + (j - 2 * rg) = q.imcu * lines + j - n
    <3>1. q.imcu * lines <= (N - 1) * lines /\ (N - 1) * lines \in Int /\ q.imcu * lines \in Int
      BY <1>1, <2>1, <2>2, Smaller DEF N
    <3>2. c * lines = q.imcu * lines - lines /\ c * lines \in Nat
      BY <2>1, <2>2
    <3> DEFINE x == c * lines
               y == q.imcu * lines
               z == (N - 1) * lines
    <3> HIDE DEF x, y, z, c
    <3>3. y <= z /\ z < h /\ z \in Int /\ y \in Int /\ x = y - lines /\ x \in Nat
      BY <2>1, <3>1, <3>2 DEF x, y, z
    <3>4. x + (j - 2 * rg) < h /\ x + (j - 2 * rg) \in 0 .. h - 1 /\ x + (j - 2 * rg) = y + j - n
      BY <2>1, <2>2, <2>3, <3>3
    <3> QED
      BY <3>4 DEF x, y
  <2>9. RowAt(q, w, ci, j - 2 * rg) = Clamp(c * lines + (j - 2 * rg), h)
    BY <2>2, <2>3, <2>8 DEF Laid, lines, h, w
  <2>10. Clamp(c * lines + (j - 2 * rg), h) = c * lines + (j - 2 * rg)
    BY <2>1, <2>8, ClampRow
  <2> QED
    BY <1>5, <2>7, <2>8, <2>9, <2>10 DEF w, lines, n
<1>10. ImcuAt(b) = q.imcu
  BY <1>5, <1>6 DEF ImcuAt
<1>11. GroupAt(b) = q.imcu * g.m - 1
  <2>1. GroupAt(b) = q.imcu * g.m + ((g.m + 1) - (g.m + 2))
    BY <1>5, <1>6, <1>10 DEF GroupAt
  <2>2. q.imcu \in Nat
    BY <1>1
  <2> QED
    BY <1>1, <2>1, <2>2
<1>12. Partial(b) = 0 /\ Upsampling(b, GroupAt(b))
  BY <1>1, <1>6, <1>11, SameHanding, UpsamplerKept
<1>13. ContextMain(b)
  <2>1. AtLast(b)
    <3>1. b.rowgroup = b.g.m + 1 /\ b.avail = b.g.m + 2
      BY <1>1, <1>5, <1>6
    <3>2. ImcuAt(b) >= 1 /\ Saved(b, ImcuAt(b))
      BY <1>1, <1>9, <1>10
    <3>3. ~b.full
      BY <1>5
    <3> QED
      BY <1>8, <3>1, <3>2, <3>3 DEF AtLast
  <2> QED
    BY <1>5, <2>1 DEF ContextMain
<1>14. b.imcu \in 0 .. ImcuRows(b.g) /\ b.imcu < ImcuRows(b.g) /\ b.which \in 0 .. 1 /\ b.coefRow = b.imcu
  BY <1>1, <1>5, <1>6
<1>15. Live(b)
  BY <1>5, <1>6, <1>12, <1>13, <1>14 DEF Live
<1> QED
  BY <1>6, <1>7, <1>11, <1>12, <1>15 DEF b

\* Every row that is shown ends the call at a row that is left, in the middle of an iMCU row ...
LEMMA ProcessesImcu ==
  ASSUME NEW q, Screen(q), NeedContext(q.g), q.ctx = "process", NEW n, Room(q, n), NEW s, Handing(q, s), AtRow(q, s),
         s < OutputHeight(q.g)
  PROVE  LET b == ProcessImcu(q, n) IN Screen(b) /\ Left(b) /\ Changes(q, b, CallFields)
<1> DEFINE b == ProcessImcu(q, n)
           r == PostProcessData(q, n - q.count)
           g == q.g
           V == MaxV(g)
           H == OutputHeight(g)
           N == ImcuRows(g)
           G == GroupAt(q)
<1>1. DOMAIN q = OutputFields /\ g \in Outputs /\ N \in Nat \ {0} /\ g.m \in Nat \ {0} /\ V \in 1 .. 4 /\ H \in Nat
  BY OutputRates, OutputRows DEF Screen
<1>2. Live(q) /\ s = G * V + Partial(q) /\ Within(q) /\ Upsampling(q, G) /\ q.imcu \in 1 .. N /\ q.coefRow = q.imcu /\ q.which \in 0 .. 1
  <2>1. Live(q) /\ s = G * V + Partial(q)
    BY DEF AtRow
  <2>2. ContextMain(q) /\ Upsampling(q, G) /\ q.imcu \in 0 .. N /\ q.coefRow = q.imcu /\ q.which \in 0 .. 1
    BY <2>1 DEF Live
  <2>3. Within(q)
    BY <2>2 DEF ContextMain
  <2>4. q.full = TRUE /\ q.imcu >= 1
    BY <2>1, <2>3 DEF Live, Within
  <2> QED
    BY <1>1, <2>1, <2>2, <2>3, <2>4
<1>3. G = (q.imcu - 1) * g.m + q.rowgroup /\ q.rowgroup \in 0 .. q.avail - 1 /\ ImcuAt(q) = q.imcu - 1 /\ q.full
  BY <1>2 DEF GroupAt, ImcuAt, Within
<1>4. G \in Nat /\ q.rowgroup \in Nat
  <2>1. q.imcu - 1 \in Nat /\ q.rowgroup \in Nat
    BY <1>1, <1>2, <1>3
  <2> HIDE DEF G
  <2> QED
    BY <1>1, <1>3, <2>1
<1>5. Supplied(q, G)
  <2>1. ShowsGroup(q, q.rowgroup, G)
    BY <1>2, <1>3 DEF Within
  <2> HIDE DEF G
  <2> QED
    BY <1>1, <1>2, <1>4, <2>1 DEF Supplied
<1>6. Posts(q, r, G)
  <2> HIDE DEF r, G
  <2>1. q.post = "prepass" \/ n - q.count \in Nat \ {0}
    BY RoomForRows
  <2> QED
    BY <1>2, <1>4, <1>5, <2>1, PostRows DEF r
<1>7. b = PostponeLast(r)
  BY DEF ProcessImcu
<1> HIDE DEF b, r, G
<1>8. Changes(q, r, Handed) /\ Screen(r)
  BY <1>6 DEF Posts
<1>9. /\ DOMAIN r = OutputFields /\ r.g = g /\ r.which = q.which /\ r.ctx = q.ctx /\ r.avail = q.avail /\ r.imcu = q.imcu
      /\ r.full = q.full /\ r.coefRow = q.coefRow
  BY <1>1, <1>8, SameMain
<1>10. /\ \A u, k : ShowsGroup(q, u, k) => ShowsGroup(r, u, k)
       /\ \A c : Laid(q, c) => Laid(r, c)
       /\ \A x \in BOOLEAN : Pointing(q, x) => Pointing(r, x)
  BY <1>1, <1>8, SameMain
<1>11. Changes(q, r, CallFields)
  BY <1>8 DEF Changes, CallFields
<1>12. r.rowgroup \in {q.rowgroup, q.rowgroup + 1}
  BY <1>6 DEF Posts
<1>13. PICK k : /\ k \in {G, G + 1} /\ k = (q.imcu - 1) * g.m + r.rowgroup /\ Upsampling(r, k) /\ Handing(r, k * V + Partial(r))
                /\ (k = G + 1 => Partial(r) = 0) /\ (k = G + 1 <=> r.rowgroup = q.rowgroup + 1)
  <2>1. CASE r.rowgroup = q.rowgroup /\ Upsampling(r, G) /\ Partial(r) > 0 /\ Handing(r, G * MaxV(q.g) + Partial(r))
    <3>1. G # G + 1 /\ q.rowgroup # q.rowgroup + 1
      BY <1>4
    <3> QED
      BY <1>3, <2>1, <3>1
  <2>2. CASE r.rowgroup = q.rowgroup + 1 /\ Upsampling(r, G + 1) /\ Partial(r) = 0 /\ Handing(r, (G + 1) * MaxV(q.g))
    <3>1. G + 1 = (q.imcu - 1) * g.m + r.rowgroup /\ (G + 1) * V = (G + 1) * V + Partial(r)
      <4>1. q.imcu - 1 \in Nat /\ Partial(r) = 0 /\ r.rowgroup = q.rowgroup + 1
        BY <1>1, <1>2, <2>2
      <4>2. (q.imcu - 1) * g.m \in Nat
        BY <1>1, <4>1
      <4>3. G + 1 = (q.imcu - 1) * g.m + (q.rowgroup + 1)
        BY <1>3, <1>4, <4>2
      <4>4. (G + 1) * V \in Nat
        <5> HIDE DEF V
        <5> QED
          BY <1>1, <1>4
      <4> HIDE DEF V
      <4> QED
        BY <4>1, <4>3, <4>4
    <3> QED
      BY <2>2, <3>1
  <2> QED
    BY <1>6, <2>1, <2>2 DEF Posts
<1> DEFINE t == k * V + Partial(r)
<1>14. t \in 0 .. H
  <2>1. Partial(r) \in Nat /\ t <= H
    <3>1. r.nextOut \in 1 .. V /\ t <= H
      BY <1>9, <1>13 DEF Upsampling
    <3>2. r.nextOut \in Nat
      BY <1>1, <3>1
    <3> QED
      BY <3>1, <3>2 DEF Partial
  <2>2. k \in Nat
    BY <1>4, <1>13
  <2> HIDE DEF V
  <2> QED
    BY <1>1, <2>1, <2>2
<1>15. CASE RowGroupsLeft(r)
  <2>1. b = r
    BY <1>7, <1>15 DEF PostponeLast
  <2>2. r.rowgroup \in 0 .. r.avail - 1
    <3>1. r.rowgroup \in Nat /\ r.rowgroup < r.avail
      BY <1>4, <1>12, <1>15 DEF RowGroupsLeft
    <3>2. r.avail \in Nat
      BY <1>2, <1>9 DEF Within
    <3> QED
      BY <3>1, <3>2
  <2>3. Within(r)
    <3>1. r.full /\ r.avail \in Nat /\ \A u \in 0 .. r.avail - 1 : ShowsGroup(r, u, (r.imcu - 1) * r.g.m + u)
      BY <1>2, <1>9, <1>10 DEF Within
    <3>2. CASE q.imcu < N
      <4>1. /\ q.avail = g.m - 1 /\ (q.imcu = 1 => q.which = 0) /\ Pointing(q, q.imcu > 1) /\ Laid(q, q.imcu - 1)
        BY <1>2, <3>2 DEF Within
      <4>2. Pointing(r, q.imcu > 1) /\ Laid(r, q.imcu - 1)
        <5> DEFINE x == q.imcu > 1
        <5>1. x \in BOOLEAN /\ Pointing(q, x)
          BY <4>1
        <5> HIDE DEF x
        <5>2. Pointing(r, x)
          BY <1>10, <5>1
        <5> QED
          BY <1>10, <4>1, <5>2 DEF x
      <4> QED
        BY <1>9, <2>2, <3>1, <3>2, <4>1, <4>2 DEF Within
    <3>3. CASE ~(q.imcu < N)
      <4>1. ((N - 1) * g.m + q.avail) * V >= H
        BY <1>2, <3>3 DEF Within
      <4> QED
        BY <1>9, <2>2, <3>1, <3>3, <4>1 DEF Within
    <3> QED
      BY <3>2, <3>3
  <2>4. Live(r) /\ GroupAt(r) = k
    <3>1. ImcuAt(r) = q.imcu - 1
      BY <1>3, <1>9 DEF ImcuAt
    <3>2. GroupAt(r) = k
      BY <1>9, <1>13, <3>1 DEF GroupAt
    <3>3. ContextMain(r)
      BY <1>9, <2>3 DEF ContextMain
    <3>4. r.full = TRUE
      BY <1>2, <1>3, <1>9 DEF Live
    <3>5. r.imcu \in 0 .. ImcuRows(r.g) /\ r.imcu >= 1 /\ r.coefRow = r.imcu /\ r.which \in 0 .. 1
      BY <1>1, <1>2, <1>9
    <3> QED
      BY <1>9, <1>13, <3>2, <3>3, <3>4, <3>5 DEF Live
  <2>5. Left(r)
    BY <1>9, <1>13, <1>14, <2>4 DEF Left, AtRow
  <2> QED
    BY <1>8, <1>11, <2>1, <2>5 DEF b
<1>16. CASE ~RowGroupsLeft(r)
  <2>1. r.rowgroup = q.rowgroup + 1 /\ r.rowgroup = q.avail /\ q.avail \in Nat
    <3>1. q.avail \in Nat /\ q.rowgroup \in 0 .. q.avail - 1 /\ ~(r.rowgroup < q.avail)
      BY <1>2, <1>9, <1>16 DEF Within, RowGroupsLeft
    <3> QED
      BY <1>12, <3>1
  <2>2. k = G + 1 /\ Partial(r) = 0
    BY <1>13, <2>1
  <2>3. CASE q.imcu < N
    <3>1. /\ q.avail = g.m - 1 /\ (q.imcu = 1 => q.which = 0) /\ Pointing(q, q.imcu > 1) /\ Laid(q, q.imcu - 1)
      BY <1>2, <2>3 DEF Within
    <3>2. Pointing(r, r.imcu > 1) /\ Laid(r, r.imcu - 1)
      <4> DEFINE x == q.imcu > 1
      <4>1. x \in BOOLEAN /\ Pointing(q, x)
        BY <3>1
      <4> HIDE DEF x
      <4>2. Pointing(r, x)
        BY <1>10, <4>1
      <4> QED
        BY <1>9, <1>10, <3>1, <4>2 DEF x
    <3>3. k = q.imcu * g.m - 1
      <4>1. k = (q.imcu - 1) * g.m + (g.m - 1) /\ q.imcu \in Nat
        BY <1>1, <1>2, <1>13, <2>1, <3>1
      <4> QED
        BY <1>1, <4>1
    <3>4. r.imcu \in 1 .. ImcuRows(r.g) - 1
      BY <1>1, <1>2, <1>9, <2>3
    <3>5. Screen(b) /\ Live(b) /\ Changes(r, b, MainFields) /\ GroupAt(b) = k /\ Partial(b) = 0
      BY <1>2, <1>7, <1>8, <1>9, <1>13, <1>16, <2>2, <3>1, <3>2, <3>3, <3>4, PostponesLast
    <3>6. Handing(b, t) /\ b.g = g /\ Changes(q, b, CallFields)
      <4>1. Handing(b, t)
        BY <1>9, <1>13, <3>5, SameHanding
      <4>2. b.g = g
        BY <1>9, <3>5 DEF Changes, OutputFields, MainFields
      <4>3. Changes(r, b, CallFields)
        BY <3>5 DEF Changes, CallFields
      <4> QED
        BY <1>11, <4>1, <4>2, <4>3, ChangesAfter
    <3>7. t = GroupAt(b) * MaxV(b.g) + Partial(b)
      BY <2>2, <3>5, <3>6
    <3> HIDE DEF t
    <3>8. Left(b)
      BY <1>14, <3>5, <3>6, <3>7 DEF Left, AtRow
    <3> QED
      BY <3>5, <3>6, <3>8 DEF b
  <2>4. CASE ~(q.imcu < N)
    <3> DEFINE x == IF r.imcu = 1 THEN SetWraparoundPointers(r) ELSE r
    <3>1. /\ b = [x EXCEPT !.which = 1 - @, !.full = FALSE, !.rowgroup = r.g.m + 1, !.avail = r.g.m + 2, !.ctx = "postponed"]
      BY <1>7, <1>16 DEF PostponeLast
    <3>2. Changes(r, x, {"xbuf"}) /\ Screen(x)
      <4>1. CASE r.imcu = 1
        <5>1. x = SetWraparoundPointers(r)
          BY <4>1
        <5> HIDE DEF x
        <5> QED
          BY <1>8, <1>9, <5>1, Wraps
      <4>2. CASE r.imcu # 1
        <5>1. x = r
          BY <4>2
        <5> HIDE DEF x
        <5> QED
          BY <1>8, <5>1 DEF Changes
      <4> QED
        BY <4>1, <4>2
    <3> HIDE DEF x
    <3>3. DOMAIN x = OutputFields /\ x.g = g
      BY <1>9, <3>2 DEF Changes, OutputFields
    <3>4. Changes(x, b, {"which", "full", "rowgroup", "avail", "ctx"})
      BY <3>1, <3>3 DEF Changes, OutputFields
    <3>5. Changes(r, b, MainFields) /\ b.g = g /\ b.xbuf = x.xbuf
      BY <1>9, <3>2, <3>3, <3>4 DEF Changes, OutputFields, MainFields
    <3>6. Screen(b)
      <4>1. Lists(x, b.xbuf)
        BY <3>2, <3>3, <3>5 DEF Screen, Lists
      <4> QED
        BY <3>2, <3>4, <4>1, ScreenKept
    <3>7. t = H
      <4>1. ((N - 1) * g.m + q.avail) * V >= H
        BY <1>2, <2>4 DEF Within
      <4>2. k = (N - 1) * g.m + q.avail
        <5>1. q.imcu = N
          BY <1>1, <1>2, <2>4
        <5> QED
          BY <1>13, <2>1, <5>1
      <4>3. t = k * V + 0
        BY <2>2
      <4>4. k * V >= H /\ k * V \in Nat
        <5>1. k \in Nat
          BY <1>4, <2>2
        <5> HIDE DEF V, N
        <5> QED
          BY <1>1, <4>1, <4>2, <5>1
      <4> HIDE DEF t, V
      <4>5. t >= H /\ t \in 0 .. H
        BY <1>14, <4>3, <4>4
      <4> QED
        BY <1>1, <4>5
    <3>8. Handing(b, H) /\ Changes(q, b, CallFields)
      <4>1. Handing(b, t)
        BY <1>9, <1>13, <3>5, SameHanding
      <4>2. Changes(r, b, CallFields)
        BY <3>5 DEF Changes, CallFields
      <4> QED
        BY <1>11, <3>7, <4>1, <4>2, ChangesAfter
    <3>9. H \in 0 .. OutputHeight(b.g) /\ ~(H < OutputHeight(b.g))
      BY <1>1, <3>5
    <3>10. Left(b)
      BY <3>8, <3>9 DEF Left
    <3> QED
      BY <3>6, <3>8, <3>10 DEF b
  <2> QED
    BY <2>3, <2>4
<1> QED
  BY <1>15, <1>16

\* ... at its top ...
LEMMA ShowsPrepared ==
  ASSUME NEW q, Screen(q), NeedContext(q.g), q.ctx = "prepare", q.full = TRUE, NEW n, Room(q, n), NEW s, Handing(q, s),
         AtRow(q, s), s < OutputHeight(q.g)
  PROVE  LET b == ProcessImcu(PrepareForImcu(q), n) IN Screen(b) /\ Left(b) /\ Changes(q, b, CallFields)
<1> DEFINE r == PrepareForImcu(q)
           b == ProcessImcu(r, n)
<1>1. DOMAIN q = OutputFields /\ Live(q)
  BY DEF Screen, AtRow
<1>2. Screen(r) /\ Live(r) /\ Changes(q, r, MainFields) /\ r.ctx = "process" /\ GroupAt(r) = GroupAt(q) /\ Partial(r) = Partial(q)
  BY <1>1, Prepares
<1> HIDE DEF r
<1>3. Room(r, n) /\ Handing(r, s)
  BY <1>1, <1>2, SameHanding
<1>4. r.g = q.g /\ Changes(q, r, CallFields)
  BY <1>1, <1>2 DEF Changes, OutputFields, MainFields, CallFields
<1>5. AtRow(r, s)
  BY <1>2, <1>4 DEF AtRow
<1>6. Screen(b) /\ Left(b) /\ Changes(r, b, CallFields)
  BY <1>2, <1>3, <1>4, <1>5, ProcessesImcu
<1> HIDE DEF b
<1>7. Changes(q, b, CallFields)
  BY <1>4, <1>6, ChangesAfter
<1> QED
  BY <1>6, <1>7 DEF b, r

\* ... and at the last row group of the one before, which may leave room for rows of the next one.
LEMMA ShowsPostponed ==
  ASSUME NEW q, Screen(q), NeedContext(q.g), q.ctx = "postponed", q.full = TRUE, NEW n, Room(q, n), NEW s, Handing(q, s),
         AtRow(q, s), s < OutputHeight(q.g)
  PROVE  LET b == PostponedRow(q, n) IN Screen(b) /\ Left(b) /\ Changes(q, b, CallFields)
<1> DEFINE r == PostProcessData(q, n - q.count)
           b == PostponedRow(q, n)
           g == q.g
           V == MaxV(g)
           H == OutputHeight(g)
           N == ImcuRows(g)
           G == GroupAt(q)
           c == q.imcu - 1
<1>1. /\ DOMAIN q = OutputFields /\ g \in Outputs /\ N \in Nat \ {0} /\ g.m \in Nat \ {0} /\ V \in 1 .. 4 /\ H \in Nat
      /\ (N - 1) * (V * g.m) < H
  BY OutputRates, OutputRows DEF Screen
<1>2. /\ Live(q) /\ s = G * V + Partial(q) /\ AtLast(q) /\ Upsampling(q, G) /\ q.imcu \in 1 .. N /\ q.coefRow = q.imcu
      /\ q.which \in 0 .. 1
  <2>1. Live(q) /\ s = G * V + Partial(q)
    BY DEF AtRow
  <2>2. ContextMain(q) /\ Upsampling(q, G) /\ q.imcu \in 0 .. N /\ q.coefRow = q.imcu /\ q.which \in 0 .. 1 /\ q.imcu >= 1
    BY <2>1 DEF Live
  <2>3. AtLast(q)
    BY <2>2 DEF ContextMain
  <2> QED
    BY <1>1, <2>1, <2>2, <2>3
<1>3. /\ c \in Nat \ {0} /\ c < N /\ q.rowgroup = g.m + 1 /\ q.avail = g.m + 2 /\ Pointing(q, TRUE)
      /\ Saved(q, c) /\ Laid(q, c) /\ ImcuAt(q) = c
  <2>1. ImcuAt(q) = c
    BY DEF ImcuAt
  <2>2. /\ ImcuAt(q) >= 1 /\ q.rowgroup = g.m + 1 /\ q.avail = g.m + 2 /\ Pointing(q, TRUE) /\ Saved(q, ImcuAt(q))
        /\ Laid(q, c)
    BY <1>2 DEF AtLast
  <2>3. c \in Nat \ {0} /\ c < N
    BY <1>1, <1>2, <2>1, <2>2
  <2> HIDE DEF c
  <2> QED
    BY <2>1, <2>2, <2>3
<1>4. G = c * g.m - 1 /\ G \in Nat /\ c * g.m \in Nat /\ G + 1 = c * g.m
  <2>1. G = c * g.m + ((g.m + 1) - (g.m + 2))
    BY <1>3 DEF GroupAt
  <2> HIDE DEF c, G
  <2>2. c * g.m \in Nat \ {0} /\ ((g.m + 1) - (g.m + 2)) = -1
    BY <1>1, <1>3
  <2> QED
    BY <2>1, <2>2
<1>5. Supplied(q, G)
  <2>1. ShowsGroup(q, q.rowgroup, G)
    <3> HIDE DEF c, G
    <3> QED
      BY <1>1, <1>2, <1>3, <1>4, LastGroup
  <2>2. q.rowgroup \in Nat
    BY <1>1, <1>3
  <2> HIDE DEF G
  <2> QED
    BY <1>1, <1>2, <2>1, <2>2 DEF Supplied
<1> HIDE DEF G
<1>6. Posts(q, r, G)
  <2> HIDE DEF r
  <2>1. q.post = "prepass" \/ n - q.count \in Nat \ {0}
    BY RoomForRows
  <2> QED
    BY <1>2, <1>4, <1>5, <2>1, PostRows DEF r
<1>7. b = PostponedDone(r, n)
  BY DEF PostponedRow
<1> HIDE DEF b, r
<1>8. Changes(q, r, Handed) /\ Screen(r)
  BY <1>6 DEF Posts
<1>9. /\ DOMAIN r = OutputFields /\ r.g = g /\ r.which = q.which /\ r.ctx = q.ctx /\ r.avail = q.avail /\ r.imcu = q.imcu
      /\ r.full = q.full /\ r.coefRow = q.coefRow /\ r.post = q.post
      /\ Pointing(r, TRUE) /\ Saved(r, c) /\ Laid(r, c)
  <2> HIDE DEF c
  <2>1. Pointing(r, TRUE)
    <3>1. \A x \in BOOLEAN : Pointing(q, x) => Pointing(r, x)
      BY <1>1, <1>8, SameMain
    <3> QED
      BY <1>3, <3>1
  <2> QED
    BY <1>1, <1>3, <1>8, <2>1, SameMain
<1>10. Changes(q, r, CallFields) /\ ImcuAt(r) = c
  BY <1>3, <1>8, <1>9 DEF Changes, CallFields, ImcuAt
<1>11. r.imcu \in 0 .. ImcuRows(r.g) /\ r.imcu >= 1 /\ r.coefRow = r.imcu /\ r.which \in 0 .. 1 /\ r.full = TRUE
  BY <1>1, <1>2, <1>9
<1>12. CASE r.rowgroup = q.rowgroup /\ Upsampling(r, G) /\ Partial(r) > 0 /\ Handing(r, G * MaxV(q.g) + Partial(r))
  <2> DEFINE t == G * V + Partial(r)
  <2>1. b = r
    <3>1. RowGroupsLeft(r)
      BY <1>1, <1>3, <1>9, <1>12 DEF RowGroupsLeft
    <3> QED
      BY <1>7, <3>1 DEF PostponedDone
  <2>2. AtLast(r)
    <3>1. r.imcu - 1 = c /\ ImcuAt(r) >= 1
      <4>1. r.imcu - 1 = c
        BY <1>9
      <4> HIDE DEF c
      <4>2. c >= 1
        BY <1>3
      <4> QED
        BY <1>10, <4>1, <4>2
    <3>2. Saved(r, ImcuAt(r)) /\ Laid(r, r.imcu - 1)
      BY <1>9, <1>10, <3>1
    <3> QED
      BY <1>3, <1>9, <1>12, <3>1, <3>2 DEF AtLast
  <2>3. GroupAt(r) = G
    <3>1. GroupAt(r) = c * g.m + ((g.m + 1) - (g.m + 2)) /\ GroupAt(q) = c * g.m + ((g.m + 1) - (g.m + 2))
      BY <1>3, <1>9, <1>10, <1>12 DEF GroupAt
    <3> QED
      BY <3>1 DEF G
  <2>4. Live(r)
    <3>1. ContextMain(r)
      BY <1>9, <2>2 DEF ContextMain
    <3> QED
      BY <1>9, <1>11, <1>12, <2>3, <3>1 DEF Live
  <2>5. t \in 0 .. H
    <3>1. r.nextOut \in 1 .. V /\ t <= H
      BY <1>9, <1>12 DEF Upsampling
    <3>2. Partial(r) \in Nat
      BY <1>1, <3>1 DEF Partial
    <3> HIDE DEF V
    <3> QED
      BY <1>1, <1>4, <3>1, <3>2
  <2> HIDE DEF t
  <2>6. Left(r)
    BY <1>9, <1>12, <2>3, <2>4, <2>5 DEF Left, AtRow, t
  <2> QED
    BY <1>8, <1>10, <2>1, <2>6 DEF b
<1>13. CASE r.rowgroup = q.rowgroup + 1 /\ Upsampling(r, G + 1) /\ Partial(r) = 0 /\ Handing(r, (G + 1) * MaxV(q.g))
  <2> DEFINE z == [r EXCEPT !.ctx = "prepare"]
             t == (c * g.m) * V
  <2>1. ~RowGroupsLeft(r)
    BY <1>1, <1>3, <1>9, <1>13 DEF RowGroupsLeft
  <2>2. PrepareForImcu(r) = PrepareForImcu(z)
    <3>1. [r EXCEPT !.rowgroup = 0, !.avail = r.g.m - 1, !.ctx = "process"] =
          [z EXCEPT !.rowgroup = 0, !.avail = z.g.m - 1, !.ctx = "process"]
      BY <1>9 DEF OutputFields
    <3>2. z.imcu = r.imcu /\ z.g = r.g
      BY <1>9 DEF OutputFields
    <3> HIDE DEF z
    <3> QED
      BY <3>1, <3>2 DEF PrepareForImcu
  <2>3. b = IF r.count >= n THEN z ELSE ProcessImcu(PrepareForImcu(z), n)
    BY <1>7, <2>1, <2>2 DEF PostponedDone
  <2> HIDE DEF z
  <2>4. Changes(r, z, {"ctx"}) /\ z.ctx = "prepare"
    BY <1>9 DEF Changes, OutputFields, z
  <2>5. /\ DOMAIN z = OutputFields /\ z.g = g /\ z.buf = r.buf /\ z.xbuf = r.xbuf /\ z.which = r.which /\ z.imcu = r.imcu
        /\ z.full = TRUE /\ z.coefRow = r.coefRow /\ z.count = r.count /\ z.post = r.post /\ Changes(r, z, MainFields)
    BY <1>9, <1>11, <2>4 DEF Changes, OutputFields, MainFields
  <2>6. Screen(z)
    <3>1. Lists(r, z.xbuf)
      BY <1>8, <1>9, <2>5 DEF Screen, Lists
    <3> QED
      BY <1>8, <2>4, <3>1, ScreenKept
  <2>7. Changes(q, z, CallFields)
    <3>1. Changes(r, z, CallFields)
      BY <2>5 DEF Changes, CallFields
    <3> QED
      BY <1>10, <3>1, ChangesAfter
  <2>8. Handing(z, t) /\ Partial(z) = 0
    <3>1. Handing(r, t)
      BY <1>4, <1>13
    <3> QED
      BY <1>9, <1>13, <2>5, <3>1, SameHanding
  <2>9. GroupAt(z) = c * g.m
    <3>1. ImcuAt(z) = c
      BY <1>9, <2>5 DEF ImcuAt
    <3>2. GroupAt(z) = c * g.m + 0
      BY <2>4, <2>5, <3>1 DEF GroupAt
    <3> QED
      BY <1>4, <3>2
  <2>10. Upsampling(z, GroupAt(z))
    BY <1>4, <1>9, <1>13, <2>5, <2>9, UpsamplerKept
  <2>11. AtTop(z)
    <3>1. z.imcu > 1 /\ ~(z.imcu <= 1) /\ (z.imcu > 1) = TRUE
      BY <1>1, <1>2, <1>3, <1>9, <2>5
    <3>2. Pointing(z, TRUE)
      BY <1>9, <2>5, SamePointing
    <3>3. Laid(z, c)
      <4>1. \A v, ci, i : RowAt(z, v, ci, i) = RowAt(r, v, ci, i)
        BY <1>9, <2>5, SameView
      <4> QED
        BY <1>9, <2>5, <4>1 DEF Laid
    <3>4. Pointing(z, z.imcu > 1)
      BY <3>1, <3>2
    <3>5. z.imcu - 1 = c
      BY <1>9, <2>5
    <3> QED
      BY <2>5, <2>8, <3>1, <3>3, <3>4, <3>5 DEF AtTop
  <2>12. Live(z)
    <3>1. ContextMain(z)
      BY <2>4, <2>11 DEF ContextMain
    <3>2. z.imcu \in 0 .. ImcuRows(z.g) /\ z.imcu >= 1 /\ z.coefRow = z.imcu /\ z.which \in 0 .. 1
      BY <1>9, <1>11, <2>5
    <3> QED
      BY <2>5, <2>10, <3>1, <3>2 DEF Live
  <2>13. t \in Nat /\ t < H
    <3>1. c <= N - 1 /\ c \in Int /\ N - 1 \in Int /\ V * g.m \in Nat \ {0}
      <4> HIDE DEF V, N
      <4> QED
        BY <1>1, <1>3
    <3>2. c * (V * g.m) <= (N - 1) * (V * g.m)
      BY <3>1, Smaller
    <3>3. (c * g.m) * V = c * (V * g.m) /\ (c * g.m) * V \in Nat
      <4> HIDE DEF V, c
      <4> QED
        BY <1>1, <1>3
    <3> DEFINE y == (N - 1) * (V * g.m)
    <3>4. y \in Int
      <4> HIDE DEF N, V
      <4> QED
        BY <3>1
    <3> HIDE DEF y, H
    <3> QED
      BY <1>1, <3>2, <3>3, <3>4 DEF y
  <2> HIDE DEF t
  <2>14. AtRow(z, t)
    <3>1. (c * g.m) * V = (c * g.m) * V + 0
      BY <2>13 DEF t
    <3> QED
      BY <2>5, <2>8, <2>9, <2>12, <3>1 DEF AtRow, t
  <2>15. CASE r.count >= n
    <3>1. b = z
      BY <2>3, <2>15
    <3>2. t \in 0 .. H
      BY <1>1, <2>13
    <3>3. Left(z)
      BY <2>5, <2>8, <2>14, <3>2 DEF Left
    <3> QED
      BY <2>6, <2>7, <3>1, <3>3 DEF b
  <2>16. CASE ~(r.count >= n)
    <3>1. b = ProcessImcu(PrepareForImcu(z), n)
      BY <2>3, <2>16
    <3>2. Room(z, n)
      <4>1. r.count \in Nat
        BY <1>13 DEF Handing
      <4>2. q.post # "prepass" /\ n \in Nat
        BY <2>16, <4>1 DEF Room
      <4> QED
        BY <1>9, <2>5, <2>16, <4>1, <4>2 DEF Room
    <3>3. Screen(b) /\ Left(b) /\ Changes(z, b, CallFields)
      BY <2>4, <2>5, <2>6, <2>8, <2>13, <2>14, <3>1, <3>2, ShowsPrepared
    <3>4. Changes(q, b, CallFields)
      BY <2>7, <3>3, ChangesAfter
    <3> QED
      BY <3>3, <3>4 DEF b
  <2> QED
    BY <2>15, <2>16
<1> QED
  BY <1>6, <1>12, <1>13 DEF Posts

LEMMA ShowsSimple ==
  ASSUME NEW q, Screen(q), ~NeedContext(q.g), q.full = TRUE, NEW n, Room(q, n), NEW s, Handing(q, s), AtRow(q, s),
         s < OutputHeight(q.g)
  PROVE  LET b == ProcessDataSimple(q, n) IN Screen(b) /\ Left(b) /\ Changes(q, b, CallFields)
<1> DEFINE r == PostProcessData(q, n - q.count)
           b == ProcessDataSimple(q, n)
           g == q.g
           V == MaxV(g)
           H == OutputHeight(g)
           N == ImcuRows(g)
           G == GroupAt(q)
           c == q.imcu - 1
<1>1. /\ DOMAIN q = OutputFields /\ g \in Outputs /\ N \in Nat \ {0} /\ g.m \in Nat \ {0} /\ V \in 1 .. 4 /\ H \in Nat
      /\ H <= N * (V * g.m)
  BY OutputRates, OutputRows DEF Screen
<1>2. /\ s = G * V + Partial(q) /\ SimpleMain(q) /\ Upsampling(q, G) /\ q.imcu \in 1 .. N /\ q.coefRow = q.imcu
      /\ q.which \in 0 .. 1
  <2>1. Live(q) /\ s = G * V + Partial(q)
    BY DEF AtRow
  <2>2. SimpleMain(q) /\ Upsampling(q, G) /\ q.imcu \in 0 .. N /\ q.coefRow = q.imcu /\ q.which \in 0 .. 1 /\ q.imcu >= 1
    BY <2>1 DEF Live
  <2> QED
    BY <1>1, <2>1, <2>2
<1>3. c \in Nat /\ q.rowgroup \in 0 .. g.m - 1 /\ q.rowgroup \in Nat /\ Laid(q, c) /\ ImcuAt(q) = c
  <2>1. q.rowgroup \in 0 .. g.m - 1 /\ Laid(q, c)
    BY <1>2 DEF SimpleMain
  <2>2. c \in Nat /\ q.rowgroup \in Nat
    BY <1>1, <1>2, <2>1
  <2>3. ImcuAt(q) = c
    BY DEF ImcuAt
  <2> HIDE DEF c
  <2> QED
    BY <2>1, <2>2, <2>3
<1>4. G = c * g.m + q.rowgroup /\ G \in Nat
  <2>1. G = c * g.m + q.rowgroup
    BY <1>3 DEF GroupAt
  <2> HIDE DEF c, G
  <2> QED
    BY <1>1, <1>3, <2>1
<1>5. Supplied(q, G)
  <2>1. ShowsGroup(q, q.rowgroup, G)
    <3> HIDE DEF c, G
    <3> QED
      BY <1>1, <1>3, <1>4, SimpleGroup
  <2> HIDE DEF G
  <2> QED
    BY <1>1, <1>2, <1>3, <2>1 DEF Supplied
<1> HIDE DEF G
<1>6. Posts(q, r, G)
  <2> HIDE DEF r
  <2>1. q.post = "prepass" \/ n - q.count \in Nat \ {0}
    BY RoomForRows
  <2> QED
    BY <1>2, <1>4, <1>5, <2>1, PostRows DEF r
<1>7. b = MarkEmpty(r)
  BY DEF ProcessDataSimple
<1> HIDE DEF b, r
<1>8. Changes(q, r, Handed) /\ Screen(r)
  BY <1>6 DEF Posts
<1>9. /\ DOMAIN r = OutputFields /\ r.g = g /\ r.which = q.which /\ r.imcu = q.imcu
      /\ r.full = q.full /\ r.coefRow = q.coefRow /\ Laid(r, c)
  <2> HIDE DEF c
  <2> QED
    BY <1>1, <1>3, <1>8, SameMain
<1>10. Changes(q, r, CallFields) /\ ImcuAt(r) = c
  BY <1>8, <1>9 DEF Changes, CallFields, ImcuAt
<1>11. r.imcu \in 0 .. ImcuRows(r.g) /\ r.imcu >= 1 /\ r.coefRow = r.imcu /\ r.which \in 0 .. 1 /\ r.full = TRUE
  BY <1>1, <1>2, <1>9
<1>12. PICK k : /\ k \in {G, G + 1} /\ k = c * g.m + r.rowgroup /\ Upsampling(r, k) /\ Handing(r, k * V + Partial(r))
                /\ (k = G + 1 => Partial(r) = 0) /\ (k = G + 1 <=> r.rowgroup = q.rowgroup + 1)
                /\ r.rowgroup \in {q.rowgroup, q.rowgroup + 1}
  <2>1. CASE r.rowgroup = q.rowgroup /\ Upsampling(r, G) /\ Partial(r) > 0 /\ Handing(r, G * MaxV(q.g) + Partial(r))
    <3>1. G # G + 1 /\ q.rowgroup # q.rowgroup + 1
      BY <1>3, <1>4
    <3> QED
      BY <1>4, <2>1, <3>1
  <2>2. CASE r.rowgroup = q.rowgroup + 1 /\ Upsampling(r, G + 1) /\ Partial(r) = 0 /\ Handing(r, (G + 1) * MaxV(q.g))
    <3>1. G + 1 = c * g.m + r.rowgroup /\ (G + 1) * V = (G + 1) * V + Partial(r)
      <4>1. c * g.m \in Nat
        <5> HIDE DEF c
        <5> QED
          BY <1>1, <1>3
      <4>2. (G + 1) * V \in Nat
        <5> HIDE DEF V
        <5> QED
          BY <1>1, <1>4
      <4> HIDE DEF V, c
      <4> QED
        BY <1>3, <1>4, <2>2, <4>1, <4>2
    <3> QED
      BY <2>2, <3>1
  <2> QED
    BY <1>6, <2>1, <2>2 DEF Posts
<1> DEFINE t == k * V + Partial(r)
<1>13. t \in 0 .. H
  <2>1. r.nextOut \in 1 .. V /\ t <= H
    BY <1>9, <1>12 DEF Upsampling
  <2>2. Partial(r) \in Nat /\ k \in Nat
    BY <1>1, <1>4, <1>12, <2>1 DEF Partial
  <2> HIDE DEF V
  <2> QED
    BY <1>1, <2>1, <2>2
<1>14. CASE ~(r.rowgroup >= g.m)
  <2>1. b = r
    BY <1>7, <1>9, <1>14 DEF MarkEmpty
  <2>2. r.rowgroup \in 0 .. g.m - 1
    BY <1>1, <1>3, <1>12, <1>14
  <2>3. SimpleMain(r)
    BY <1>9, <1>11, <2>2 DEF SimpleMain
  <2>4. GroupAt(r) = k
    BY <1>9, <1>10, <1>12 DEF GroupAt
  <2>5. Live(r)
    BY <1>9, <1>11, <1>12, <2>3, <2>4 DEF Live
  <2>6. Left(r)
    BY <1>9, <1>12, <1>13, <2>4, <2>5 DEF Left, AtRow
  <2> QED
    BY <1>8, <1>10, <2>1, <2>6 DEF b
<1>15. CASE r.rowgroup >= g.m
  <2>1. b = [r EXCEPT !.full = FALSE, !.rowgroup = 0]
    BY <1>7, <1>9, <1>15 DEF MarkEmpty
  <2>2. r.rowgroup = q.rowgroup + 1 /\ r.rowgroup = g.m /\ k = G + 1 /\ Partial(r) = 0
    <3>1. r.rowgroup = q.rowgroup + 1
      BY <1>1, <1>3, <1>12, <1>15
    <3>2. r.rowgroup = g.m
      BY <1>1, <1>3, <1>15, <3>1
    <3> QED
      BY <1>12, <3>1, <3>2
  <2>3. k = q.imcu * g.m
    <3>1. k = c * g.m + g.m /\ q.imcu \in Nat
      BY <1>1, <1>2, <1>12, <2>2
    <3>2. \A x, y \in Nat : (x - 1) * y + y = x * y
      OBVIOUS
    <3>3. g.m \in Nat
      BY <1>1
    <3> QED
      BY <3>1, <3>2, <3>3
  <2>4. Changes(r, b, {"full", "rowgroup"}) /\ b.full = FALSE /\ b.rowgroup = 0
    BY <1>9, <2>1 DEF Changes, OutputFields
  <2>5. /\ b.g = g /\ b.imcu = q.imcu /\ b.coefRow = q.coefRow /\ b.which = q.which /\ Changes(r, b, MainFields)
    BY <1>9, <2>4 DEF Changes, OutputFields, MainFields
  <2>6. Screen(b)
    BY <1>8, <1>9, <2>4, ScreenKept
  <2>7. Changes(q, b, CallFields)
    <3>1. Changes(r, b, CallFields)
      BY <2>5 DEF Changes, CallFields
    <3> QED
      BY <1>10, <3>1, ChangesAfter
  <2>8. Handing(b, t) /\ Partial(b) = 0
    BY <1>9, <1>12, <2>2, <2>5, SameHanding
  <2>9. GroupAt(b) = k
    <3>1. ImcuAt(b) = q.imcu
      BY <2>4, <2>5 DEF ImcuAt
    <3>2. GroupAt(b) = q.imcu * g.m + 0
      BY <2>4, <2>5, <3>1 DEF GroupAt
    <3>3. q.imcu * g.m \in Nat
      BY <1>1, <1>2
    <3> QED
      BY <2>3, <3>2, <3>3
  <2>10. CASE q.imcu < N
    <3>1. Upsampling(b, k)
      BY <1>9, <1>12, <2>2, <2>5, UpsamplerKept
    <3>2. SimpleMain(b)
      <4>1. 0 \in 0 .. g.m - 1
        BY <1>1
      <4> QED
        BY <2>4, <2>5, <4>1 DEF SimpleMain
    <3>3. b.imcu \in 0 .. ImcuRows(b.g) /\ b.imcu < ImcuRows(b.g) /\ b.coefRow = b.imcu /\ b.which \in 0 .. 1
      BY <1>1, <1>2, <2>5, <2>10
    <3>4. Live(b)
      BY <2>4, <2>5, <2>8, <2>9, <3>1, <3>2, <3>3 DEF Live
    <3>5. t = GroupAt(b) * MaxV(b.g) + Partial(b)
      BY <2>2, <2>5, <2>8, <2>9
    <3> HIDE DEF t
    <3>6. Left(b)
      BY <1>13, <2>5, <2>8, <3>4, <3>5 DEF Left, AtRow
    <3> QED
      BY <2>6, <2>7, <3>6 DEF b
  <2>11. CASE ~(q.imcu < N)
    <3>1. t = H
      <4>1. k = N * g.m
        <5>1. q.imcu = N
          BY <1>1, <1>2, <2>11
        <5> QED
          BY <2>3, <5>1
      <4>2. t = k * V + 0
        BY <2>2
      <4>3. k * V \in Nat /\ k * V >= H
        <5> HIDE DEF V, N, H
        <5>1. (N * g.m) * V = N * (V * g.m) /\ (N * g.m) * V \in Nat
          BY <1>1
        <5> QED
          BY <1>1, <4>1, <5>1
      <4> HIDE DEF t, V
      <4>4. t >= H /\ t \in 0 .. H
        BY <1>13, <4>2, <4>3
      <4> QED
        BY <1>1, <4>4
    <3>2. Handing(b, H) /\ H \in 0 .. OutputHeight(b.g) /\ ~(H < OutputHeight(b.g))
      BY <1>1, <2>5, <2>8, <3>1
    <3>3. Left(b)
      BY <3>2 DEF Left
    <3> QED
      BY <2>6, <2>7, <3>3 DEF b
  <2> QED
    BY <2>10, <2>11
<1> QED
  BY <1>14, <1>15

\* process_data: a call ends at a row that is left, whatever the decoder did.
LEMMA ProcessesData ==
  ASSUME NEW q, Screen(q), q.crank = FALSE, NEW n, Room(q, n), NEW s, Handing(q, s), AtRow(q, s),
         s < OutputHeight(q.g), s \in Nat, NEW suspend \in BOOLEAN
  PROVE  LET b == ProcessData(q, n, suspend) IN Screen(b) /\ Left(b) /\ Changes(q, b, CallFields)
<1> DEFINE z == IF q.full THEN q ELSE DecompressData(q, suspend)
           b == ProcessData(q, n, suspend)
<1>1. DOMAIN q = OutputFields /\ Live(q) /\ q.full \in BOOLEAN /\ s = GroupAt(q) * MaxV(q.g) + Partial(q) /\ q.g \in Outputs
  BY DEF Screen, AtRow, Live
<1>2. b = ShowImcuRow(z, n)
  BY DEF ProcessData
<1>3. /\ Screen(z) /\ Live(z) /\ Changes(q, z, MainFields) /\ GroupAt(z) = GroupAt(q) /\ Partial(z) = Partial(q)
  <2>1. CASE q.full = TRUE
    <3>1. z = q
      BY <2>1
    <3> HIDE DEF z
    <3> QED
      BY <1>1, <3>1 DEF Changes
  <2>2. CASE q.full = FALSE
    <3>1. z = DecompressData(q, suspend)
      BY <2>2
    <3> HIDE DEF z
    <3>2. /\ Screen(z) /\ Live(z) /\ Changes(q, z, {"buf", "coefRow", "full", "imcu"}) /\ GroupAt(z) = GroupAt(q)
          /\ Partial(z) = Partial(q)
      BY <1>1, <2>2, <3>1, DecodesLive
    <3> QED
      BY <3>2 DEF Changes, MainFields
  <2> QED
    BY <1>1, <2>1, <2>2
<1> HIDE DEF z, b
<1>4. z.g = q.g /\ DOMAIN z = OutputFields /\ Changes(q, z, CallFields)
  BY <1>1, <1>3 DEF Changes, OutputFields, MainFields, CallFields
<1>5. Room(z, n) /\ Handing(z, s) /\ AtRow(z, s)
  <2>1. Room(z, n) /\ Handing(z, s)
    BY <1>1, <1>3, SameHanding
  <2> QED
    BY <1>1, <1>3, <1>4, <2>1 DEF AtRow
<1>6. z.full \in BOOLEAN /\ s < OutputHeight(z.g) /\ OutputHeight(z.g) \in Nat
  BY <1>1, <1>3, <1>4, OutputRows DEF Live
<1>7. CASE z.full = FALSE
  <2>1. b = z
    BY <1>2, <1>7 DEF ShowImcuRow
  <2>2. s \in 0 .. OutputHeight(z.g)
    BY <1>6
  <2>3. Left(z)
    BY <1>5, <2>2 DEF Left
  <2> QED
    BY <1>3, <1>4, <2>1, <2>3 DEF b
<1>8. CASE z.full = TRUE
  <2>1. Screen(b) /\ Left(b) /\ Changes(z, b, CallFields)
    <3>1. CASE ~NeedContext(z.g)
      <4>1. b = ProcessDataSimple(z, n)
        BY <1>2, <1>8, <3>1 DEF ShowImcuRow
      <4> QED
        BY <1>3, <1>5, <1>6, <1>8, <3>1, <4>1, ShowsSimple
    <3>2. CASE NeedContext(z.g)
      <4>1. b = ProcessDataContext(z, n) /\ ContextMain(z)
        BY <1>2, <1>3, <1>8, <3>2 DEF ShowImcuRow, Live
      <4>2. CASE z.ctx = "postponed"
        <5>1. b = PostponedRow(z, n)
          BY <4>1, <4>2 DEF ProcessDataContext
        <5> QED
          BY <1>3, <1>5, <1>6, <1>8, <3>2, <4>2, <5>1, ShowsPostponed
      <4>3. CASE z.ctx = "prepare"
        <5>1. b = ProcessImcu(PrepareForImcu(z), n)
          BY <4>1, <4>3 DEF ProcessDataContext
        <5> QED
          BY <1>3, <1>5, <1>6, <1>8, <3>2, <4>3, <5>1, ShowsPrepared
      <4>4. CASE z.ctx = "process"
        <5>1. b = ProcessImcu(z, n)
          BY <4>1, <4>4 DEF ProcessDataContext
        <5> QED
          BY <1>3, <1>5, <1>6, <3>2, <4>4, <5>1, ProcessesImcu
      <4> QED
        BY <4>1, <4>2, <4>3, <4>4 DEF ContextMain
    <3> QED
      BY <3>1, <3>2
  <2>2. Changes(q, b, CallFields)
    BY <1>4, <2>1, ChangesAfter
  <2> QED
    BY <2>1, <2>2 DEF b
<1> QED
  BY <1>6, <1>7, <1>8

-----------------------------------------------------------------------------
(***************************************************************************)
(* The calls of the application.                                           *)
(***************************************************************************)

\* What the calls note down themselves.
CallerFields == {"out", "count", "from", "state", "passes"}

LEMMA SameForCaller ==
  ASSUME NEW q, NEW b, DOMAIN q = OutputFields, Changes(q, b, CallerFields \cup {"scanline"})
  PROVE  /\ DOMAIN b = OutputFields /\ b.g = q.g /\ b.crank = q.crank /\ b.dummy = q.dummy /\ b.post = q.post
         /\ (Live(q) => Live(b)) /\ GroupAt(b) = GroupAt(q) /\ Partial(b) = Partial(q)
         /\ (Storing(q) => Storing(b)) /\ (InStrip(q) => InStrip(b))
         /\ b.starting = q.starting /\ b.nextRow = q.nextRow /\ b.defined = q.defined /\ b.whole = q.whole
         /\ \A s : s \in 0 .. OutputHeight(q.g) /\ Screen(q) /\ b.scanline = s => Screen(b)
<1>1. /\ DOMAIN b = OutputFields /\ b.g = q.g /\ b.err = q.err /\ b.crank = q.crank /\ b.dummy = q.dummy /\ b.post = q.post
      /\ b.buf = q.buf /\ b.xbuf = q.xbuf /\ b.which = q.which /\ b.ctx = q.ctx /\ b.avail = q.avail
      /\ b.rowgroup = q.rowgroup /\ b.imcu = q.imcu /\ b.full = q.full /\ b.coefRow = q.coefRow /\ b.color = q.color
      /\ b.nextOut = q.nextOut /\ b.toGo = q.toGo /\ b.spare = q.spare
      /\ b.starting = q.starting /\ b.nextRow = q.nextRow /\ b.defined = q.defined /\ b.whole = q.whole
  BY DEF Changes, OutputFields, CallerFields
<1>2. \A v, ci, i : RowAt(b, v, ci, i) = RowAt(q, v, ci, i)
  BY <1>1, SameView
<1>3. Partial(b) = Partial(q) /\ \A n : Upsampling(q, n) => Upsampling(b, n)
  BY <1>1, SameUpsampling
<1>4. ImcuAt(b) = ImcuAt(q)
  BY <1>1 DEF ImcuAt
<1>5. GroupAt(b) = GroupAt(q)
  BY <1>1, <1>4 DEF GroupAt
<1>6. /\ \A c : Laid(q, c) => Laid(b, c)
      /\ \A c : Saved(q, c) => Saved(b, c)
  BY <1>1, <1>2 DEF Laid, Saved
<1>7. \A u, n : ShowsGroup(q, u, n) => ShowsGroup(b, u, n)
  BY <1>1, SameGroup
<1>8. /\ Pointing(q, TRUE) <=> Pointing(b, TRUE)
      /\ Pointing(q, q.imcu > 1) <=> Pointing(b, q.imcu > 1)
  BY <1>1, SamePointing
<1>9. SimpleMain(q) => SimpleMain(b)
  BY <1>1, <1>6 DEF SimpleMain
<1>10. AtTop(q) => AtTop(b)
  BY <1>1, <1>3, <1>6, <1>8 DEF AtTop
<1>11. Within(q) => Within(b)
  BY <1>1, <1>6, <1>7, <1>8 DEF Within
<1>12. AtLast(q) => AtLast(b)
  BY <1>1, <1>4, <1>6, <1>8 DEF AtLast
<1>13. ContextMain(q) => ContextMain(b)
  BY <1>1, <1>10, <1>11, <1>12 DEF ContextMain
<1>14. Live(q) => Live(b)
  BY <1>1, <1>3, <1>5, <1>9, <1>13 DEF Live
<1>15. (Storing(q) => Storing(b)) /\ (InStrip(q) => InStrip(b))
  BY <1>1 DEF Storing, InStrip, WholeUpTo
<1>16. \A s : s \in 0 .. OutputHeight(q.g) /\ Screen(q) /\ b.scanline = s => Screen(b)
  BY <1>1 DEF Screen
<1> QED
  BY <1>1, <1>3, <1>5, <1>14, <1>15, <1>16

\* b is z, whose call began in the pass of q, after rows have been processed.
WentOn(q, z, b) ==
  /\ Screen(b) /\ Passing(b) /\ Changes(z, b, CallFields \cup {"scanline"})
  /\ IF q.dummy THEN b.out = <<>> ELSE \A i \in DOMAIN b.out : b.out[i] = Upsampled(b.g, b.from + i - 1)

\* A turn of a pass that is not the second one of two.
LEMMA PassGoesOn ==
  ASSUME NEW q, Screen(q), Passing(q), q.scanline < OutputHeight(q.g), NEW z, Changes(q, z, CallerFields), Screen(z),
         z.count = 0, z.out = <<>>, ~q.dummy => z.from = q.scanline, NEW n, IF q.dummy THEN n = 0 ELSE n \in Nat \ {0},
         NEW suspend \in BOOLEAN
  PROVE  WentOn(q, z, Advanced(ProcessData(z, n, suspend)))
<1> DEFINE r == ProcessData(z, n, suspend)
           b == Advanced(r)
           H == OutputHeight(q.g)
           s == q.scanline
<1> SUFFICES /\ Screen(b) /\ Passing(b) /\ Changes(z, b, CallFields \cup {"scanline"})
             /\ IF q.dummy THEN b.out = <<>> ELSE \A i \in DOMAIN b.out : b.out[i] = Upsampled(b.g, b.from + i - 1)
  BY DEF WentOn
<1>1. DOMAIN q = OutputFields /\ q.g \in Outputs /\ H \in Nat /\ s \in Nat
  <2>1. DOMAIN q = OutputFields /\ q.g \in Outputs /\ s \in 0 .. H
    BY DEF Screen
  <2>2. H \in Nat
    BY <2>1, OutputRows
  <2> QED
    BY <2>1, <2>2
<1>2. /\ q.crank = FALSE /\ Live(q) /\ s = GroupAt(q) * MaxV(q.g) + Partial(q)
      /\ IF q.dummy THEN q.post = "prepass" /\ Storing(q) /\ q.starting + q.nextRow = s ELSE q.post \in {"none", "1pass"}
  BY DEF Passing
<1>3. Changes(q, z, CallerFields \cup {"scanline"})
  BY DEF Changes
<1>4. /\ DOMAIN z = OutputFields /\ z.g = q.g /\ z.crank = q.crank /\ z.dummy = q.dummy /\ z.post = q.post
      /\ Live(z) /\ GroupAt(z) = GroupAt(q) /\ Partial(z) = Partial(q) /\ (Storing(q) => Storing(z))
      /\ z.starting = q.starting /\ z.nextRow = q.nextRow
  BY <1>1, <1>2, <1>3, SameForCaller
<1>5. z.scanline = s
  BY <1>1 DEF Changes, OutputFields, CallerFields
<1>6. Handing(z, s)
  <2>1. z.count \in Nat /\ z.scanline + z.count = s
    BY <1>1, <1>5
  <2>2. CASE q.dummy
    BY <1>2, <1>4, <2>1, <2>2 DEF Handing
  <2>3. CASE ~q.dummy
    <3>1. Emitted(z)
      BY DEF Emitted
    <3>2. z.post \in {"none", "1pass"} /\ z.post # "prepass" /\ z.from = z.scanline
      BY <1>2, <1>4, <1>5, <2>3
    <3> QED
      BY <2>1, <3>1, <3>2 DEF Handing
  <2> QED
    BY <2>2, <2>3
<1>7. Room(z, n) /\ AtRow(z, s)
  <2>1. Room(z, n)
    <3>1. CASE q.dummy
      BY <1>2, <1>4, <3>1 DEF Room
    <3>2. CASE ~q.dummy
      BY <1>2, <1>4, <3>2 DEF Room
    <3> QED
      BY <3>1, <3>2
  <2> QED
    BY <1>2, <1>4, <2>1 DEF AtRow
<1>8. Screen(r) /\ Left(r) /\ Changes(z, r, CallFields)
  BY <1>1, <1>2, <1>4, <1>6, <1>7, ProcessesData
<1> HIDE DEF r
<1>9. PICK t \in 0 .. OutputHeight(r.g) : Handing(r, t) /\ (t < OutputHeight(r.g) => AtRow(r, t))
  BY <1>8 DEF Left
<1>10. DOMAIN r = OutputFields /\ r.g = q.g /\ r.crank = FALSE /\ r.dummy = q.dummy /\ r.post = q.post /\ r.scanline = s
  BY <1>2, <1>4, <1>5, <1>8 DEF Changes, OutputFields, CallFields, MainFields, Handed, Grown
<1>11. r.scanline + r.count = t
  BY <1>9 DEF Handing
<1> HIDE DEF b
<1>12. Changes(r, b, {"scanline"}) /\ b.scanline = t
  <2>1. b = [r EXCEPT !.scanline = @ + r.count]
    BY DEF Advanced, b
  <2> QED
    BY <1>10, <1>11, <2>1 DEF Changes, OutputFields
<1>13. Changes(r, b, CallerFields \cup {"scanline"})
  BY <1>12 DEF Changes
<1>14. /\ DOMAIN b = OutputFields /\ b.g = q.g /\ b.crank = FALSE /\ b.dummy = q.dummy /\ b.post = q.post
       /\ (Live(r) => Live(b)) /\ GroupAt(b) = GroupAt(r) /\ Partial(b) = Partial(r)
       /\ (Storing(r) => Storing(b)) /\ b.starting = r.starting /\ b.nextRow = r.nextRow
       /\ Screen(b)
  <2>1. Screen(b)
    <3>1. \A x : x \in 0 .. OutputHeight(r.g) /\ Screen(r) /\ b.scanline = x => Screen(b)
      BY <1>10, <1>13, SameForCaller
    <3> QED
      BY <1>8, <1>9, <1>12, <3>1
  <2>2. /\ DOMAIN b = OutputFields /\ b.g = r.g /\ b.crank = r.crank /\ b.dummy = r.dummy /\ b.post = r.post
        /\ (Live(r) => Live(b)) /\ GroupAt(b) = GroupAt(r) /\ Partial(b) = Partial(r)
        /\ (Storing(r) => Storing(b)) /\ b.starting = r.starting /\ b.nextRow = r.nextRow
    BY <1>10, <1>13, SameForCaller
  <2> QED
    BY <1>10, <2>1, <2>2
<1>15. b.out = r.out /\ b.from = r.from
  BY <1>10, <1>12 DEF Changes, OutputFields
<1>16. b.scanline < OutputHeight(b.g) => Live(b) /\ b.scanline = GroupAt(b) * MaxV(b.g) + Partial(b)
  BY <1>9, <1>10, <1>12, <1>14 DEF AtRow
<1>17. Changes(z, b, CallFields \cup {"scanline"})
  BY <1>8, <1>12 DEF Changes
<1>18. CASE q.dummy
  <2>1. r.post = "prepass"
    BY <1>2, <1>10, <1>18
  <2>2. Storing(r) /\ r.starting + r.nextRow = t /\ r.out = <<>>
    BY <1>9, <2>1 DEF Handing
  <2>3. Passing(b)
    BY <1>10, <1>12, <1>14, <1>16, <1>18, <2>1, <2>2 DEF Passing
  <2> QED
    BY <1>14, <1>15, <1>17, <1>18, <2>2, <2>3
<1>19. CASE ~q.dummy
  <2>1. r.post \in {"none", "1pass"} /\ r.post # "prepass"
    BY <1>2, <1>10, <1>19
  <2>2. Emitted(r)
    BY <1>9, <2>1 DEF Handing
  <2>3. Passing(b)
    BY <1>10, <1>14, <1>16, <1>19, <2>1 DEF Passing
  <2>4. \A i \in DOMAIN b.out : b.out[i] = Upsampled(b.g, b.from + i - 1)
    BY <1>10, <1>14, <1>15, <2>2 DEF Emitted
  <2> QED
    BY <1>14, <1>17, <1>19, <2>3, <2>4
<1> QED
  BY <1>18, <1>19

\* jpeg_read_scanlines
LEMMA ReadsRows ==
  ASSUME NEW q, ScreenRight(q), q.state = "scanning", q.scanline < OutputHeight(q.g), NEW n \in Nat \ {0},
         NEW suspend \in BOOLEAN, StripsFit
  PROVE  ScreenRight(ReadScanlines(q, n, suspend))
<1> DEFINE z == [q EXCEPT !.out = <<>>, !.count = 0, !.from = q.scanline]
           b == ReadScanlines(q, n, suspend)
<1>1. /\ DOMAIN q = OutputFields /\ q.g \in Outputs /\ q.dummy = FALSE /\ Screen(q) /\ (Passing(q) \/ Cranking(q))
      /\ q.scanline \in 0 .. OutputHeight(q.g)
  BY DEF ScreenRight, Screen
<1>2. b = Advanced(ProcessData(z, n, suspend))
  BY DEF ReadScanlines
<1> SUFFICES ScreenRight(b)
  OBVIOUS
<1> HIDE DEF z, b
<1>3. Changes(q, z, CallerFields) /\ z.out = <<>> /\ z.count = 0 /\ z.from = q.scanline
  BY <1>1 DEF Changes, OutputFields, CallerFields, z
<1>4. /\ DOMAIN z = OutputFields /\ z.state = "scanning" /\ z.scanline = q.scanline /\ z.dummy = FALSE /\ z.g = q.g
      /\ z.crank = q.crank /\ z.post = q.post
  BY <1>1 DEF Changes, OutputFields, z
<1>5. Changes(q, z, CallerFields \cup {"scanline"})
  BY <1>3 DEF Changes
<1>6. Screen(z)
  <2>1. \A x : x \in 0 .. OutputHeight(q.g) /\ Screen(q) /\ z.scanline = x => Screen(z)
    BY <1>1, <1>5, SameForCaller
  <2> QED
    BY <1>1, <1>4, <2>1
<1>7. CASE Passing(q)
  <2>1. /\ Screen(b) /\ Passing(b) /\ Changes(z, b, CallFields \cup {"scanline"})
        /\ \A i \in DOMAIN b.out : b.out[i] = Upsampled(b.g, b.from + i - 1)
    <3>1. ~q.dummy /\ (~q.dummy => z.from = q.scanline) /\ IF q.dummy THEN n = 0 ELSE n \in Nat \ {0}
      BY <1>1, <1>3
    <3>2. /\ Screen(b) /\ Passing(b) /\ Changes(z, b, CallFields \cup {"scanline"})
          /\ IF q.dummy THEN b.out = <<>> ELSE \A i \in DOMAIN b.out : b.out[i] = Upsampled(b.g, b.from + i - 1)
      <4>1. z.count = 0 /\ z.out = <<>> /\ q.scanline < OutputHeight(q.g) /\ n \in Nat \ {0} /\ suspend \in BOOLEAN
        BY <1>3
      <4>2. WentOn(q, z, Advanced(ProcessData(z, n, suspend)))
        BY <1>1, <1>3, <1>6, <1>7, <3>1, <4>1, PassGoesOn
      <4> QED
        BY <1>2, <4>2 DEF WentOn
    <3> QED
      BY <3>1, <3>2
  <2>2. b.state = "scanning" /\ b.dummy = FALSE /\ b.g = q.g
    BY <1>4, <2>1 DEF Changes, OutputFields, CallFields, MainFields, Handed, Grown
  <2> QED
    BY <2>1, <2>2 DEF ScreenRight
<1>8. CASE Cranking(q)
  <2> DEFINE r == PostProcessData(z, n)
  <2>1. b = Advanced(r)
    <3>1. z.crank = TRUE /\ n - z.count = n
      BY <1>3, <1>4, <1>8 DEF Cranking
    <3>2. ProcessData(z, n, suspend) = PostProcessData(z, n - z.count)
      BY <3>1 DEF ProcessData
    <3> QED
      BY <1>2, <3>1, <3>2
  <2>2. Cranking(z)
    <3>1. InStrip(z) /\ z.starting = q.starting /\ z.nextRow = q.nextRow /\ z.defined = q.defined /\ z.whole = q.whole
      BY <1>1, <1>5, <1>8, SameForCaller DEF Cranking
    <3> QED
      BY <1>4, <1>8, <3>1 DEF Cranking, WholeUpTo
  <2>3. /\ Changes(z, r, Handed) /\ Screen(r) /\ Emitted(r) /\ InStrip(r)
        /\ r.starting + r.nextRow = z.scanline + r.count /\ z.scanline + r.count \in 0 .. OutputHeight(z.g)
        /\ r.defined >= WholeRows(z.g) /\ WholeUpTo(r, OutputHeight(z.g))
    BY <1>3, <1>4, <1>6, <2>2, CrankShows
  <2> HIDE DEF r
  <2>4. /\ DOMAIN r = OutputFields /\ r.g = q.g /\ r.scanline = z.scanline /\ r.crank = TRUE /\ r.dummy = FALSE
        /\ r.post = "2pass" /\ r.state = "scanning"
    BY <1>4, <2>2, <2>3 DEF Changes, OutputFields, Handed, Grown, Cranking
  <2>5. Changes(r, b, {"scanline"}) /\ b.scanline = z.scanline + r.count
    <3>1. b = [r EXCEPT !.scanline = @ + r.count]
      BY <2>1 DEF Advanced
    <3> QED
      BY <2>4, <3>1 DEF Changes, OutputFields
  <2>6. /\ DOMAIN b = OutputFields /\ b.g = q.g /\ b.crank = TRUE /\ b.dummy = FALSE /\ b.post = "2pass"
        /\ b.state = "scanning" /\ b.out = r.out /\ b.from = r.from /\ b.starting = r.starting
        /\ b.nextRow = r.nextRow /\ b.defined = r.defined /\ b.whole = r.whole
    BY <2>4, <2>5 DEF Changes, OutputFields
  <2>7. Screen(b) /\ InStrip(b)
    <3>1. Changes(r, b, CallerFields \cup {"scanline"})
      BY <2>5 DEF Changes
    <3>2. /\ (InStrip(r) => InStrip(b))
          /\ \A x : x \in 0 .. OutputHeight(r.g) /\ Screen(r) /\ b.scanline = x => Screen(b)
      BY <2>4, <3>1, SameForCaller
    <3> QED
      BY <1>4, <2>3, <2>4, <2>5, <3>2
  <2>8. Cranking(b)
    <3>1. WholeUpTo(b, OutputHeight(b.g))
      BY <1>4, <2>3, <2>4, <2>6 DEF WholeUpTo
    <3>2. b.starting + b.nextRow = b.scanline /\ b.defined >= WholeRows(b.g)
      BY <1>4, <2>3, <2>5, <2>6
    <3> QED
      BY <2>6, <2>7, <3>1, <3>2 DEF Cranking
  <2>9. \A i \in DOMAIN b.out : b.out[i] = Upsampled(b.g, b.from + i - 1)
    BY <2>3, <2>4, <2>6 DEF Emitted
  <2> QED
    BY <2>6, <2>7, <2>8, <2>9 DEF ScreenRight
<1> QED
  BY <1>1, <1>7, <1>8

\* What the virtual array holds when the rows of the first pass are through: all strips.
LEMMA StripsDefined ==
  ASSUME NEW q, Screen(q), Storing(q), q.starting + q.nextRow = OutputHeight(q.g)
  PROVE  q.defined >= WholeRows(q.g)
<1> DEFINE g == q.g
           V == MaxV(g)
           H == OutputHeight(g)
           U == RoundUp(H, V)
<1>1. V \in 1 .. 4 /\ H \in Nat \ {0} /\ q.defined \in Nat
  BY OutputRates, OutputRows DEF Screen
<1>2. U \in Nat \ {0} /\ (U - 1) * V < H
  <2> HIDE DEF V, H
  <2>1. V \in Nat \ {0}
    BY <1>1
  <2> QED
    BY <1>1, <2>1, RoundedBelow
<1>3. PICK k \in Nat : q.starting = k * V
  BY DEF Storing, InStrip
<1>4. /\ q.nextRow \in 0 .. V - 1 /\ NeedFull(g) /\ q.starting + q.nextRow = H
      /\ q.defined >= q.starting + (IF q.nextRow > 0 THEN V ELSE 0)
  BY DEF Storing, InStrip
<1>5. WholeRows(g) = U * V
  BY <1>4 DEF WholeRows
<1> DEFINE top == k + (IF q.nextRow > 0 THEN 1 ELSE 0)
<1> HIDE DEF V, H, U
<1>6. U <= top /\ top \in Nat /\ q.defined >= top * V
  <2>1. CASE q.nextRow > 0
    <3>1. H < (k + 1) * V /\ (k + 1) * V = k * V + V /\ k * V \in Nat
      BY <1>1, <1>3, <1>4
    <3>2. (U - 1) * V < (k + 1) * V
      <4> DEFINE x == (U - 1) * V
                 y == (k + 1) * V
      <4>1. x \in Int /\ y \in Int
        BY <1>1, <1>2
      <4> HIDE DEF x, y
      <4>2. x < H /\ H < y
        BY <1>2, <3>1 DEF x, y
      <4> QED
        BY <1>1, <4>1, <4>2 DEF x, y
    <3>3. U - 1 < k + 1
      <4>1. U - 1 \in Int /\ k + 1 \in Int /\ V \in Nat \ {0}
        BY <1>1, <1>2
      <4> QED
        BY <3>2, <4>1, Smaller
    <3>4. top = k + 1
      BY <2>1
    <3>5. q.defined >= top * V
      BY <1>3, <1>4, <2>1, <3>1, <3>4
    <3> QED
      BY <1>2, <3>3, <3>4, <3>5
  <2>2. CASE ~(q.nextRow > 0)
    <3>1. q.nextRow = 0 /\ top = k
      BY <1>1, <1>4, <2>2
    <3>2. k * V = H
      BY <1>1, <1>3, <1>4, <3>1
    <3>3. U - 1 < k
      <4>1. U - 1 \in Int /\ k \in Int /\ V \in Nat \ {0}
        BY <1>1, <1>2
      <4> QED
        BY <1>2, <3>2, <4>1, Smaller
    <3>4. q.defined >= top * V
      BY <1>1, <1>3, <1>4, <2>2, <3>1, <3>2
    <3> QED
      BY <1>2, <3>1, <3>3, <3>4
  <2> QED
    BY <2>1, <2>2
<1> HIDE DEF top
<1>7. U * V <= top * V /\ U * V \in Nat /\ top * V \in Nat
  <2>1. U \in Int /\ top \in Int /\ V \in Nat \ {0}
    BY <1>1, <1>2, <1>6
  <2> QED
    BY <1>1, <1>2, <1>6, <2>1, Smaller
<1> DEFINE x == U * V
           y == top * V
<1> HIDE DEF x, y
<1>8. q.defined >= y /\ x <= y /\ x \in Nat /\ y \in Nat
  BY <1>6, <1>7 DEF x, y
<1>9. q.defined >= x
  BY <1>1, <1>8
<1> QED
  BY <1>5, <1>9 DEF x, g

\* output_pass_setup, in the loop.
LEMMA PrescansRows ==
  ASSUME NEW q, ScreenRight(q), q.state = "prescan", NEW suspend \in BOOLEAN
  PROVE  ScreenRight(CrankDummyPass(q, suspend))
<1> DEFINE b == CrankDummyPass(q, suspend)
           H == OutputHeight(q.g)
<1>1. /\ DOMAIN q = OutputFields /\ q.g \in Outputs /\ q.dummy \in BOOLEAN /\ Screen(q) /\ (Passing(q) \/ Cranking(q))
      /\ q.scanline \in 0 .. H /\ q.out = <<>> /\ H \in Nat
  <2>1. /\ DOMAIN q = OutputFields /\ q.g \in Outputs /\ q.dummy \in BOOLEAN /\ Screen(q) /\ (Passing(q) \/ Cranking(q))
        /\ q.scanline \in 0 .. H /\ q.out = <<>>
    BY DEF ScreenRight, Screen
  <2> QED
    BY <2>1, OutputRows
<1> SUFFICES ScreenRight(b)
  OBVIOUS
<1>2. CASE q.dummy = FALSE
  <2>1. b = [q EXCEPT !.state = "scanning"]
    BY <1>2 DEF CrankDummyPass
  <2> HIDE DEF b
  <2>2. Changes(q, b, {"state"}) /\ b.state = "scanning"
    BY <1>1, <2>1 DEF Changes, OutputFields
  <2>3. b.scanline = q.scanline /\ b.out = <<>>
    BY <1>1, <2>2 DEF Changes, OutputFields
  <2>4. Changes(q, b, CallerFields \cup {"scanline"})
    BY <2>2 DEF Changes, CallerFields
  <2>5. /\ b.g = q.g /\ b.crank = q.crank /\ b.dummy = q.dummy /\ b.post = q.post
        /\ (Live(q) => Live(b)) /\ GroupAt(b) = GroupAt(q) /\ Partial(b) = Partial(q)
        /\ (InStrip(q) => InStrip(b)) /\ b.starting = q.starting /\ b.nextRow = q.nextRow /\ b.defined = q.defined
        /\ b.whole = q.whole
    BY <1>1, <2>4, SameForCaller
  <2>6. Screen(b)
    <3>1. \A x : x \in 0 .. OutputHeight(q.g) /\ Screen(q) /\ b.scanline = x => Screen(b)
      BY <1>1, <2>4, SameForCaller
    <3> QED
      BY <1>1, <2>3, <3>1
  <2>7. Passing(q) => Passing(b)
    BY <1>2, <2>3, <2>5 DEF Passing
  <2>8. Cranking(q) => Cranking(b)
    BY <1>2, <2>3, <2>5 DEF Cranking, WholeUpTo
  <2>9. \A i \in DOMAIN b.out : b.out[i] = Upsampled(b.g, b.from + i - 1)
    <3>1. \A f : f = <<>> => DOMAIN f = {}
      OBVIOUS
    <3> QED
      BY <2>3, <3>1
  <2> QED
    BY <1>1, <1>2, <2>2, <2>5, <2>6, <2>7, <2>8, <2>9 DEF ScreenRight
<1>3. CASE q.dummy = TRUE
  <2>1. Passing(q) /\ q.post = "prepass" /\ Storing(q) /\ q.starting + q.nextRow = q.scanline
    <3>1. Passing(q)
      BY <1>1, <1>3 DEF Cranking
    <3> QED
      BY <1>3, <3>1 DEF Passing
  <2>2. CASE q.scanline < H
    <3> DEFINE z == [q EXCEPT !.count = 0]
    <3>1. b = Advanced(ProcessData(z, 0, suspend))
      BY <1>3, <2>2 DEF CrankDummyPass
    <3> HIDE DEF z, b
    <3>2. Changes(q, z, CallerFields) /\ z.count = 0 /\ z.out = <<>> /\ z.scanline = q.scanline /\ z.state = "prescan"
          /\ z.dummy = TRUE /\ DOMAIN z = OutputFields
      BY <1>1, <1>3 DEF Changes, OutputFields, CallerFields, z
    <3>3. Screen(z)
      <4>1. Changes(q, z, CallerFields \cup {"scanline"})
        BY <3>2 DEF Changes
      <4>2. \A x : x \in 0 .. OutputHeight(q.g) /\ Screen(q) /\ z.scanline = x => Screen(z)
        BY <1>1, <4>1, SameForCaller
      <4> QED
        BY <1>1, <3>2, <4>2
    <3>4. Screen(b) /\ Passing(b) /\ Changes(z, b, CallFields \cup {"scanline"}) /\ b.out = <<>>
      <4>1. WentOn(q, z, Advanced(ProcessData(z, 0, suspend)))
        BY <1>1, <1>3, <2>1, <2>2, <3>2, <3>3, PassGoesOn
      <4> QED
        BY <1>3, <3>1, <4>1 DEF WentOn
    <3>5. b.state = "prescan" /\ b.dummy = TRUE
      BY <3>2, <3>4 DEF Changes, OutputFields, CallFields, MainFields, Handed, Grown
    <3>6. \A i \in DOMAIN b.out : b.out[i] = Upsampled(b.g, b.from + i - 1)
      <4>1. \A f : f = <<>> => DOMAIN f = {}
        OBVIOUS
      <4> QED
        BY <3>4, <4>1
    <3> QED
      BY <3>4, <3>5, <3>6 DEF ScreenRight
  <2>3. CASE ~(q.scanline < H)
    <3> DEFINE w == [[q EXCEPT !.dummy = FALSE] EXCEPT !.starting = 0, !.nextRow = 0, !.post = "2pass"]
               z == [w EXCEPT !.crank = TRUE]
    <3>1. q.scanline = H /\ NeedFull(q.g) /\ WholeUpTo(q, H) /\ q.defined >= WholeRows(q.g)
      <4>1. q.scanline = H
        BY <1>1, <2>3
      <4> QED
        BY <1>1, <2>1, <4>1, StripsDefined DEF Storing, InStrip
    <3>2. b = [PrepareForOutputPass(q, "none") EXCEPT !.scanline = 0]
      BY <1>3, <2>3 DEF CrankDummyPass
    <3>3. PrepareForOutputPass(q, "none") = StartPassMain(StartPassPost([q EXCEPT !.dummy = FALSE], "2pass"), TRUE)
      BY <1>3 DEF PrepareForOutputPass
    <3>4. StartPassPost([q EXCEPT !.dummy = FALSE], "2pass") = w
      <4>1. NeedFull([q EXCEPT !.dummy = FALSE].g)
        BY <1>1, <3>1 DEF OutputFields
      <4> QED
        BY <4>1 DEF StartPassPost
    <3> HIDE DEF w, b
    <3>5. /\ Changes(q, w, {"dummy", "starting", "nextRow", "post"}) /\ w.dummy = FALSE /\ w.starting = 0
          /\ w.nextRow = 0 /\ w.post = "2pass" /\ DOMAIN w = OutputFields
      BY <1>1 DEF Changes, OutputFields, w
    <3>6. b = [z EXCEPT !.scanline = 0]
      BY <3>2, <3>3, <3>4 DEF StartPassMain
    <3> HIDE DEF z
    <3>7. Changes(w, z, {"crank"}) /\ z.crank = TRUE
      BY <3>5 DEF Changes, OutputFields, z
    <3>8. Changes(z, b, {"scanline"}) /\ b.scanline = 0
      BY <3>5, <3>6, <3>7 DEF Changes, OutputFields
    <3>9. /\ Changes(q, b, {"dummy", "starting", "nextRow", "post", "crank", "scanline"})
          /\ b.dummy = FALSE /\ b.starting = 0 /\ b.nextRow = 0 /\ b.post = "2pass" /\ b.crank = TRUE
      BY <1>1, <3>5, <3>7, <3>8 DEF Changes, OutputFields
    <3>10. /\ DOMAIN b = OutputFields /\ b.g = q.g /\ b.err = q.err /\ b.buf = q.buf /\ b.xbuf = q.xbuf /\ b.out = q.out
           /\ b.whole = q.whole /\ b.defined = q.defined /\ b.state = "prescan"
      BY <1>1, <3>9 DEF Changes, OutputFields
    <3>11. Screen(b)
      <4>1. b.scanline \in 0 .. OutputHeight(b.g)
        BY <1>1, <3>8, <3>10
      <4> QED
        BY <1>1, <3>10, <4>1 DEF Screen
    <3>12. Cranking(b)
      <4>1. MaxV(q.g) \in 1 .. 4
        BY <1>1, OutputRates
      <4>2. 0 \in 0 .. MaxV(q.g) - 1 /\ 0 = 0 * MaxV(q.g) /\ 0 + 0 = 0
        BY <4>1
      <4>3. InStrip(b)
        BY <3>1, <3>9, <3>10, <4>2 DEF InStrip
      <4>4. b.starting + b.nextRow = b.scanline
        BY <3>8, <3>9
      <4> QED
        BY <3>1, <3>9, <3>10, <4>3, <4>4 DEF Cranking, WholeUpTo
    <3>13. \A i \in DOMAIN b.out : b.out[i] = Upsampled(b.g, b.from + i - 1)
      <4>1. \A f : f = <<>> => DOMAIN f = {}
        OBVIOUS
      <4> QED
        BY <1>1, <3>10, <4>1
    <3> QED
      BY <1>1, <3>9, <3>10, <3>11, <3>12, <3>13 DEF ScreenRight
  <2> QED
    BY <2>2, <2>3
<1> QED
  BY <1>1, <1>2, <1>3

\* jpeg_start_output and jpeg_start_decompress: a pass begins.
LEMMA BeginsPass ==
  ASSUME NEW q, ScreenRight(q), q.state = "bufimage", NEW quant \in q.g.quants
  PROVE  ScreenRight(BeginPass(q, quant))
<1> DEFINE g == q.g
           V == MaxV(g)
           H == OutputHeight(g)
           b == BeginPass(q, quant)
           mode == IF quant = "2pass" THEN "prepass" ELSE quant
           w == [q EXCEPT !.dummy = (quant = "2pass"), !.coefRow = 0]
           u == StartPassUpsample(w)
           v == [u EXCEPT !.starting = 0, !.nextRow = 0, !.post = mode]
           x == StartPassPost(u, mode)
           y == IF NeedContext(x.g) THEN MakeFunnyPointers(x) ELSE x
           z == StartPassMain(x, FALSE)
<1>1. /\ DOMAIN q = OutputFields /\ g \in Outputs /\ q.dummy = FALSE /\ Screen(q) /\ H \in Nat \ {0} /\ V \in 1 .. 4
      /\ quant \in {"none", "1pass", "2pass"} /\ q.err = "none" /\ q.defined \in Nat /\ ImcuRows(g) \in Nat \ {0}
      /\ g.m \in Nat \ {0}
  <2>1. DOMAIN q = OutputFields /\ g \in Outputs /\ q.dummy = FALSE /\ Screen(q) /\ q.err = "none" /\ q.defined \in Nat
    BY DEF ScreenRight, Screen
  <2>2. quant \in {"none", "1pass", "2pass"}
    BY <2>1, OutputsAssumption
  <2> QED
    BY <2>1, <2>2, OutputRates, OutputRows
<1>2. b = [z EXCEPT !.scanline = 0, !.state = "prescan", !.passes = @ + 1, !.out = <<>>, !.count = 0]
  <2>1. PrepareForOutputPass(q, quant) = z
    BY <1>1 DEF PrepareForOutputPass
  <2> HIDE DEF z
  <2> QED
    BY <2>1 DEF BeginPass
<1>3. z = [y EXCEPT !.crank = FALSE, !.which = 0, !.ctx = "prepare", !.imcu = 0, !.full = FALSE, !.rowgroup = 0]
  <2> HIDE DEF x
  <2> QED
    BY DEF StartPassMain
<1> SUFFICES ScreenRight(b)
  OBVIOUS
<1> HIDE DEF w, u, v, x, y, z, b, mode
<1>4. Changes(q, w, {"dummy", "coefRow"}) /\ w.coefRow = 0 /\ w.dummy \in BOOLEAN /\ (w.dummy = TRUE <=> quant = "2pass")
  BY <1>1 DEF Changes, OutputFields, w
<1>5. DOMAIN w = OutputFields /\ w.g = g
  BY <1>1, <1>4 DEF Changes, OutputFields
<1>6. Changes(w, u, {"nextOut", "toGo", "spare"}) /\ u.nextOut = V /\ u.toGo = H /\ u.spare = <<>>
  BY <1>5 DEF Changes, OutputFields, u, StartPassUpsample
<1>7. DOMAIN u = OutputFields /\ u.g = g
  BY <1>5, <1>6 DEF Changes, OutputFields
<1>8. Changes(u, v, {"starting", "nextRow", "post"}) /\ v.starting = 0 /\ v.nextRow = 0 /\ v.post = mode
  BY <1>7 DEF Changes, OutputFields, v
<1>9. /\ DOMAIN v = OutputFields /\ v.g = g /\ v.defined = q.defined /\ v.err = q.err
  BY <1>4, <1>5, <1>6, <1>7, <1>8, <1>1 DEF Changes, OutputFields
<1>10. mode \in {"none", "1pass", "prepass"} /\ (mode = "prepass" <=> quant = "2pass") /\ (quant = "2pass" => NeedFull(g))
  BY <1>1 DEF mode, NeedFull
<1>11. Changes(v, x, {"defined"}) /\ x.defined \in Nat
  <2>1. x = IF mode = "1pass" /\ NeedFull(g) THEN AccessStrip(v, TRUE) ELSE v
    <3>1. ~(mode \in {"prepass", "2pass"} /\ ~NeedFull(u.g))
      BY <1>7, <1>10
    <3>2. x = IF mode \in {"prepass", "2pass"} /\ ~NeedFull(u.g) THEN [v EXCEPT !.err = "BAD_BUFFER_MODE"]
              ELSE IF mode = "1pass" /\ NeedFull(u.g) THEN AccessStrip(v, TRUE) ELSE v
      BY DEF x, v, StartPassPost
    <3> QED
      BY <1>7, <3>1, <3>2
  <2>2. CASE mode = "1pass" /\ NeedFull(g)
    <3>1. V <= WholeRows(g) /\ WholeRows(g) \in Nat
      <4>1. 0 * V < H /\ 0 * V + V = V
        BY <1>1
      <4> HIDE DEF V, H
      <4>2. 0 * V + V <= WholeRows(g) /\ WholeRows(g) \in Nat
        BY <1>1, <2>2, <4>1, StripFits DEF V, H
      <4> QED
        BY <4>1, <4>2
    <3>2. v.defined \in Nat /\ v.starting \in Nat /\ MaxV(v.g) \in Nat /\ v.starting + MaxV(v.g) <= WholeRows(v.g)
          /\ WholeRows(v.g) \in Nat /\ v.err = "none" /\ v.starting <= v.defined /\ TRUE \in BOOLEAN
      BY <1>1, <1>8, <1>9, <3>1
    <3>3. x = AccessStrip(v, TRUE)
      BY <2>1, <2>2
    <3> QED
      BY <1>9, <3>2, <3>3, StripAccess
  <2>3. CASE ~(mode = "1pass" /\ NeedFull(g))
    <3>1. x = v
      BY <2>1, <2>3
    <3> QED
      BY <1>1, <1>9, <3>1 DEF Changes
  <2> QED
    BY <2>2, <2>3
<1> DEFINE Began == {"dummy", "coefRow", "nextOut", "toGo", "spare", "starting", "nextRow", "post", "defined"}
<1>12. Changes(q, x, Began)
  <2>1. Changes(q, w, Began) /\ Changes(w, u, Began) /\ Changes(u, v, Began) /\ Changes(v, x, Began)
    BY <1>4, <1>6, <1>8, <1>11 DEF Changes
  <2> HIDE DEF Began
  <2> QED
    BY <2>1, ChangesAfter
<1>13. /\ DOMAIN x = OutputFields /\ x.g = g /\ x.dummy = w.dummy /\ x.coefRow = 0 /\ x.nextOut = V /\ x.toGo = H
       /\ x.spare = <<>> /\ x.starting = 0 /\ x.nextRow = 0 /\ x.post = mode
  <2>1. x.dummy = v.dummy /\ x.coefRow = v.coefRow /\ x.nextOut = v.nextOut /\ x.toGo = v.toGo /\ x.spare = v.spare
        /\ x.starting = 0 /\ x.nextRow = 0 /\ x.post = mode /\ DOMAIN x = OutputFields /\ x.g = g
    BY <1>8, <1>9, <1>11 DEF Changes, OutputFields
  <2>2. v.dummy = u.dummy /\ v.coefRow = u.coefRow /\ v.nextOut = V /\ v.toGo = H /\ v.spare = <<>>
    BY <1>6, <1>7, <1>8 DEF Changes, OutputFields
  <2>3. u.dummy = w.dummy /\ u.coefRow = 0
    BY <1>4, <1>5, <1>6 DEF Changes, OutputFields
  <2> QED
    BY <2>1, <2>2, <2>3
<1>14. Screen(x)
  <2>1. x.err = q.err /\ x.buf = q.buf /\ x.xbuf = q.xbuf /\ x.whole = q.whole /\ x.scanline = q.scanline
    BY <1>1, <1>12 DEF Changes, OutputFields
  <2> QED
    BY <1>1, <1>11, <1>13, <2>1 DEF Screen
<1>15. Screen(y) /\ Changes(x, y, {"xbuf"}) /\ (NeedContext(g) => Pointing(y, FALSE))
  <2>1. CASE NeedContext(g)
    <3>1. y = MakeFunnyPointers(x)
      BY <1>13, <2>1 DEF y
    <3> QED
      BY <1>13, <1>14, <2>1, <3>1, FunnyMade
  <2>2. CASE ~NeedContext(g)
    <3>1. y = x
      BY <1>13, <2>2 DEF y
    <3> QED
      BY <1>14, <2>2, <3>1 DEF Changes
  <2> QED
    BY <2>1, <2>2
<1>16. /\ DOMAIN y = OutputFields /\ y.g = g /\ y.dummy = w.dummy /\ y.coefRow = 0 /\ y.nextOut = V /\ y.toGo = H
       /\ y.spare = <<>> /\ y.starting = 0 /\ y.nextRow = 0 /\ y.post = mode
  BY <1>13, <1>15 DEF Changes, OutputFields
<1>17. /\ Changes(y, z, {"crank", "which", "ctx", "imcu", "full", "rowgroup"})
       /\ z.crank = FALSE /\ z.which = 0 /\ z.ctx = "prepare" /\ z.imcu = 0 /\ z.full = FALSE /\ z.rowgroup = 0
  BY <1>3, <1>16 DEF Changes, OutputFields
<1>18. DOMAIN z = OutputFields
  BY <1>16, <1>17 DEF Changes
<1>19. /\ Changes(z, b, {"scanline", "state", "passes", "out", "count"})
       /\ b.scanline = 0 /\ b.state = "prescan" /\ b.out = <<>>
  BY <1>2, <1>18 DEF Changes, OutputFields
<1>20. /\ DOMAIN b = OutputFields /\ b.crank = FALSE /\ b.which = 0 /\ b.ctx = "prepare" /\ b.imcu = 0 /\ b.full = FALSE
       /\ b.rowgroup = 0
  BY <1>17, <1>18, <1>19 DEF Changes, OutputFields
<1>21. Changes(y, b, {"crank", "which", "ctx", "imcu", "full", "rowgroup", "scanline", "state", "passes", "out", "count"})
  BY <1>17, <1>19 DEF Changes
<1>22. /\ b.g = g /\ b.dummy = w.dummy /\ b.coefRow = 0 /\ b.nextOut = V /\ b.toGo = H
       /\ b.spare = <<>> /\ b.starting = 0 /\ b.nextRow = 0 /\ b.post = mode
       /\ b.err = y.err /\ b.buf = y.buf /\ b.xbuf = y.xbuf /\ b.whole = y.whole /\ b.defined = y.defined
  BY <1>16, <1>21 DEF Changes, OutputFields
<1>23. Screen(b)
  <2>1. b.scanline \in 0 .. OutputHeight(b.g)
    BY <1>1, <1>19, <1>22
  <2> QED
    BY <1>15, <1>16, <1>20, <1>22, <2>1 DEF Screen
<1>24. Partial(b) = 0
  <2>1. ~(V < V)
    BY <1>1
  <2> QED
    BY <1>22, <2>1 DEF Partial
<1>25. GroupAt(b) = 0
  <2>1. ImcuAt(b) = 0 /\ 0 * g.m = 0 /\ 0 + 0 = 0
    BY <1>1, <1>20 DEF ImcuAt
  <2> QED
    BY <1>20, <1>22, <2>1 DEF GroupAt
<1>26. Upsampling(b, 0)
  <2>1. /\ 0 = 0 * MaxV(b.g) + Partial(b) /\ b.nextOut \in 1 .. MaxV(b.g) /\ 0 <= OutputHeight(b.g)
        /\ b.nextOut = MaxV(b.g) /\ b.toGo = OutputHeight(b.g) - 0 /\ ~(Partial(b) > 0) /\ b.spare = <<>>
    BY <1>1, <1>22, <1>24
  <2> QED
    BY <2>1, UpsamplingAt
<1>27. Live(b)
  <2>1. ASSUME NeedContext(g) PROVE ContextMain(b)
    <3>1. Pointing(b, FALSE)
      BY <1>15, <1>16, <1>22, <2>1, SamePointing
    <3>2. (b.imcu > 1) = FALSE
      BY <1>20
    <3>3. Pointing(b, b.imcu > 1)
      BY <3>1, <3>2
    <3>4. AtTop(b)
      BY <1>20, <1>24, <3>3 DEF AtTop
    <3> QED
      BY <1>20, <3>4 DEF ContextMain
  <2>2. SimpleMain(b)
    <3>1. 0 \in 0 .. g.m - 1
      BY <1>1
    <3> QED
      BY <1>20, <1>22, <3>1 DEF SimpleMain
  <2>3. b.imcu \in 0 .. ImcuRows(b.g) /\ b.imcu < ImcuRows(b.g) /\ b.coefRow = b.imcu /\ b.which \in 0 .. 1
    BY <1>1, <1>20, <1>22
  <2> QED
    BY <1>20, <1>22, <1>24, <1>25, <1>26, <2>1, <2>2, <2>3 DEF Live
<1>28. Passing(b)
  <2>1. b.scanline = GroupAt(b) * MaxV(b.g) + Partial(b)
    <3>1. 0 * V + 0 = 0
      BY <1>1
    <3> QED
      BY <1>19, <1>22, <1>24, <1>25, <3>1
  <2>2. CASE b.dummy
    <3>1. quant = "2pass" /\ b.post = "prepass" /\ NeedFull(b.g)
      BY <1>4, <1>10, <1>22, <2>2
    <3>2. InStrip(b)
      <4>1. 0 \in 0 .. MaxV(b.g) - 1 /\ 0 = 0 * MaxV(b.g) /\ 0 \in Nat
        BY <1>1, <1>22
      <4> QED
        BY <1>22, <3>1, <4>1 DEF InStrip
    <3>3. Storing(b)
      <4>1. b.defined >= 0 /\ b.starting + b.nextRow = 0 /\ ~(b.nextRow > 0) /\ b.starting + 0 = 0
        BY <1>22, <1>23 DEF Screen
      <4>2. DOMAIN b.whole = 0 .. WholeRows(b.g) - 1
        BY <1>23 DEF Screen
      <4>3. WholeUpTo(b, 0)
        BY <4>2 DEF WholeUpTo
      <4> QED
        BY <3>2, <4>1, <4>3 DEF Storing
    <3>4. b.starting + b.nextRow = b.scanline
      BY <1>19, <1>22
    <3> QED
      BY <1>20, <1>27, <2>1, <2>2, <3>1, <3>3, <3>4 DEF Passing
  <2>3. CASE ~b.dummy
    <3>1. b.post \in {"none", "1pass"}
      BY <1>4, <1>10, <1>22, <2>3
    <3> QED
      BY <1>20, <1>27, <2>1, <2>3, <3>1 DEF Passing
  <2> QED
    BY <2>2, <2>3
<1>29. \A i \in DOMAIN b.out : b.out[i] = Upsampled(b.g, b.from + i - 1)
  <2>1. \A f : f = <<>> => DOMAIN f = {}
    OBVIOUS
  <2> QED
    BY <1>19, <2>1
<1> QED
  BY <1>4, <1>19, <1>22, <1>23, <1>28, <1>29 DEF ScreenRight

LEMMA BeforePasses ==
  ASSUME NEW g \in Outputs
  PROVE  ScreenRight(NewOutput(g))
<1> DEFINE q == NewOutput(g)
<1>1. g \in Outputs /\ OutputHeight(g) \in Nat
  BY OutputRows
<1>2. /\ DOMAIN q = OutputFields /\ q.g = g /\ q.err = "none" /\ q.state = "bufimage" /\ q.dummy = FALSE /\ q.out = <<>>
      /\ q.scanline = 0 /\ q.defined = 0
  BY DEF NewOutput, OutputFields
<1>3. DOMAIN q.buf = Comps(g) /\ \A ci \in Comps(g) : DOMAIN q.buf[ci] = 0 .. Workspace(g, ci) - 1
  BY DEF NewOutput, Workspace
<1>4. NeedContext(g) => /\ DOMAIN q.xbuf = 0 .. 1
                        /\ \A w \in 0 .. 1 : /\ DOMAIN q.xbuf[w] = Comps(g)
                                             /\ \A ci \in Comps(g) : DOMAIN q.xbuf[w][ci] =
                                                  -RowGroup(g, ci) .. RowGroup(g, ci) * (g.m + 3) - 1
  BY DEF NewOutput
<1>5. DOMAIN q.whole = 0 .. WholeRows(g) - 1
  BY DEF NewOutput
<1> SUFFICES ScreenRight(q)
  OBVIOUS
<1> HIDE DEF q
<1>6. q.defined \in Nat /\ q.scanline \in 0 .. OutputHeight(q.g)
  BY <1>1, <1>2
<1>7. Screen(q)
  BY <1>1, <1>2, <1>3, <1>4, <1>5, <1>6 DEF Screen
<1>8. \A i \in DOMAIN q.out : q.out[i] = Upsampled(q.g, q.from + i - 1)
  <2>1. \A f : f = <<>> => DOMAIN f = {}
    OBVIOUS
  <2> QED
    BY <1>2, <2>1
<1> QED
  BY <1>2, <1>7, <1>8 DEF ScreenRight

\* jpeg_finish_output
LEMMA EndsPass ==
  ASSUME NEW q, ScreenRight(q), q.state = "scanning"
  PROVE  ScreenRight([q EXCEPT !.state = "bufimage", !.out = <<>>, !.count = 0])
<1> DEFINE b == [q EXCEPT !.state = "bufimage", !.out = <<>>, !.count = 0]
<1>1. DOMAIN q = OutputFields /\ Screen(q) /\ q.dummy = FALSE /\ q.scanline \in 0 .. OutputHeight(q.g)
  BY DEF ScreenRight, Screen
<1> SUFFICES ScreenRight(b)
  OBVIOUS
<1>2. Changes(q, b, {"state", "out", "count"}) /\ b.state = "bufimage" /\ b.out = <<>>
  BY <1>1 DEF Changes, OutputFields
<1> HIDE DEF b
<1>3. /\ DOMAIN b = OutputFields /\ b.g = q.g /\ b.err = q.err /\ b.buf = q.buf /\ b.xbuf = q.xbuf /\ b.whole = q.whole
      /\ b.defined = q.defined /\ b.scanline = q.scanline /\ b.dummy = FALSE
  BY <1>1, <1>2 DEF Changes, OutputFields
<1>4. Screen(b)
  BY <1>1, <1>3 DEF Screen
<1>5. \A i \in DOMAIN b.out : b.out[i] = Upsampled(b.g, b.from + i - 1)
  <2>1. \A f : f = <<>> => DOMAIN f = {}
    OBVIOUS
  <2> QED
    BY <1>2, <2>1
<1> QED
  BY <1>2, <1>3, <1>4, <1>5 DEF ScreenRight

(***************************************************************************)
(* In every pass the decompressor is at a row group of the image that its  *)
(* lists of pointers show, or at a strip of the image that the first of    *)
(* two passes has stored.                                                  *)
(***************************************************************************)
THEOREM OutputsRightInvariant ==
  ASSUME StripsFit
  PROVE  Spec => []OutputsRight
<1>1. Init => OutputsRight
  BY BeforePasses DEF Init, OutputsRight
<1>2. OutputsRight /\ [Next]_vars => OutputsRight'
  <2> SUFFICES ASSUME OutputsRight, [Next]_vars
               PROVE  OutputsRight'
    OBVIOUS
  <2>1. CASE StartOutput
    <3>1. PICK quant \in d.g.quants : d' = BeginPass(d, quant)
      BY <2>1 DEF StartOutput
    <3>2. ScreenRight(d) /\ d.state = "bufimage"
      BY <2>1 DEF StartOutput, Working, OutputsRight
    <3>3. ScreenRight(d')
      BY <3>1, <3>2, BeginsPass
    <3> QED
      BY <3>3 DEF OutputsRight
  <2>2. CASE Prescan
    <3>1. PICK suspend \in BOOLEAN : d' = CrankDummyPass(d, suspend)
      BY <2>2 DEF Prescan
    <3>2. ScreenRight(d) /\ d.state = "prescan"
      BY <2>2 DEF Prescan, Working, OutputsRight
    <3>3. ScreenRight(d')
      BY <3>1, <3>2, PrescansRows
    <3> QED
      BY <3>3 DEF OutputsRight
  <2>3. CASE Read
    <3>1. PICK n \in 1 .. MaxRows, suspend \in BOOLEAN : d' = ReadScanlines(d, n, suspend)
      BY <2>3 DEF Read
    <3>2. ScreenRight(d) /\ d.state = "scanning" /\ d.scanline < OutputHeight(d.g)
      BY <2>3 DEF Read, Working, OutputsRight
    <3>3. n \in Nat \ {0}
      BY InputsAssumption
    <3>4. ScreenRight(d')
      BY <3>1, <3>2, <3>3, ReadsRows
    <3> QED
      BY <3>4 DEF OutputsRight
  <2>4. CASE FinishOutput
    <3>1. ScreenRight(d) /\ d.state = "scanning"
      BY <2>4 DEF FinishOutput, Working, OutputsRight
    <3>2. ScreenRight(d')
      BY <2>4, <3>1, EndsPass DEF FinishOutput
    <3> QED
      BY <3>2 DEF OutputsRight
  <2>5. CASE UNCHANGED d
    BY <2>5 DEF OutputsRight
  <2> QED
    BY <2>1, <2>2, <2>3, <2>4, <2>5 DEF Next, Write, vars
<1> QED
  BY <1>1, <1>2, PTL DEF Spec

-----------------------------------------------------------------------------
(***************************************************************************)
(* Whatever the image, its sampling, its upsampler and its quantizer, in   *)
(* every pass, and however the calls were cut and suspended, each row the  *)
(* application gets is made of the right rows of the components, and no    *)
(* more rows come out than the image has; provided no image quantized in   *)
(* two passes has a last strip that the second one stops short of.         *)
(***************************************************************************)
THEOREM RowsShown ==
  ASSUME StripsFit
  PROVE  Spec => []ShownRows
<1>1. OutputsRight => ShownRows
  <2> SUFFICES ASSUME d # NoImage, ScreenRight(d)
               PROVE  /\ d.err = "none" /\ d.scanline <= OutputHeight(d.g)
                      /\ \A i \in DOMAIN d.out : d.out[i] = Upsampled(d.g, d.from + i - 1)
    BY DEF OutputsRight, ShownRows
  <2>1. d.err = "none" /\ d.scanline \in 0 .. OutputHeight(d.g) /\ d.g \in Outputs
    BY DEF ScreenRight, Screen
  <2>2. OutputHeight(d.g) \in Nat
    BY <2>1, OutputRows
  <2> QED
    BY <2>1, <2>2 DEF ScreenRight
<1> QED
  BY <1>1, OutputsRightInvariant, PTL

=============================================================================
