--------------------------- MODULE JpegInputRows ----------------------------
(***************************************************************************)
(* The rows of an image on their way into the JPEG compressor: the main    *)
(* controller (jcmainct.c), the preprocessor (jcprepct.c) and the          *)
(* downsampler (jcsample.c), one operator per C function on the object p.  *)
(*                                                                         *)
(* A sample row of the application is its number in the image.  A row of a *)
(* component is the sequence of the image rows it was made from, the rows  *)
(* of context above and below included.  p.g is the geometry of the image: *)
(* sampling factors h and v by component, height, smoothing.               *)
(***************************************************************************)
EXTENDS Integers, Sequences, FiniteSets, SequencesExt

CONSTANT DctSize     \* DCTSIZE

Least(a, b)    == IF a < b THEN a ELSE b                \* MIN
RoundUp(a, b)  == (a + b - 1) \div b                    \* jdiv_round_up
MaxOf(f)       == CHOOSE m \in {f[i] : i \in DOMAIN f} : \A i \in DOMAIN f : f[i] <= m
Comps(g)       == DOMAIN g.v
MaxV(g)        == MaxOf(g.v)                            \* max_v_samp_factor
MaxH(g)        == MaxOf(g.h)
ImcuRows(g)    == RoundUp(g.height, MaxV(g) * DctSize)  \* total_iMCU_rows

While(Cond(_), Step(_), a, bound) ==
  FoldLeft(LAMBDA x, i : IF Cond(x) THEN Step(x) ELSE x, a, [i \in 1..bound |-> i])

-----------------------------------------------------------------------------
\* jcsample.c

\* The vertical expansion of a component and the rows of context its method reads:
\* the smoothing methods are for components of full size and of half of it.
Expand(g, ci) == MaxV(g) \div g.v[ci]
Context(g, ci) ==
  IF g.smoothing /\ \E e \in {1, 2} : g.h[ci] * e = MaxH(g) /\ g.v[ci] * e = MaxV(g) THEN 1 ELSE 0
NeedContextRows(g) == \E ci \in Comps(g) : Context(g, ci) = 1

\* The row pointers of the color buffer: with context they wrap around at both ends
\* (create_context_buffer).
Pointers(g) == IF NeedContextRows(g) THEN [i \in -MaxV(g) .. 4 * MaxV(g) - 1 |-> i % (3 * MaxV(g))]
               ELSE [i \in 0 .. MaxV(g) - 1 |-> i]
Color(p, i) == p.color[Pointers(p.g)[i]]

\* sep_downsample: the row group at in_row_index becomes row group number "group".
SepDownsample(p, index, group) ==
  LET Made(ci, k) ==
        LET first == index + k * Expand(p.g, ci) - Context(p.g, ci)
        IN [i \in 1 .. Expand(p.g, ci) + 2 * Context(p.g, ci) |-> Color(p, first + i - 1)]
  IN [p EXCEPT !.out = [ci \in Comps(p.g) |-> [row \in DOMAIN @[ci] |->
        IF row \div p.g.v[ci] = group THEN Made(ci, row % p.g.v[ci]) ELSE @[ci][row]]]]

-----------------------------------------------------------------------------
\* jcprepct.c

StartPassPrep(p) ==
  [p EXCEPT !.toGo = p.g.height, !.nextBuf = 0, !.this = 0, !.stop = 2 * MaxV(p.g)]

\* color_convert: the next rows of the application; "taken" is in_row_ctr.
ColorConvert(a, num) ==
  LET places == {<<Pointers(a.p.g)[a.p.nextBuf + j], a.p.next + a.taken + j>> : j \in 0 .. num - 1}
  IN [a EXCEPT !.p.color = [k \in DOMAIN @ |->
        IF \E pl \in places : pl[1] = k THEN (CHOOSE pl \in places : pl[1] = k)[2] ELSE @[k]]]

Counted(a, num) ==
  [a EXCEPT !.taken = @ + num, !.p.nextBuf = @ + num, !.p.toGo = @ - num]

\* expand_bottom_edge of the color buffer
ExpandColor(p, from, to) ==
  LET padded == {Pointers(p.g)[row] : row \in from .. to - 1}
  IN [p EXCEPT !.color = [k \in DOMAIN @ |-> IF k \in padded THEN Color(p, from - 1) ELSE @[k]]]

\* expand_bottom_edge of the downsampled rows
ExpandOut(p) ==
  [p EXCEPT !.out = [ci \in Comps(p.g) |-> [row \in DOMAIN @[ci] |->
     IF row >= p.rowgroup * p.g.v[ci] THEN @[ci][p.rowgroup * p.g.v[ci] - 1] ELSE @[ci][row]]]]

\* pre_process_data: a turn of its loop reads rows, pads the color buffer at the
\* bottom of the image, empties it when it is full, and pads the rows put out.
PadColor(p) ==
  IF p.toGo = 0 /\ p.nextBuf < MaxV(p.g)
  THEN [ExpandColor(p, p.nextBuf, MaxV(p.g)) EXCEPT !.nextBuf = MaxV(p.g)] ELSE p

EmptyColor(p) ==
  IF p.nextBuf = MaxV(p.g)
  THEN [SepDownsample(p, 0, p.rowgroup) EXCEPT !.nextBuf = 0, !.rowgroup = @ + 1] ELSE p

PadOut(p) ==
  IF p.toGo = 0 /\ p.rowgroup < DctSize THEN [ExpandOut(p) EXCEPT !.rowgroup = DctSize] ELSE p

PreProcessStep(a, n) ==
  LET num == Least(MaxV(a.p.g) - a.p.nextBuf, n - a.taken)
  IN [Counted(ColorConvert(a, num), num) EXCEPT !.p = PadOut(EmptyColor(PadColor(@)))]

PreProcessData(a, n) ==
  While(LAMBDA x : x.taken < n /\ x.p.rowgroup < DctSize, LAMBDA x : PreProcessStep(x, n), a, n)

\* After a row group has been downsampled: advance with wraparound.
NextRowGroup(p) ==
  LET height == 3 * MaxV(p.g)
      this == IF p.this + MaxV(p.g) >= height THEN 0 ELSE p.this + MaxV(p.g)
      next == IF p.nextBuf >= height THEN 0 ELSE p.nextBuf
  IN [p EXCEPT !.rowgroup = @ + 1, !.this = this, !.nextBuf = next, !.stop = next + MaxV(p.g)]

\* pre_process_context: a turn of its loop; a.more is FALSE when it needs more rows.
PreProcessContextStep(a, n) ==
  LET num  == Least(a.p.stop - a.p.nextBuf, n - a.taken)
      read == ColorConvert(a, num)
      top  == IF a.p.toGo = a.p.g.height
              THEN [read EXCEPT !.p.color = [k \in DOMAIN @ |->
                      IF k >= 2 * MaxV(a.p.g) THEN @[0] ELSE @[k]]]
              ELSE read
      pad  == IF a.p.nextBuf < a.p.stop
              THEN [a EXCEPT !.p = [ExpandColor(@, @.nextBuf, @.stop) EXCEPT !.nextBuf = a.p.stop]] ELSE a
      fed  == IF a.taken < n THEN Counted(top, num) ELSE pad
  IN IF a.taken >= n /\ a.p.toGo # 0 THEN [a EXCEPT !.more = FALSE]
     ELSE IF fed.p.nextBuf = fed.p.stop
          THEN [fed EXCEPT !.p = NextRowGroup(SepDownsample(@, @.this, @.rowgroup))] ELSE fed

PreProcessContext(a, n) ==
  While(LAMBDA x : x.more /\ x.p.rowgroup < DctSize, LAMBDA x : PreProcessContextStep(x, n),
        [a EXCEPT !.more = TRUE], n + DctSize + 1)

-----------------------------------------------------------------------------
\* jcmainct.c

\* start_pass_main and the passes of the modules below.
StartInputPass(g) ==
  StartPassPrep(
    [g |-> g, toGo |-> 0, nextBuf |-> 0, this |-> 0, stop |-> 0,
     color |-> [k \in 0 .. (IF NeedContextRows(g) THEN 3 ELSE 1) * MaxV(g) - 1 |-> -1],
     out |-> [ci \in Comps(g) |-> [row \in 0 .. g.v[ci] * DctSize - 1 |-> <<>>]],
     rowgroup |-> 0, curRow |-> 0, suspended |-> FALSE, next |-> 0,
     coded |-> <<>>])     \* the last iMCU row the coefficient controller took

Sent(p) ==
  [p EXCEPT !.suspended = FALSE, !.rowgroup = 0, !.curRow = @ + 1, !.coded = <<p.curRow, p.out>>]

\* A bug to be caught: the last row is given back whenever the compressor suspends.
CompressDataGivingBack(a) ==
  IF a.p.rowgroup # DctSize THEN [a EXCEPT !.run = FALSE]
  ELSE IF a.room = 0 THEN [a EXCEPT !.p.suspended = TRUE, !.run = FALSE, !.taken = @ - 1]
  ELSE [a EXCEPT !.p = Sent(@), !.room = @ - 1, !.taken = IF a.p.suspended THEN @ + 1 ELSE @]

\* The iMCU row, when it is full, goes to compress_data, which takes a.room of them
\* before it suspends; as long as it does, the last row counts as not consumed.
CompressData(a) ==
  IF a.p.rowgroup # DctSize THEN [a EXCEPT !.run = FALSE]
  ELSE IF a.room = 0
       THEN [a EXCEPT !.p.suspended = TRUE, !.run = FALSE, !.taken = IF a.p.suspended THEN @ ELSE @ - 1]
  ELSE [a EXCEPT !.p = Sent(@), !.room = @ - 1, !.taken = IF a.p.suspended THEN @ + 1 ELSE @]

\* process_data_simple_main: a turn of its loop.
ImcuRow(a, n) ==
  CompressData(IF a.p.rowgroup = DctSize THEN a
               ELSE IF NeedContextRows(a.p.g) THEN PreProcessContext(a, n) ELSE PreProcessData(a, n))

Taken(a) == [a.p EXCEPT !.next = @ + a.taken]

\* jpeg_write_scanlines of n rows, of which no more count than the image has left.
WriteScanlines(p, n, room) ==
  LET avail == Least(n, p.g.height - p.next)
  IN Taken(While(LAMBDA x : x.run /\ x.p.curRow < ImcuRows(p.g), LAMBDA x : ImcuRow(x, avail),
                 [p |-> [p EXCEPT !.coded = <<>>], taken |-> 0, room |-> room, run |-> TRUE, more |-> TRUE],
                 ImcuRows(p.g) + 1))
=============================================================================
