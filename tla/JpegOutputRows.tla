--------------------------- MODULE JpegOutputRows ---------------------------
(***************************************************************************)
(* The rows of an image on their way out of the JPEG decompressor: the     *)
(* main controller with its lists of row pointers (jdmainct.c), the        *)
(* upsamplers (jdsample.c, jdmerge.c) and the postprocessor of the color   *)
(* quantizers (jdpostct.c), one operator per C function on the object d.   *)
(*                                                                         *)
(* A row of a component is its number; Stale marks what was never decoded  *)
(* and Torn what a suspended call left half decoded.  A row that is shown  *)
(* is, by component, the rows it was made from: the nearest one and, for a *)
(* method that interpolates between rows, the next nearest one.  d.g is    *)
(* the geometry: sampling factors, height, the scaling m                   *)
(* (min_DCT_scaled_size) and the choices of the application.               *)
(***************************************************************************)
EXTENDS JpegInputRows

Stale == -1
Torn  == -2

\* jpeg_calc_output_dimensions: chroma is scaled up by the IDCT where it can be.
OutputHeight(g) == RoundUp(g.height * g.m, DctSize)
ScaledSize(g, ci) ==
  LET fits == {s \in {g.m, 2 * g.m, 4 * g.m} : /\ s <= DctSize
                                               /\ g.h[ci] * s <= MaxH(g) * g.m
                                               /\ g.v[ci] * s <= MaxV(g) * g.m}
  IN CHOOSE s \in fits : \A t \in fits : t <= s
DownHeight(g, ci) == RoundUp(g.height * g.v[ci] * ScaledSize(g, ci), MaxV(g) * DctSize)
BlockRows(g, ci)  == RoundUp(g.height * g.v[ci], MaxV(g) * DctSize)   \* height_in_blocks

ImcuHeight(g, ci) == g.v[ci] * ScaledSize(g, ci)
RowGroup(g, ci)   == ImcuHeight(g, ci) \div g.m

\* jinit_upsampler: the methods that differ in the rows they read.
Fullsize(g, ci) == g.h[ci] * ScaledSize(g, ci) = MaxH(g) * g.m /\ RowGroup(g, ci) = MaxV(g)
Fancy(g, ci) == /\ g.fancy /\ g.m > 1
                /\ 2 * g.h[ci] * ScaledSize(g, ci) = MaxH(g) * g.m
                /\ 2 * RowGroup(g, ci) = MaxV(g)
NeedContext(g) == ~g.merged /\ \E ci \in Comps(g) : Fancy(g, ci)

-----------------------------------------------------------------------------
\* jdmainct.c: the lists of row pointers.  A pointer is a row of the workspace.

\* make_funny_pointers; xbuf1 keeps the entries it does not set.
MakeFunnyPointers(d) ==
  LET g == d.g
      Swapped(ci, i) ==
        LET rg == RowGroup(g, ci)
        IN IF i \in rg * (g.m - 2) .. rg * g.m - 1 THEN i + 2 * rg
           ELSE IF i \in rg * g.m .. rg * (g.m + 2) - 1 THEN i - 2 * rg ELSE i
      Real(ci) == 0 .. RowGroup(g, ci) * (g.m + 2) - 1
      Above(ci) == -RowGroup(g, ci) .. -1
  IN [d EXCEPT !.xbuf =
        [w \in 0..1 |-> [ci \in Comps(g) |-> [i \in DOMAIN @[w][ci] |->
          IF i \in Real(ci) THEN IF w = 0 THEN i ELSE Swapped(ci, i)
          ELSE IF w = 0 /\ i \in Above(ci) THEN 0 ELSE @[w][ci][i]]]]]

\* A bug to be caught: only the list in use gets the wraparound pointers.
SetWraparoundPointersOne(d) ==
  LET g == d.g
      Wrapped(f, rg) == [i \in DOMAIN f |->
        IF i < 0 THEN f[rg * (g.m + 2) + i] ELSE IF i >= rg * (g.m + 2) THEN f[i - rg * (g.m + 2)] ELSE f[i]]
  IN [d EXCEPT !.xbuf = [@ EXCEPT ![d.which] = [ci \in Comps(g) |-> Wrapped(@[ci], RowGroup(g, ci))]]]

\* set_wraparound_pointers: from the top of the image to the normal state.
SetWraparoundPointers(d) ==
  LET g == d.g
      Wrapped(f, rg) == [i \in DOMAIN f |->
        IF i < 0 THEN f[rg * (g.m + 2) + i] ELSE IF i >= rg * (g.m + 2) THEN f[i - rg * (g.m + 2)] ELSE f[i]]
  IN [d EXCEPT !.xbuf = [w \in 0..1 |-> [ci \in Comps(g) |-> Wrapped(@[w][ci], RowGroup(g, ci))]]]

\* set_bottom_pointers: the last real row again, as two row groups; the row groups
\* that are left are counted on the first component.
RowsLeft(g, ci) == LET r == DownHeight(g, ci) % ImcuHeight(g, ci) IN IF r = 0 THEN ImcuHeight(g, ci) ELSE r
SetBottomPointers(d) ==
  LET g == d.g
      Bottom(f, ci) == [i \in DOMAIN f |->
        IF i \in RowsLeft(g, ci) .. RowsLeft(g, ci) + 2 * RowGroup(g, ci) - 1 THEN f[RowsLeft(g, ci) - 1] ELSE f[i]]
  IN [d EXCEPT !.xbuf[d.which] = [ci \in Comps(g) |-> Bottom(@[ci], ci)],
               !.avail = (RowsLeft(g, 1) - 1) \div RowGroup(g, 1) + 1]

\* The row of the workspace behind an entry of the list in use; an entry that was
\* never set points nowhere.
PointerAt(d, w, ci, i) == IF NeedContext(d.g) THEN d.xbuf[w][ci][i] ELSE i
RowAt(d, w, ci, i) ==
  LET k == PointerAt(d, w, ci, i) IN IF k \in DOMAIN d.buf[ci] THEN d.buf[ci][k] ELSE Stale

-----------------------------------------------------------------------------
\* The coefficient controller decodes an iMCU row into the list in use: no block
\* row below the last real one.
DecodedRows(d, ci) ==
  LET last == BlockRows(d.g, ci) % d.g.v[ci]
      blocks == IF d.coefRow < ImcuRows(d.g) - 1 \/ last = 0 THEN d.g.v[ci] ELSE last
  IN 0 .. blocks * ScaledSize(d.g, ci) - 1

Written(d, Label(_, _)) ==
  [d EXCEPT !.buf = [ci \in Comps(d.g) |-> [k \in DOMAIN @[ci] |->
     LET js == {j \in DecodedRows(d, ci) : PointerAt(d, d.which, ci, j) = k}
     IN IF js = {} THEN @[ci][k] ELSE Label(ci, CHOOSE j \in js : \A i \in js : i <= j)]]]

DecompressData(d, suspend) ==
  IF d.coefRow = ImcuRows(d.g) THEN [d EXCEPT !.err = "NO_MORE_ROWS"]
  ELSE IF suspend THEN Written(d, LAMBDA ci, j : Torn)
  ELSE [Written(d, LAMBDA ci, j : d.coefRow * ImcuHeight(d.g, ci) + j)
        EXCEPT !.coefRow = @ + 1, !.full = TRUE, !.imcu = @ + 1]

-----------------------------------------------------------------------------
\* jdsample.c.  d.rows is what the upsampler has put out, "room" what it may.

\* What a method makes of row k of a row group: the fullsize method only sets a
\* pointer to the list of pointers.
UpsampleRow(d, ci, k) ==
  LET g == d.g
      base == d.rowgroup * RowGroup(g, ci)
      near == base + k \div (MaxV(g) \div RowGroup(g, ci))
  IN IF Fullsize(g, ci) THEN <<"list", d.which, base + k>>
     ELSE IF Fancy(g, ci)
          THEN <<"rows", RowAt(d, d.which, ci, near),
                 RowAt(d, d.which, ci, IF k % 2 = 0 THEN near - 1 ELSE near + 1)>>
     ELSE <<"rows", RowAt(d, d.which, ci, near)>>

FillColorBuf(d) ==
  [d EXCEPT !.color = [k \in 0 .. MaxV(d.g) - 1 |-> [ci \in Comps(d.g) |-> UpsampleRow(d, ci, k)]],
            !.nextOut = 0]

\* color_convert of a row of the conversion buffer
ColorConvertRow(d, k) ==
  [ci \in Comps(d.g) |->
     LET c == d.color[k][ci]
     IN IF c[1] = "list" THEN <<RowAt(d, c[2], ci, c[3])>> ELSE Tail(c)]

ConvertRows(d, room) ==
  LET num == Least(Least(MaxV(d.g) - d.nextOut, d.toGo), room)
  IN [d EXCEPT !.rows = [i \in 1..num |-> ColorConvertRow(d, d.nextOut + i - 1)],
               !.toGo = @ - num, !.nextOut = @ + num,
               !.rowgroup = IF d.nextOut + num >= MaxV(d.g) THEN @ + 1 ELSE @]

SepUpsample(d, room) ==
  ConvertRows(IF d.nextOut >= MaxV(d.g) THEN FillColorBuf(d) ELSE d, room)

\* jdmerge.c: two rows at once, the second into the spare row when there is no
\* room for it.
MergedRow(d, k) ==
  [ci \in Comps(d.g) |-> <<RowAt(d, d.which, ci, d.rowgroup * RowGroup(d.g, ci)
                                                  + k \div (MaxV(d.g) \div RowGroup(d.g, ci)))>>]
MergedOut(d) ==
  [d EXCEPT !.toGo = @ - Len(d.rows), !.rowgroup = IF d.spare = <<>> THEN @ + 1 ELSE @]
Merged2vUpsample(d, room) ==
  LET num == Least(Least(2, d.toGo), room)
  IN MergedOut(IF d.spare # <<>> THEN [d EXCEPT !.rows = <<d.spare>>, !.spare = <<>>]
               ELSE [d EXCEPT !.rows = SubSeq(<<MergedRow(d, 0), MergedRow(d, 1)>>, 1, num),
                              !.spare = IF num > 1 THEN <<>> ELSE MergedRow(d, 1)])
Merged1vUpsample(d) == [d EXCEPT !.rows = <<MergedRow(d, 0)>>, !.rowgroup = @ + 1]

Upsample(d, room) ==
  IF ~d.g.merged THEN SepUpsample(d, room)
  ELSE IF MaxV(d.g) = 2 THEN Merged2vUpsample(d, room) ELSE Merged1vUpsample(d)

\* start_pass_upsample, start_pass_merged_upsample
StartPassUpsample(d) == [d EXCEPT !.nextOut = MaxV(d.g), !.toGo = OutputHeight(d.g), !.spare = <<>>]

-----------------------------------------------------------------------------
\* jdpostct.c.  d.out are the rows for the application, d.count is out_row_ctr.

\* The virtual array of a two-pass quantizer: rounded up to strips of maxV rows.
NeedFull(g) == "2pass" \in g.quants
WholeRows(g) == IF NeedFull(g) THEN RoundUp(OutputHeight(g), MaxV(g)) * MaxV(g) ELSE 0

\* access_virt_sarray of the strip at d.starting
AccessStrip(d, writable) ==
  LET end == d.starting + MaxV(d.g)
  IN IF end > WholeRows(d.g) \/ (d.defined < end /\ (~writable \/ d.defined < d.starting))
     THEN [d EXCEPT !.err = "BAD_VIRTUAL_ACCESS"]
     ELSE [d EXCEPT !.defined = IF @ < end THEN end ELSE @]

StartPassPost(d, mode) ==
  LET w == [d EXCEPT !.starting = 0, !.nextRow = 0, !.post = mode]
  IN IF mode \in {"prepass", "2pass"} /\ ~NeedFull(d.g) THEN [w EXCEPT !.err = "BAD_BUFFER_MODE"]
     ELSE IF mode = "1pass" /\ NeedFull(d.g) THEN AccessStrip(w, TRUE) ELSE w

Emit(d, rows) == [d EXCEPT !.out = @ \o rows, !.count = @ + Len(rows)]

\* The strip is filled or emptied: on to the next one.
NextStrip(d) ==
  IF d.nextRow >= MaxV(d.g) THEN [d EXCEPT !.starting = @ + MaxV(d.g), !.nextRow = 0] ELSE d

\* post_process_prepass: the rows go into the virtual array.
Stored(d) ==
  LET first == d.starting + d.nextRow
  IN [d EXCEPT !.whole = [r \in DOMAIN @ |->
                 IF r \in first .. first + Len(d.rows) - 1 THEN d.rows[r - first + 1] ELSE @[r]],
               !.nextRow = @ + Len(d.rows), !.count = @ + Len(d.rows)]

PostProcessPrepass(d) ==
  NextStrip(Stored(Upsample(IF d.nextRow = 0 THEN AccessStrip(d, TRUE) ELSE d, MaxV(d.g) - d.nextRow)))

\* post_process_2pass: "we have to check bottom of image here".
PostProcess2pass(d, room) ==
  LET w   == IF d.nextRow = 0 THEN AccessStrip(d, FALSE) ELSE d
      num == Least(Least(MaxV(d.g) - d.nextRow, room), OutputHeight(d.g) - d.starting)
      at  == d.starting + d.nextRow
  IN IF w.err # "none" THEN w
     ELSE NextStrip([Emit(w, [i \in 1..num |-> w.whole[at + i - 1]]) EXCEPT !.nextRow = @ + num])

\* post_process_1pass, or the upsampler itself without quantization.
EmitAll(d) == Emit(d, d.rows)
PostProcess1pass(d, room) ==
  EmitAll(Upsample(d, IF d.post = "1pass" THEN Least(room, MaxV(d.g)) ELSE room))

PostProcessData(d, room) ==
  CASE d.post = "prepass" -> PostProcessPrepass(d)
    [] d.post = "2pass"   -> PostProcess2pass(d, room)
    [] OTHER              -> PostProcess1pass(d, room)

-----------------------------------------------------------------------------
\* jdmainct.c: the controller.

StartPassMain(d, crank) ==
  IF crank THEN [d EXCEPT !.crank = TRUE]
  ELSE [(IF NeedContext(d.g) THEN MakeFunnyPointers(d) ELSE d)
        EXCEPT !.crank = FALSE, !.which = 0, !.ctx = "prepare", !.imcu = 0, !.full = FALSE, !.rowgroup = 0]

\* process_data_simple_main
MarkEmpty(d) == IF d.rowgroup >= d.g.m THEN [d EXCEPT !.full = FALSE, !.rowgroup = 0] ELSE d
ProcessDataSimple(d, n) == MarkEmpty(PostProcessData(d, n - d.count))

\* The three cases of process_data_context_main, each falling through to the next.
RowGroupsLeft(d) == d.rowgroup < d.avail

PrepareForImcu(d) ==
  LET w == [d EXCEPT !.rowgroup = 0, !.avail = d.g.m - 1, !.ctx = "process"]
  IN IF d.imcu = ImcuRows(d.g) THEN SetBottomPointers(w) ELSE w

PostponeLast(d) ==
  IF RowGroupsLeft(d) THEN d
  ELSE [(IF d.imcu = 1 THEN SetWraparoundPointers(d) ELSE d)
        EXCEPT !.which = 1 - @, !.full = FALSE, !.rowgroup = d.g.m + 1, !.avail = d.g.m + 2,
               !.ctx = "postponed"]

ProcessImcu(d, n) == PostponeLast(PostProcessData(d, n - d.count))

PostponedDone(d, n) ==
  IF RowGroupsLeft(d) THEN d
  ELSE IF d.count >= n THEN [d EXCEPT !.ctx = "prepare"]
  ELSE ProcessImcu(PrepareForImcu(d), n)

PostponedRow(d, n) == PostponedDone(PostProcessData(d, n - d.count), n)

ProcessDataContext(d, n) ==
  CASE d.ctx = "postponed" -> PostponedRow(d, n)
    [] d.ctx = "prepare"   -> ProcessImcu(PrepareForImcu(d), n)
    [] d.ctx = "process"   -> ProcessImcu(d, n)

ShowImcuRow(d, n) ==
  IF ~d.full THEN d
  ELSE IF NeedContext(d.g) THEN ProcessDataContext(d, n) ELSE ProcessDataSimple(d, n)

\* process_data, with n rows of room for the application; the decoder may suspend.
ProcessData(d, n, suspend) ==
  IF d.crank THEN PostProcessData(d, n - d.count)
  ELSE ShowImcuRow(IF d.full THEN d ELSE DecompressData(d, suspend), n)

-----------------------------------------------------------------------------
\* jdmaster.c and jdapistd.c

\* prepare_for_output_pass, with the quantizer the application asks for.
PrepareForOutputPass(d, quant) ==
  IF d.dummy THEN StartPassMain(StartPassPost([d EXCEPT !.dummy = FALSE], "2pass"), TRUE)
  ELSE LET mode == IF quant = "2pass" THEN "prepass" ELSE quant
           w == [d EXCEPT !.dummy = (quant = "2pass"), !.coefRow = 0]
       IN StartPassMain(StartPassPost(StartPassUpsample(w), mode), FALSE)

\* jinit_d_main_controller, jinit_upsampler, jinit_d_post_controller
NewOutput(g) ==
  [g |-> g, err |-> "none", state |-> "bufimage", passes |-> 0, scanline |-> 0, from |-> 0, out |-> <<>>, count |-> 0,
   buf |-> [ci \in Comps(g) |-> [k \in 0 .. RowGroup(g, ci) * (g.m + 2) - 1 |-> Stale]],
   xbuf |-> IF ~NeedContext(g) THEN <<>>
            ELSE [w \in 0..1 |-> [ci \in Comps(g) |->
                    [i \in -RowGroup(g, ci) .. RowGroup(g, ci) * (g.m + 3) - 1 |-> Stale]]],
   which |-> 0, ctx |-> "prepare", avail |-> 0, rowgroup |-> 0, imcu |-> 0, full |-> FALSE, crank |-> FALSE,
   coefRow |-> 0, dummy |-> FALSE, color |-> <<>>, nextOut |-> 0, toGo |-> 0, spare |-> <<>>, rows |-> <<>>,
   post |-> "none", starting |-> 0, nextRow |-> 0, defined |-> 0,
   whole |-> [r \in 0 .. WholeRows(g) - 1 |-> <<>>]]

\* output_pass_setup, first part: the pass begins.
BeginPass(d, quant) ==
  [PrepareForOutputPass(d, quant) EXCEPT !.scanline = 0, !.state = "prescan", !.passes = @ + 1,
                                          !.out = <<>>, !.count = 0]

Advanced(d) == [d EXCEPT !.scanline = @ + d.count]

\* output_pass_setup: a turn of the loop over a dummy pass, which has no room for
\* rows; at its end the second pass begins.
CrankDummyPass(d, suspend) ==
  IF ~d.dummy THEN [d EXCEPT !.state = "scanning"]
  ELSE IF d.scanline < OutputHeight(d.g)
       THEN Advanced(ProcessData([d EXCEPT !.count = 0], 0, suspend))
  ELSE [PrepareForOutputPass(d, "none") EXCEPT !.scanline = 0]

\* jpeg_read_scanlines
ReadScanlines(d, n, suspend) ==
  Advanced(ProcessData([d EXCEPT !.out = <<>>, !.count = 0, !.from = d.scanline], n, suspend))
=============================================================================
