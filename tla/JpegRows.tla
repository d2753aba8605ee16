------------------------------ MODULE JpegRows ------------------------------
(***************************************************************************)
(* An application hands the rows of images to a JPEG compressor, as many   *)
(* per call as it likes, whose entropy coder suspends now and then, or     *)
(* takes the rows of an image from a decompressor, as many per call as it  *)
(* has room for, whose entropy decoder suspends now and then; in           *)
(* buffered-image mode it begins output passes anew whenever it likes.     *)
(***************************************************************************)
EXTENDS JpegOutputRows

CONSTANTS Inputs,    \* geometries of images to compress
          Outputs,   \* geometries of images to decompress
          MaxRows,   \* most rows of one call
          MaxPasses  \* bound on the output passes of one image

\* Fractional sampling is refused by jinit_downsampler.
ASSUME InputsAssumption ==
  /\ DctSize \in Nat \ {0} /\ MaxRows \in Nat
  /\ \A g \in Inputs : /\ g.v \in Seq(1..4) /\ g.v # <<>> /\ g.height \in Nat \ {0}
                        /\ \A ci \in Comps(g) : MaxV(g) % g.v[ci] = 0

\* jinit_upsampler refuses it too, and use_merged_upsample wants at most two rows.
ASSUME OutputsAssumption ==
  \A g \in Outputs : /\ g.v \in Seq(1..4) /\ g.v # <<>> /\ g.h \in Seq(1..4) /\ DOMAIN g.h = DOMAIN g.v
                      /\ g.height \in Nat \ {0} /\ g.m \in 1..DctSize
                      /\ g.fancy \in BOOLEAN /\ g.merged \in BOOLEAN /\ (g.merged => MaxV(g) <= 2)
                      /\ g.quants \subseteq {"none", "1pass", "2pass"}
                      /\ \A ci \in Comps(g) : MaxV(g) % RowGroup(g, ci) = 0

VARIABLES p,  \* the compressor's modules, NoImage when a decompressor is at work
          d   \* the decompressor's modules, NoImage when a compressor is at work
vars == <<p, d>>

NoImage == <<>>

Init ==
  \/ p \in {StartInputPass(g) : g \in Inputs} /\ d = NoImage
  \/ p = NoImage /\ d \in {NewOutput(g) : g \in Outputs}

\* The compressor takes "room" iMCU rows before it suspends.
Write ==
  /\ p # NoImage /\ p.next < p.g.height
  /\ \E n \in 1..MaxRows, room \in 0 .. ImcuRows(p.g) : p' = WriteScanlines(p, n, room)
  /\ UNCHANGED d

Working == d # NoImage /\ d.err = "none"

\* jpeg_start_output, or the only pass of jpeg_start_decompress
StartOutput ==
  /\ Working /\ d.state = "bufimage" /\ d.passes < (IF d.g.buffered THEN MaxPasses ELSE 1)
  /\ \E quant \in d.g.quants : d' = BeginPass(d, quant)
  /\ UNCHANGED p

Prescan ==
  /\ Working /\ d.state = "prescan"
  /\ \E suspend \in BOOLEAN : d' = CrankDummyPass(d, suspend)
  /\ UNCHANGED p

Read ==
  /\ Working /\ d.state = "scanning" /\ d.scanline < OutputHeight(d.g)
  /\ \E n \in 1..MaxRows, suspend \in BOOLEAN : d' = ReadScanlines(d, n, suspend)
  /\ UNCHANGED p

\* jpeg_finish_output, of a pass that need not be complete
FinishOutput ==
  /\ Working /\ d.g.buffered /\ d.state = "scanning"
  /\ d' = [d EXCEPT !.state = "bufimage", !.out = <<>>, !.count = 0]
  /\ UNCHANGED p

Next == Write \/ StartOutput \/ Prescan \/ Read \/ FinishOutput
Spec == Init /\ [][Next]_vars

-----------------------------------------------------------------------------
\* Properties.

Clamp(r, height) == IF r < 0 THEN 0 ELSE IF r >= height THEN height - 1 ELSE r

\* Row j of a component of the image as a whole: the image rows it stands for, with
\* the first and the last row of the image again where there are none.  Without
\* context the row groups below the image repeat the last one above.
Downsampled(g, ci, j) ==
  LET real == RoundUp(g.height, MaxV(g)) * g.v[ci]
      row  == IF NeedContextRows(g) \/ j < real THEN j ELSE real - 1
      ctx  == Context(g, ci)
  IN [i \in 1 .. Expand(g, ci) + 2 * ctx |-> Clamp(row * Expand(g, ci) - ctx + i - 1, g.height)]

\* However the calls were cut, by their sizes and by suspensions in which the main
\* controller gives back a row it has consumed (process_data_simple_main), every
\* iMCU row the coefficient controller gets is made of the right image rows, around
\* the wrapped color buffer and the padded bottom (pre_process_context), and when
\* the application has no more rows to write none is missing.
PreparedRows ==
  p # NoImage =>
    /\ p.coded # <<>> =>
         \A ci \in Comps(p.g) : \A k \in DOMAIN p.coded[2][ci] :
            p.coded[2][ci][k] = Downsampled(p.g, ci, p.coded[1] * p.g.v[ci] * DctSize + k)
    /\ p.next >= p.g.height => p.curRow = ImcuRows(p.g)

\* Row r of the image, by component: the nearest row and the next nearest one.
Upsampled(g, r) ==
  [ci \in Comps(g) |->
     LET near == r \div (MaxV(g) \div RowGroup(g, ci))
     IN IF ~g.merged /\ Fancy(g, ci)
        THEN <<near, Clamp(IF r % 2 = 0 THEN near - 1 ELSE near + 1, DownHeight(g, ci))>>
        ELSE <<near>>]

\* However the calls were cut, in every pass, each row the application gets is made of
\* the right rows of the components: the lists of pointers of make_funny_pointers,
\* set_wraparound_pointers and set_bottom_pointers show each row group its neighbours,
\* no row of the workspace is decoded over before it has been shown, and no more rows
\* come out than the image has.  It does not hold of images quantized in two passes
\* whose last row group is neither whole nor a single row (jdpostct.c:222).
ShownRows ==
  d # NoImage =>
    /\ d.err = "none" /\ d.scanline <= OutputHeight(d.g)
    /\ \A i \in DOMAIN d.out : d.out[i] = Upsampled(d.g, d.from + i - 1)
=============================================================================
