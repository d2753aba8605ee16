-------------------------- MODULE JpegScanDecoder ---------------------------
(***************************************************************************)
(* The input side of the JPEG decompressor behind the marker reader: the   *)
(* entropy decoders (jdhuff.c, jdphuff.c), the coefficient controller      *)
(* (jdcoefct.c) and the input controller (jdinput.c), one operator per C   *)
(* function on the decompression object c, as in JpegMarkerReader.  The    *)
(* outcome of a function is left in c.st; "again" means that its loop has  *)
(* another turn to go, so that a step of the caller is one turn.           *)
(*                                                                         *)
(* An entropy coded symbol is one word, the bit buffer a sequence of words *)
(* (its MIN_GET_BITS is Depth words).  A block is <<dc, ac>>: the AC       *)
(* coefficients are one value, whose two decimal digits are the two        *)
(* nonnegative coefficients that a refinement scan tells apart.  A word is *)
(* decoded by the derived table of its component, so that decoding with    *)
(* another table than the encoder's gives another value; a correction bit  *)
(* is a word of its own; a zero word is the fake zero bits of the end of a *)
(* segment and decodes to zero.  Blocks are one column wide per MCU        *)
(* (h_samp_factor 1); vertical sampling, and with it the rows of an iMCU   *)
(* row and the short last one, is kept.                                    *)
(***************************************************************************)
EXTENDS JpegMarkerReader, FiniteSets

CONSTANTS VSamp,     \* v_samp_factor of each component an image may have
          Height,    \* image height in block rows of the largest component
          Cols,      \* image width in MCUs
          Depth      \* words the bit buffer is filled to

ASSUME GeometryAssumption ==
  /\ VSamp \in Seq(1..4) /\ VSamp # <<>>
  /\ Height \in Nat \ {0} /\ Cols \in Nat \ {0} /\ Depth \in Nat \ {0}

MaxComponents == Len(VSamp)                             \* MAX_COMPONENTS
MaxV       == Max({VSamp[i] : i \in DOMAIN VSamp})      \* max_v_samp_factor
RoundUp(a, b)   == (a + b - 1) \div b                   \* jdiv_round_up
TotalRows  == RoundUp(Height, MaxV)                     \* total_iMCU_rows
BlockRows(ci)   == RoundUp(Height * VSamp[ci], MaxV)    \* height_in_blocks
LastRows(ci)    == IF BlockRows(ci) % VSamp[ci] = 0 THEN VSamp[ci] ELSE BlockRows(ci) % VSamp[ci]

EobBase    == 900      \* an AC word above it is an end-of-band run of that many blocks
ZeroBlock  == <<0, 0>>
ZeroImage(n) == [ci \in 1..n |-> [row \in 1 .. TotalRows * VSamp[ci] |->
                                    [col \in 1..Cols |-> ZeroBlock]]]
NumComps(c) == Len(c.comps.info)

\* per_scan_setup: an MCU of an interleaved scan holds the blocks of one iMCU
\* row of each component, an MCU of a single-component scan one block.  A block
\* is <<place in the scan, component, row, column>>.
McuBlocks(c) ==
  LET At(k, y)    == <<k, c.scan[k][1], c.inputRow * VSamp[c.scan[k][1]] + y, c.ctr + 1>>
      Add(list, k) == list \o [y \in 1 .. VSamp[c.scan[k][1]] |-> At(k, y)]
  IN IF Len(c.scan) = 1 THEN <<At(1, c.voff + 1)>>
     ELSE FoldLeft(Add, <<>>, [k \in DOMAIN c.scan |-> k])

-----------------------------------------------------------------------------
\* The bit buffer.

\* The end of a segment: fake zero bits, from which nothing more is decoded.
NoMoreBytes(c) ==
  IF c.buf # <<>> THEN Ok(c)
  ELSE Ok([c EXCEPT !.insufficient = TRUE, !.buf = [i \in 1..Depth |-> 0]])

\* jpeg_fill_bit_buffer: stops at a marker, which it leaves in unread_marker, and
\* suspends unless it can load everything up to Depth or to the marker.
FillByte(c) ==
  LET nonFF == {p \in c.pos .. c.loaded : WordAt(c, p) # FF}
      at    == Min(nonFF)
      code  == WordAt(c, at)
      Load(w) == [c EXCEPT !.buf = Append(@, w), !.pos = at + 1]
  IN IF nonFF = {} THEN Suspend(c)
     ELSE IF at = c.pos THEN Load(code)
     ELSE IF code = 0 THEN Load(FF)
     ELSE [c EXCEPT !.unread = code, !.pos = at + 1]

FillTurn(f, i) == IF f.st = "ok" /\ f.unread = 0 /\ Len(f.buf) < Depth THEN FillByte(f) ELSE f
FillBitBuffer(c) ==
  Then(FoldLeft(FillTurn, Ok(c), [i \in 1..Depth |-> i]),
       LAMBDA f : IF f.unread # 0 THEN NoMoreBytes(f) ELSE f)

\* HUFF_DECODE with the derived table of the k-th component of the scan; the
\* symbol is left in c.val.
CheckBitBuffer(c) == IF c.buf = <<>> THEN FillBitBuffer(c) ELSE Ok(c)
HuffDecode(c, k) ==
  Then(CheckBitBuffer(c),
       LAMBDA f : [f EXCEPT !.buf = Tail(@),
                            !.val = IF Head(f.buf) = 0 THEN 0 ELSE Head(f.buf) - f.derived[k]])

\* CHECK_BIT_BUFFER and GET_BITS(1); the bit is left in c.val.
GetBit(c) == Then(CheckBitBuffer(c), LAMBDA f : [f EXCEPT !.buf = Tail(@), !.val = Head(f.buf)])

-----------------------------------------------------------------------------
\* The entropy decoders.

NewSegment(c) == [c EXCEPT !.lastDc = [k \in DOMAIN c.scan |-> 0], !.eobrun = 0,
                           !.togo = c.restartInterval]

\* jpeg_make_d_derived_tbl: a derived table is computed when its scan starts.
HasTables(c) == \A k \in DOMAIN c.scan : c.htabs[c.scan[k][2]] # 0
DeriveTables(c) == [c EXCEPT !.derived = [k \in DOMAIN c.scan |-> c.htabs[c.scan[k][2]]]]

StartPassHuff(c) ==
  IF ~HasTables(c) THEN Fail(c)
  ELSE [NewSegment(DeriveTables(c)) EXCEPT !.buf = <<>>, !.insufficient = FALSE]

DcRefining(c) == c.progressive /\ c.Ss = 0 /\ c.Ah # 0

\* start_pass_phuff_decoder: also records how much of each component is known.
StartPassPhuff(c) ==
  LET bad   == (c.Ss # 0 /\ Len(c.scan) # 1) \/ (c.Ah # 0 /\ c.Al # c.Ah - 1)
      band  == IF c.Ss = 0 THEN 1 ELSE 2
      known == [c EXCEPT !.coefBits = [ci \in DOMAIN @ |->
                  IF \E k \in DOMAIN c.scan : c.scan[k][1] = ci
                  THEN [@[ci] EXCEPT ![band] = c.Al] ELSE @[ci]]]
  IN IF bad THEN Fail(c)
     ELSE IF ~DcRefining(c) /\ ~HasTables(c) THEN Fail(known)
     ELSE [NewSegment(DeriveTables(known)) EXCEPT !.buf = <<>>, !.insufficient = FALSE]

\* A bug to be caught: the DC predictions go on past the restart marker.
ProcessRestartPredicting(c) ==
  Then(ReadRestartMarker([c EXCEPT !.buf = <<>>]),
       LAMBDA r : [r EXCEPT !.eobrun = 0, !.togo = r.restartInterval,
                            !.insufficient = @ /\ r.unread # 0])

\* process_restart, the same in both decoders: "reset out-of-data flag, unless
\* read_restart_marker left us smack up against a marker".
ProcessRestart(c) ==
  Then(ReadRestartMarker([c EXCEPT !.buf = <<>>]),
       LAMBDA r : [NewSegment(r) EXCEPT !.insufficient = @ /\ r.unread # 0])

\* What the decoders share: restart, out-of-data test, and the permanent state.  An
\* MCU is decoded in a working state w; a completed one updates the permanent state
\* (BITREAD_SAVE_STATE, ASSIGN_STATE), and a suspension inside it leaves that as it
\* was, but for the coefficients already assigned and the marker saved by
\* jpeg_fill_bit_buffer.  A DC refinement reads the fake zero bits instead of
\* testing for them.
McuDecoded(r, w) ==
  IF w.st # "ok" THEN Suspend([r EXCEPT !.coefs = w.coefs, !.unread = w.unread])
  ELSE [r EXCEPT !.pos = w.pos, !.unread = w.unread, !.buf = w.buf, !.insufficient = w.insufficient,
                 !.lastDc = w.lastDc, !.eobrun = w.eobrun, !.coefs = w.coefs,
                 !.togo = IF @ = 0 THEN 0 ELSE @ - 1]

WithinSegment(c, Decode(_)) ==
  Then(IF c.restartInterval # 0 /\ c.togo = 0 THEN ProcessRestart(c) ELSE Ok(c),
       LAMBDA r : McuDecoded(r, IF r.insufficient /\ ~DcRefining(r) THEN r ELSE Decode(r)))

DecodeDc(w, b, al) ==
  Then(HuffDecode(w, b[1]),
       LAMBDA d : [d EXCEPT !.lastDc[b[1]] = @ + d.val,
                            !.coefs[b[2]][b[3]][b[4]][1] = (d.lastDc[b[1]] + d.val) * 2^al])

DecodeAc(w, b) ==
  Then(HuffDecode(w, b[1]), LAMBDA d : [d EXCEPT !.coefs[b[2]][b[3]][b[4]][2] = d.val])

HuffBlock(w, b) == Then(Then(w, LAMBDA u : DecodeDc(u, b, 0)), LAMBDA u : DecodeAc(u, b))
DecodeMcuHuff(c) == WithinSegment(c, LAMBDA r : FoldLeft(HuffBlock, r, McuBlocks(r)))

DcFirstBlock(w, b) == Then(w, LAMBDA u : DecodeDc(u, b, u.Al))
DecodeMcuDcFirst(c) == WithinSegment(c, LAMBDA r : FoldLeft(DcFirstBlock, r, McuBlocks(r)))

\* An AC symbol of the block b: an end-of-band run or its coefficients.
AcFirst(d, b) == IF d.val > EobBase THEN [d EXCEPT !.eobrun = d.val - EobBase - 1]
                 ELSE [d EXCEPT !.coefs[b[2]][b[3]][b[4]][2] = d.val * 2^d.Al]

DecodeMcuAcFirst(c) ==
  LET Band(r) == IF r.eobrun > 0 THEN [r EXCEPT !.eobrun = @ - 1]
                 ELSE Then(HuffDecode(r, 1), LAMBDA d : AcFirst(d, McuBlocks(r)[1]))
  IN WithinSegment(c, Band)

\* "|= p1" and the same for a coefficient's magnitude: repeating it is safe.
SetBit(v, al) == IF (v \div 2^al) % 2 = 1 THEN v ELSE v + 2^al

DcRefineBlock(w, b) ==
  Then(Then(w, GetBit),
       LAMBDA d : IF d.val = 0 THEN d ELSE [d EXCEPT !.coefs[b[2]][b[3]][b[4]][1] = SetBit(@, d.Al)])
DecodeMcuDcRefine(c) == WithinSegment(c, LAMBDA r : FoldLeft(DcRefineBlock, r, McuBlocks(r)))

\* The AC coefficients of the one block b of an MCU, numbered from 1 to BandEnd; the
\* extra entries of jpeg_natural_order send what lies behind to the last one.
BandEnd == 2
Place(k) == IF k < BandEnd THEN 10^(BandEnd - k) ELSE 1
Coef(w, b, k) == (w.coefs[b[2]][b[3]][b[4]][2] \div Place(k)) % 10
WithCoef(w, b, k, v) == [w EXCEPT !.coefs[b[2]][b[3]][b[4]][2] = @ + (v - Coef(w, b, k)) * Place(k)]

\* From coefficient k over the nonzero coefficients, reading a correction bit for
\* each, and over zeros of the still-zero ones; the place where it stops is left in
\* val.
Corrected(d, b, k) == IF d.val = 0 THEN d ELSE WithCoef(d, b, k, SetBit(Coef(d, b, k), d.Al))

Advance(w, b, k, zeros) ==
  LET Zeros(j) == {i \in k..j : Coef(w, b, i) = 0}
      stop == Min({j \in k..BandEnd : Cardinality(Zeros(j)) > zeros} \cup {BandEnd + 1})
      Correct(d, j) == IF j \in k .. stop - 1 /\ Coef(w, b, j) # 0
                       THEN Then(Then(d, GetBit), LAMBDA u : Corrected(u, b, j)) ELSE d
  IN Then(FoldLeft(Correct, w, [j \in 1..BandEnd |-> j]), LAMBDA d : [d EXCEPT !.val = stop])

\* The block after the end of its band: correction bits only.
EndOfBand(w, b, k) == Then(Advance(w, b, k, BandEnd), LAMBDA d : [d EXCEPT !.eobrun = @ - 1])

\* The symbols of the block: an end-of-band run, or a coefficient that becomes
\* nonzero after symbol - 1 coefficients that stay zero.  The next place is in val.
RefineSymbol(d, b, k) ==
  IF d.val = 0 \/ d.val > EobBase
  THEN EndOfBand([d EXCEPT !.eobrun = IF d.val = 0 THEN 1 ELSE d.val - EobBase], b, k)
  ELSE Then(Advance(d, b, k, d.val - 1),
            LAMBDA a : [WithCoef(a, b, a.val, 2^a.Al) EXCEPT !.val = a.val + 1])

RefineTurn(d, b) ==
  IF d.val > BandEnd THEN d
  ELSE Then(d, LAMBDA u : Then(HuffDecode(u, 1), LAMBDA h : RefineSymbol(h, b, u.val)))

RefineBand(w, b) ==
  FoldLeft(LAMBDA d, i : RefineTurn(d, b), [w EXCEPT !.val = 1], [i \in 1..BandEnd |-> i])

UndoNothing(r, w, b) == w      \* a bug to be caught: new coefficients stay

\* undoit: "otherwise we'd get confused next time about which coefficients were
\* already nonzero".
UndoNewlyNonzero(r, w, b) ==
  FoldLeft(LAMBDA u, k : IF Coef(r, b, k) = 0 THEN WithCoef(u, b, k, 0) ELSE u,
           w, [k \in 1..BandEnd |-> k])

DecodeMcuAcRefine(c) ==
  LET Undo(r, w, b) == IF w.st = "ok" THEN w ELSE UndoNewlyNonzero(r, w, b)
      Refined(r, b) == IF r.eobrun > 0 THEN EndOfBand(r, b, 1) ELSE RefineBand(r, b)
  IN WithinSegment(c, LAMBDA r : Undo(r, Refined(r, McuBlocks(r)[1]), McuBlocks(r)[1]))

DecodeMcuPhuff(c) == IF c.Ah = 0
                     THEN IF c.Ss = 0 THEN DecodeMcuDcFirst(c) ELSE DecodeMcuAcFirst(c)
                     ELSE IF c.Ss = 0 THEN DecodeMcuDcRefine(c) ELSE DecodeMcuAcRefine(c)

DecodeMcu(c) == IF c.progressive THEN DecodeMcuPhuff(c) ELSE DecodeMcuHuff(c)

-----------------------------------------------------------------------------
\* The coefficient controller.

StartImcuRow(c) ==
  [c EXCEPT !.rowsPer = IF Len(c.scan) > 1 THEN 1
                        ELSE IF c.inputRow < TotalRows - 1 THEN VSamp[c.scan[1][1]]
                        ELSE LastRows(c.scan[1][1]),
            !.ctr = 0, !.voff = 0]

CoefStartInputPass(c) == StartImcuRow([c EXCEPT !.inputRow = 0])

FinishInputPass(c) == [c EXCEPT !.consume = "markers"]

\* The end of one turn: the next MCU, MCU row, iMCU row or the end of the scan.
NextMcu(c, advance) ==
  LET row == [c EXCEPT !.inputRow = @ + 1, !.outputRow = @ + advance]
  IN IF c.ctr + 1 < Cols THEN [c EXCEPT !.ctr = @ + 1, !.st = "again"]
     ELSE IF c.voff + 1 < c.rowsPer THEN [c EXCEPT !.ctr = 0, !.voff = @ + 1, !.st = "again"]
     ELSE IF row.inputRow < TotalRows THEN [StartImcuRow(row) EXCEPT !.st = "row"]
     ELSE [FinishInputPass([row EXCEPT !.ctr = 0]) EXCEPT !.st = "scan"]

\* consume_data: into the full-image coefficient arrays, zeroed when allocated.
ConsumeData(c) == Then(DecodeMcu(c), LAMBDA d : NextMcu(d, 0))

\* dummy_consume_data: "Always indicate nothing was done".
DummyConsumeData(c) == Suspend(c)

\* The samples a component of an iMCU row yields: dequantized blocks of its
\* rows that are part of the image.  Block gives the AC value of a block.
EmitRows(c, row, Ac(_, _, _)) ==
  [ci \in 1 .. NumComps(c) |->
     [y \in 1 .. Min({VSamp[ci], BlockRows(ci) - row * VSamp[ci]}) |->
        [col \in 1..Cols |-> [dc |-> c.coefs[ci][row * VSamp[ci] + y][col][1],
                              ac |-> Ac(ci, row * VSamp[ci] + y, col),
                              q  |-> c.latched[ci]]]]]

PlainAc(c, ci, y, col) == <<c.coefs[ci][y][col][2]>>

\* decompress_onepass: the same turns, each MCU zeroed before it is decoded and
\* written to the output rows at once; the row is delivered when it is complete.
WithZero(im, b) == [im EXCEPT ![b[2]][b[3]][b[4]] = ZeroBlock]
Zeroed(c) == [c EXCEPT !.coefs = FoldLeft(WithZero, @, McuBlocks(c))]
DeliverRow(c) ==
  IF c.st = "again" THEN c
  ELSE [c EXCEPT !.row = EmitRows(c, c.inputRow - 1, LAMBDA ci, y, x : PlainAc(c, ci, y, x))]

DecompressOnepass(c) == Then(DecodeMcu(Zeroed(c)), LAMBDA d : DeliverRow(NextMcu(d, 1)))

Delivered(c, row) ==
  [c EXCEPT !.row = row, !.outputRow = @ + 1,
            !.st = IF c.outputRow + 1 < TotalRows THEN "row" ELSE "scan"]

InputBehind(c) ==
  \/ c.inputScan < c.outputScan
  \/ c.inputScan = c.outputScan /\ c.inputRow <= c.outputRow

\* smoothing_ok: latches the accuracy of the AC coefficients.
SmoothingOk(c) ==
  /\ c.progressive /\ c.coefBits # <<>>
  /\ \A ci \in 1 .. NumComps(c) : c.latched[ci] # NoTable /\ c.coefBits[ci][1] >= 0
  /\ \E ci \in 1 .. NumComps(c) : c.coefBits[ci][2] # 0

CoefStartOutputPass(c) ==
  [c EXCEPT !.smooth = c.fullBuffer /\ SmoothingOk(c),
            !.latch = IF c.fullBuffer /\ SmoothingOk(c)
                      THEN [ci \in DOMAIN c.coefBits |-> c.coefBits[ci][2]] ELSE @,
            !.outputRow = 0]

\* A bug to be caught: only the current row is waited for.
SmoothInputNotAhead(c) ==
  /\ c.inputScan <= c.outputScan /\ ~c.eoi
  /\ ~(c.inputScan = c.outputScan /\ c.inputRow > c.outputRow)

\* decompress_smooth_data stays one row ahead of the output during a DC scan.
SmoothInputBehind(c) ==
  /\ c.inputScan <= c.outputScan /\ ~c.eoi
  /\ ~ /\ c.inputScan = c.outputScan
       /\ c.inputRow > c.outputRow + (IF c.Ss = 0 THEN 1 ELSE 0)

\* An AC value that is zero and not known to be accurate is estimated from the
\* DC values of the block rows above and below.
SmoothAc(c, ci, y, col) ==
  LET above == IF y = 1 THEN y ELSE y - 1
      below == IF y = BlockRows(ci) THEN y ELSE y + 1
  IN IF c.latch[ci] # 0 /\ c.coefs[ci][y][col][2] = 0
     THEN <<c.coefs[ci][above][col][1], c.coefs[ci][below][col][1]>>
     ELSE PlainAc(c, ci, y, col)

\* jinit_d_coef_controller, in the image pool like everything it allocates.
InitCoefController(c, full) ==
  [c EXCEPT !.fullBuffer = full, !.coefs = ZeroImage(NumComps(c)), !.latch = <<>>]

-----------------------------------------------------------------------------
\* The input controller.

\* initial_setup: at the first SOS; no quantization table is latched yet.
InitialSetup(c) ==
  IF NumComps(c) > MaxComponents THEN Fail(c)
  ELSE [c EXCEPT !.latched = [ci \in 1 .. NumComps(c) |-> NoTable],
                 !.multi = Len(c.scan) < NumComps(c) \/ c.progressive, !.inheaders = FALSE]

\* latch_quant_tables: the table in force at the first scan of a component.
QuantSlot(c, ci) == c.comps.info[ci] % 16
Unlatched(c) == {ci \in {c.scan[k][1] : k \in DOMAIN c.scan} : c.latched[ci] = NoTable}

LatchQuantTables(c) ==
  IF \E ci \in Unlatched(c) : c.qtabs[QuantSlot(c, ci)] = NoTable THEN Fail(c)
  ELSE Ok([c EXCEPT !.latched = [ci \in DOMAIN @ |->
             IF ci \in Unlatched(c) THEN c.qtabs[QuantSlot(c, ci)] ELSE @[ci]]])

StartPassEntropy(c) == IF c.progressive THEN StartPassPhuff(c) ELSE StartPassHuff(c)

\* A bug to be caught: the one-pass controller's scan is to be read into the arrays.
StartInputPassBuffered(c) ==
  Then(Then(LatchQuantTables(c), StartPassEntropy),
       LAMBDA e : [CoefStartInputPass(e) EXCEPT !.consume = "data"])

StartInputPass(c) ==
  Then(Then(LatchQuantTables(c), StartPassEntropy),
       LAMBDA e : [CoefStartInputPass(e) EXCEPT !.consume = IF e.fullBuffer THEN "data" ELSE "dummy"])

\* consume_markers at an SOS and at the EOI: the first SOS ends the header.
SosReached(c) ==
  IF c.inheaders THEN InitialSetup(c)
  ELSE IF ~c.multi THEN Fail(c)
  ELSE Then(StartInputPass(Ok(c)), LAMBDA s : [s EXCEPT !.st = "sos"])

EoiReachedUnclamped(c) ==     \* a bug to be caught: output_scan_number is left as it is
  IF c.inheaders /\ c.sawSOF THEN Fail(c) ELSE [c EXCEPT !.eoi = TRUE]

EoiReached(c) ==
  IF c.inheaders THEN IF c.sawSOF THEN Fail(c) ELSE [c EXCEPT !.eoi = TRUE]
  ELSE [c EXCEPT !.eoi = TRUE, !.outputScan = Min({@, c.inputScan})]

MarkersRead(c) == CASE c.st = "sos" -> SosReached(c)
                    [] c.st = "eoi" -> EoiReached(c)
                    [] OTHER        -> c

ConsumeMarkers(c) == IF c.eoi THEN [c EXCEPT !.st = "eoi"] ELSE MarkersRead(ReadMarkers(c))

ResetInputController(c) ==
  [ResetMarkerReader(c) EXCEPT !.consume = "markers", !.multi = FALSE, !.eoi = FALSE,
                               !.inheaders = TRUE, !.coefBits = <<>>]

\* The consume_input method: what the input controller reads next.
Consume(c) == CASE c.consume = "markers" -> ConsumeMarkers(c)
                [] c.consume = "data"    -> ConsumeData(c)
                [] c.consume = "dummy"   -> DummyConsumeData(c)

\* The decompress_data method: one turn, consuming input when the output would
\* get ahead of it.
GoOn(c) == IF c.st \in {"susp", "error"} THEN c ELSE [c EXCEPT !.st = "again"]

DecompressData(c) ==
  IF InputBehind(c) THEN GoOn(Consume(c))
  ELSE Delivered(c, EmitRows(c, c.outputRow, LAMBDA ci, y, x : PlainAc(c, ci, y, x)))

DecompressSmoothData(c) ==
  IF SmoothInputBehind(c) THEN GoOn(Consume(c))
  ELSE Delivered(c, EmitRows(c, c.outputRow, LAMBDA ci, y, x : SmoothAc(c, ci, y, x)))

Decompress(c) == IF ~c.fullBuffer THEN DecompressOnepass(c)
                 ELSE IF c.smooth THEN DecompressSmoothData(c) ELSE DecompressData(c)
=============================================================================
