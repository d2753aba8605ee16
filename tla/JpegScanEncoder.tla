-------------------------- MODULE JpegScanEncoder ---------------------------
(***************************************************************************)
(* The entropy encoders of the JPEG compressor (jchuff.c, jcphuff.c) and   *)
(* its coefficient controllers (jccoefct.c and the one of jctrans.c), one  *)
(* operator per C function on the compression object c.                    *)
(*                                                                         *)
(* A block is [dc, ac], ac the Band AC coefficients in zigzag order.  A    *)
(* Huffman table is the set of symbols it has a code for.  A code in the   *)
(* stream is the table it was made with (RawBits for bits that are not     *)
(* Huffman coded), its symbol and the bits after it; two codes make a      *)
(* byte, so that the bit buffer holds one code or none.                    *)
(***************************************************************************)
EXTENDS JpegMarkerWriter

CONSTANTS HSamp, VSamp, \* h_samp_factor and v_samp_factor of each component
          Width, Height,\* of the image in blocks of the largest component
          Band,         \* AC coefficients of a block: DCTSIZE2 - 1
          MaxZeros,     \* longest run of zeros in one symbol: 15
          MaxRun,       \* the EOB run that is forced out: 0x7FFF
          MaxCorr,      \* size of the correction bit buffer: MAX_CORR_BITS
          Pictures      \* the quantized coefficients of the images, by component

MaxOf(f)        == CHOOSE m \in {f[i] : i \in DOMAIN f} : \A i \in DOMAIN f : f[i] <= m
RoundUp(a, b)   == (a + b - 1) \div b                   \* jdiv_round_up
Comps           == DOMAIN VSamp
MaxV            == MaxOf(VSamp)                         \* max_v_samp_factor
TotalRows       == RoundUp(Height, MaxV)                \* total_iMCU_rows
TotalCols       == RoundUp(Width, MaxOf(HSamp))
BlockRows(ci)   == RoundUp(Height * VSamp[ci], MaxV)    \* height_in_blocks
BlockCols(ci)   == RoundUp(Width * HSamp[ci], MaxOf(HSamp))

Abs(v)   == IF v < 0 THEN -v ELSE v
NBits(v) == CHOOSE n \in 0..Abs(v) : 2 ^ n > Abs(v) /\ (n = 0 \/ 2 ^ (n - 1) <= Abs(v))
RawBits  == {<<"raw", 0>>}

Single(c) == Len(c.scan.comps) = 1

\* per_scan_setup
McusPerRow(c)    == IF Single(c) THEN BlockCols(c.scan.comps[1]) ELSE TotalCols
McuWidth(c, ci)  == IF Single(c) THEN 1 ELSE HSamp[ci]
McuHeight(c, ci) == IF Single(c) THEN 1 ELSE VSamp[ci]

-----------------------------------------------------------------------------
\* Codes and the bit buffer, of both encoders.

Code(table, symbol, bits) == [by |-> table, sym |-> symbol, bits |-> bits]

\* emit_bits; "if size is 0, caller used an invalid Huffman table entry".
EmitBits(c, code) ==
  LET pending == Append(c.bits, code)
  IN IF c.st # "ok" THEN c
     ELSE IF code.sym \notin code.by THEN Fail(c, "HUFF_MISSING_CODE")
     ELSE IF Len(pending) < 2 THEN [c EXCEPT !.bits = pending]
     ELSE [EmitByte(c, <<"bits", pending>>) EXCEPT !.bits = <<>>]

\* flush_bits: fill any partial byte with ones.
FlushBits(c) ==
  IF c.bits = <<>> THEN c ELSE [EmitByte(c, <<"bits", c.bits>>) EXCEPT !.bits = <<>>]

RestartDue(c) == c.interval # 0 /\ c.togo = 0

\* A bug to be caught: the restart number is not reduced modulo 8.
RestartCountedOn(c) ==
  IF c.interval = 0 \/ c.st # "ok" THEN c
  ELSE [c EXCEPT !.togo = (IF @ = 0 THEN c.interval ELSE @) - 1,
                 !.nextRst = IF c.togo = 0 THEN @ + 1 ELSE @]

\* The counters after an MCU; next_restart_num counts modulo 8.
RestartCounted(c) ==
  IF c.interval = 0 \/ c.st # "ok" THEN c
  ELSE [c EXCEPT !.togo = (IF @ = 0 THEN c.interval ELSE @) - 1,
                 !.nextRst = IF c.togo = 0 THEN (@ + 1) % 8 ELSE @]

NoPredictions(c) == [c EXCEPT !.lastDc = [ci \in Comps |-> 0]]

-----------------------------------------------------------------------------
\* jchuff.c

HuffCode(c, class, ci, symbol, bits) == Code(c.htabs[class][c.slots[ci]], symbol, bits)

\* encode_one_block: the difference of the DC values, a symbol for each nonzero
\* AC value and the zeros before it, an end of block for the zeros at the end.
EncodeOneBlock(c, b) ==
  LET diff == b.dc - c.lastDc[b.ci]
      Zrl(r) == [i \in 1 .. r \div (MaxZeros + 1) |-> HuffCode(c, "ac", b.ci, <<MaxZeros, 0>>, 0)]
      Step(a, v) ==
        IF v = 0 THEN [a EXCEPT !.r = @ + 1]
        ELSE [r |-> 0,
              codes |-> a.codes \o Zrl(a.r) \o
                <<HuffCode(c, "ac", b.ci, <<a.r % (MaxZeros + 1), NBits(v)>>, v)>>]
      all == FoldLeft(Step, [r |-> 0, codes |-> <<HuffCode(c, "dc", b.ci, <<NBits(diff), 0>>, diff)>>],
                      b.ac)
      end == IF all.r > 0 THEN <<HuffCode(c, "ac", b.ci, <<0, 0>>, 0)>> ELSE <<>>
  IN [ForEach(c, all.codes \o end, EmitBits) EXCEPT !.lastDc[b.ci] = b.dc]

\* emit_restart
EmitRestartHuff(c) == NoPredictions(EmitByte(FlushBits(c), <<"RST", c.nextRst>>))

\* A bug to be caught: a suspension keeps the DC predictions of the working state.
McuEncodedKeeping(c, w) ==
  IF w.st = "susp" THEN [c EXCEPT !.st = "susp", !.lastDc = w.lastDc] ELSE RestartCounted(w)

\* encode_mcu_huff works on a copy of the state, which a suspension throws away.
McuEncoded(c, w) == IF w.st = "susp" THEN [c EXCEPT !.st = "susp"] ELSE RestartCounted(w)

EncodeMcuHuff(c, blocks) ==
  McuEncoded(c, ForEach(IF RestartDue(c) THEN EmitRestartHuff(c) ELSE c, blocks, EncodeOneBlock))

\* htest_one_block: the symbols encode_one_block would use.
HtestOneBlock(c, b) ==
  LET slot == c.slots[b.ci]
      nz == {k \in 1..Band : b.ac[k] # 0}
      Zeros(k) == k - 1 - (IF \E j \in nz : j < k
                           THEN CHOOSE j \in nz : j < k /\ \A i \in nz : i < k => i <= j ELSE 0)
      acs == {<<Zeros(k) % (MaxZeros + 1), NBits(b.ac[k])>> : k \in nz}
               \cup (IF \E k \in nz : Zeros(k) > MaxZeros THEN {<<MaxZeros, 0>>} ELSE {})
               \cup (IF Band \notin nz THEN {<<0, 0>>} ELSE {})
  IN [c EXCEPT !.stats["dc"][slot] = @ \cup {<<NBits(b.dc - c.lastDc[b.ci]), 0>>},
               !.stats["ac"][slot] = @ \cup acs,
               !.lastDc[b.ci] = b.dc]

\* encode_mcu_gather
EncodeMcuGather(c, blocks) ==
  LET w == FoldLeft(HtestOneBlock, IF RestartDue(c) THEN NoPredictions(c) ELSE c, blocks)
  IN [RestartCounted(w) EXCEPT !.nextRst = c.nextRst]

-----------------------------------------------------------------------------
\* jcphuff.c.  The same functions gather statistics and make the output.

\* emit_symbol, with the bits that follow it
EmitSymbol(c, class, slot, symbol, bits) ==
  IF c.gather THEN [c EXCEPT !.stats[class][slot] = @ \cup {symbol}]
  ELSE EmitBits(c, Code(c.htabs[class][slot], symbol, bits))

\* emit_buffered_bits
EmitBufferedBits(c, bits) ==
  IF c.gather THEN c
  ELSE ForEach(c, bits, LAMBDA w, bit : EmitBits(w, Code(RawBits, <<"raw", 0>>, bit)))

AcSlot(c) == c.slots[c.scan.comps[1]]

\* emit_eobrun: the pending end-of-band run and its correction bits.
EmitEobrun(c) ==
  IF c.eobrun = 0 THEN c
  ELSE EmitBufferedBits([EmitSymbol(c, "ac", AcSlot(c), <<NBits(c.eobrun) - 1, 0>>, c.eobrun)
                           EXCEPT !.eobrun = 0, !.corr = <<>>], c.corr)

EmitRestartPhuff(c) ==
  LET Marked(w) == IF c.gather THEN w ELSE EmitByte(FlushBits(w), <<"RST", c.nextRst>>)
      Reset(r)  == IF c.scan.Ss = 0 THEN NoPredictions(r) ELSE [r EXCEPT !.eobrun = 0, !.corr = <<>>]
  IN Reset(Marked(EmitEobrun(c)))

\* encode_mcu_DC_first: an arithmetic shift, differences of the shifted values.
EncodeMcuDcFirst(c, blocks) ==
  LET Block(w, b) ==
        LET v == b.dc \div 2 ^ c.scan.Al
        IN [EmitSymbol(w, "dc", c.slots[b.ci], <<NBits(v - w.lastDc[b.ci]), 0>>, v - w.lastDc[b.ci])
              EXCEPT !.lastDc[b.ci] = v]
  IN ForEach(c, blocks, Block)

\* encode_mcu_DC_refine: one bit of each value.
EncodeMcuDcRefine(c, blocks) ==
  ForEach(c, blocks, LAMBDA w, b : EmitBufferedBits(w, <<(b.dc \div 2 ^ c.scan.Al) % 2>>))

\* The AC values of the band, shifted towards zero.
Shifted(c, b) == [k \in 1..Band |-> IF k \in c.scan.Ss .. c.scan.Se
                                    THEN Abs(b.ac[k]) \div 2 ^ c.scan.Al ELSE 0]
BandSeq(c) == [i \in 1 .. c.scan.Se - c.scan.Ss + 1 |-> c.scan.Ss + i - 1]
Sign(v) == IF v < 0 THEN -1 ELSE 1

\* A bug to be caught: the run is forced out when the buffer is already full.
CountEobLate(c, bits) ==
  LET w == [c EXCEPT !.eobrun = @ + 1, !.corr = @ \o bits]
  IN IF w.eobrun = MaxRun \/ Len(w.corr) >= MaxCorr THEN EmitEobrun(w) ELSE w

\* The end of a block that ends in zeros or correction bits: one more in the run,
\* forced out before the counter or the buffer can overflow.
CountEob(c, bits) ==
  LET w == [c EXCEPT !.eobrun = @ + 1, !.corr = @ \o bits]
  IN IF w.eobrun = MaxRun \/ Len(w.corr) > MaxCorr - Band THEN EmitEobrun(w) ELSE w

\* encode_mcu_AC_first
EncodeMcuAcFirst(c, blocks) ==
  LET b == blocks[1]
      value == Shifted(c, b)
      Step(a, k) ==
        IF value[k] = 0 THEN [a EXCEPT !.r = @ + 1]
        ELSE [w |-> EmitSymbol(ForEach(EmitEobrun(a.w), [i \in 1 .. a.r \div (MaxZeros + 1) |-> i],
                                       LAMBDA w, i : EmitSymbol(w, "ac", AcSlot(c), <<MaxZeros, 0>>, 0)),
                               "ac", AcSlot(c), <<a.r % (MaxZeros + 1), NBits(value[k])>>,
                               Sign(b.ac[k]) * value[k]),
              r |-> 0]
      End(all) == IF all.r > 0 THEN CountEob(all.w, <<>>) ELSE all.w
  IN End(FoldLeft(Step, [w |-> c, r |-> 0], BandSeq(c)))

\* encode_mcu_AC_refine: a symbol for each newly nonzero value, followed by the
\* correction bits of the values passed over, which were nonzero before.
EncodeMcuAcRefine(c, blocks) ==
  LET b == blocks[1]
      value == Shifted(c, b)
      new  == {k \in 1..Band : value[k] = 1}
      eob  == IF new = {} THEN 0 ELSE CHOOSE k \in new : \A j \in new : j <= k
      Symbol(a, r, bits) ==       \* with the pending run before it and the bits after it
        [w  |-> EmitBufferedBits(EmitSymbol(EmitEobrun(a.w), "ac", AcSlot(c), r, bits), a.br),
         r  |-> IF r[2] = 0 THEN a.r - MaxZeros - 1 ELSE 0,
         br |-> <<>>]
      Buffered(a, bit) ==         \* bit_buffer[BE + BR]
        [a EXCEPT !.br = Append(@, bit),
                  !.w = IF Len(a.w.corr) + Len(a.br) >= MaxCorr THEN Fail(@, "BUFFER_OVERRUN") ELSE @]
      Nonzero(z, k) == IF value[k] > 1 THEN Buffered(z, value[k] % 2)
                       ELSE Symbol(z, <<z.r, 1>>, Sign(b.ac[k]))
      Step(a, k) ==
        IF value[k] = 0 THEN [a EXCEPT !.r = @ + 1]
        ELSE Nonzero(FoldLeft(LAMBDA x, i : Symbol(x, <<MaxZeros, 0>>, 0), a,
                              [i \in 1 .. (IF k <= eob THEN a.r \div (MaxZeros + 1) ELSE 0) |-> i]), k)
      End(all) == IF all.r > 0 \/ all.br # <<>> THEN CountEob(all.w, all.br) ELSE all.w
  IN End(FoldLeft(Step, [w |-> c, r |-> 0, br |-> <<>>], BandSeq(c)))

EncodeBand(c, blocks) ==
  CASE c.scan.Ss = 0 /\ c.scan.Ah = 0 -> EncodeMcuDcFirst(c, blocks)
    [] c.scan.Ss = 0 /\ c.scan.Ah # 0 -> EncodeMcuDcRefine(c, blocks)
    [] c.scan.Ss # 0 /\ c.scan.Ah = 0 -> EncodeMcuAcFirst(c, blocks)
    [] c.scan.Ss # 0 /\ c.scan.Ah # 0 -> EncodeMcuAcRefine(c, blocks)

\* emit_byte of jcphuff.c: these scans can not suspend.
NoSuspension(c) == IF c.st = "susp" THEN Fail(c, "CANT_SUSPEND") ELSE c

EncodeMcuPhuff(c, blocks) ==
  RestartCounted(NoSuspension(EncodeBand(IF RestartDue(c) THEN EmitRestartPhuff(c) ELSE c, blocks)))

-----------------------------------------------------------------------------
\* Both.

NoStats == [class \in Classes |-> [s \in Slots |-> {}]]

\* start_pass_huff and start_pass_phuff: the tables of an output pass must exist.
StartPassEntropy(c, gather) ==
  LET missing == \E i \in DOMAIN c.scan.comps, j \in DOMAIN ScanClasses(c) :
                   c.htabs[ScanClasses(c)[j]][c.slots[c.scan.comps[i]]] = NoTable
      w == NoPredictions([c EXCEPT !.gather = gather, !.stats = NoStats, !.eobrun = 0, !.corr = <<>>,
                                   !.bits = <<>>, !.togo = c.interval, !.nextRst = 0])
  IN IF c.st # "ok" THEN c
     ELSE IF ~gather /\ missing THEN Fail(c, "NO_HUFF_TABLE") ELSE w

EncodeMcu(c, blocks) ==
  IF c.progressive THEN EncodeMcuPhuff(c, blocks)
  ELSE IF c.gather THEN EncodeMcuGather(c, blocks) ELSE EncodeMcuHuff(c, blocks)

\* finish_pass_gather and finish_pass_gather_phuff, with jpeg_gen_optimal_table:
\* a new table is one that has not been sent.
FinishPassGather(c) ==
  LET w == IF c.progressive THEN EmitEobrun(c) ELSE c
      new == {<<class, s>> \in Classes \X Slots :
                \E i \in DOMAIN c.scan.comps, j \in DOMAIN ScanClasses(c) :
                  class = ScanClasses(c)[j] /\ s = c.slots[c.scan.comps[i]]}
  IN [w EXCEPT !.htabs = [k \in Classes |-> [s \in Slots |-> IF <<k, s>> \in new THEN w.stats[k][s] ELSE @[k][s]]],
               !.hsent = [k \in Classes |-> [s \in Slots |-> IF <<k, s>> \in new THEN FALSE ELSE @[k][s]]]]

\* finish_pass_huff and finish_pass_phuff
FinishPassOutput(c) ==
  NoSuspension(FlushBits(IF c.progressive THEN EmitEobrun(c) ELSE c))

FinishPassEntropy(c) == IF c.gather THEN FinishPassGather(c) ELSE FinishPassOutput(c)

-----------------------------------------------------------------------------
\* The coefficient controller.

StartImcuRow(c) ==
  LET ci == c.scan.comps[1]
      last == IF BlockRows(ci) % VSamp[ci] = 0 THEN VSamp[ci] ELSE BlockRows(ci) % VSamp[ci]
  IN [c EXCEPT !.rowsPer = IF ~Single(c) THEN 1 ELSE IF c.imcuRow < TotalRows - 1 THEN VSamp[ci] ELSE last,
               !.ctr = 0, !.voff = 0]

\* start_pass_coef
StartPassCoef(c, mode) ==
  IF c.st # "ok" THEN c
  ELSE IF (mode = "pass_thru") = c.whole THEN Fail(c, "BAD_BUFFER_MODE")
  ELSE StartImcuRow([c EXCEPT !.imcuRow = 0, !.mode = mode])

\* The block at a place of the padded component: real, or a dummy block with the
\* DC value of the last real one before it in its MCU.
Padded(c, ci, row, col) ==
  LET y == IF row <= BlockRows(ci) THEN row ELSE BlockRows(ci)
      mcuEnd == RoundUp(col, HSamp[ci]) * HSamp[ci]
      want == IF row <= BlockRows(ci) THEN col ELSE mcuEnd
      x == IF want <= BlockCols(ci) THEN want ELSE BlockCols(ci)
      b == Pictures[c.pic][ci][y][x]
  IN IF row <= BlockRows(ci) /\ col <= BlockCols(ci) THEN [ci |-> ci, dc |-> b.dc, ac |-> b.ac]
     ELSE [ci |-> ci, dc |-> b.dc, ac |-> [k \in 1..Band |-> 0]]

\* The blocks of the next MCU.
McuBlocks(c) ==
  LET Row(ci, y) == [x \in 1 .. McuWidth(c, ci) |->
        Padded(c, ci, c.imcuRow * VSamp[ci] + c.voff + y, c.ctr * McuWidth(c, ci) + x)]
      Comp(all, ci) == FoldLeft(LAMBDA a, y : a \o Row(ci, y), all, [y \in 1 .. McuHeight(c, ci) |-> y])
  IN FoldLeft(Comp, <<>>, c.scan.comps)

\* compress_data, and compress_output of jccoefct.c and jctrans.c: the rest of the
\* iMCU row; after a suspension it starts again at the MCU that did not fit.
CompressRow(c) ==
  LET NextMcu(e) == IF e.ctr + 1 < McusPerRow(e) THEN [e EXCEPT !.ctr = @ + 1]
                    ELSE [e EXCEPT !.ctr = 0, !.voff = @ + 1]
      left == (c.rowsPer - c.voff) * McusPerRow(c) - c.ctr
  IN Try(ForEach(c, [i \in 1..left |-> i], LAMBDA w, i : Try(EncodeMcu(w, McuBlocks(w)), NextMcu)),
         LAMBDA done : StartImcuRow([done EXCEPT !.imcuRow = @ + 1]))

\* compress_first_pass: all components go into the virtual arrays, then the
\* components of the scan to the entropy encoder.
CompressFirstPass(c) == CompressRow([c EXCEPT !.saved = c.imcuRow + 1])

\* compress_output reads the virtual arrays, which must have been filled.
CompressOutput(c) ==
  IF c.imcuRow >= c.saved THEN Fail(c, "BAD_VIRTUAL_ACCESS") ELSE CompressRow(c)

CompressData(c) ==
  CASE c.mode = "pass_thru"     -> CompressRow(c)
    [] c.mode = "save_and_pass" -> CompressFirstPass(c)
    [] c.mode = "crank_dest"    -> CompressOutput(c)
=============================================================================
