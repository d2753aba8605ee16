----------------------------- MODULE JpegStream -----------------------------
(***************************************************************************)
(* What a datastream means: a reader written from the coding rules alone,  *)
(* with none of the encoder's state, against which the streams of          *)
(* JpegCompressor are checked.  It models no code of its own.              *)
(*                                                                         *)
(* The reader keeps its tables between datastreams, as the abbreviated     *)
(* datastreams of jpeg_write_tables require.  It checks that every code    *)
(* was made with the table it holds, that restart markers come after       *)
(* "interval" MCUs with consecutive numbers, and that no code is left.     *)
(***************************************************************************)
EXTENDS JpegScanEncoder

NoTables == [quant |-> [s \in Slots |-> 0], huff |-> [class \in Classes |-> [s \in Slots |-> {}]]]

ZeroBlocks == [ci \in Comps |-> [row \in 1 .. BlockRows(ci) |-> [col \in 1 .. BlockCols(ci) |->
                 [dc |-> 0, ac |-> [k \in 1..Band |-> 0]]]]]

InImage(p) == p.row <= BlockRows(p.ci) /\ p.col <= BlockCols(p.ci)
Ac(s, p)   == IF InImage(p) THEN s.img[p.ci][p.row][p.col].ac ELSE [k \in 1..Band |-> 0]
SetDc(s, p, v) == IF InImage(p) THEN [s EXCEPT !.img[p.ci][p.row][p.col].dc = v] ELSE s
SetAc(s, p, k, v) == IF InImage(p) THEN [s EXCEPT !.img[p.ci][p.row][p.col].ac[k] = v] ELSE s

Bad(s) == [s EXCEPT !.ok = FALSE]

\* The next code, if it was made with the given table.
Readable(s, table) == s.ok /\ s.codes # <<>> /\ Head(s.codes).by = table /\ Head(s.codes).sym \in table
Read(s) == [s EXCEPT !.codes = Tail(@)]

TableOf(d, class, ci) == d.tabs.huff[class][d.slots[ci]]

\* The place of block i of MCU m of a scan.
Places(scan, m) ==
  LET one == Len(scan.comps) = 1
      cols == IF one THEN BlockCols(scan.comps[1]) ELSE TotalCols
      Of(ci) == LET w == IF one THEN 1 ELSE HSamp[ci]
                    h == IF one THEN 1 ELSE VSamp[ci]
                IN [i \in 1 .. w * h |-> [ci |-> ci, row |-> (m \div cols) * h + (i - 1) \div w + 1,
                                          col |-> (m % cols) * w + ((i - 1) % w) + 1]]
  IN FoldLeft(LAMBDA a, ci : a \o Of(ci), <<>>, scan.comps)
McuCount(scan) == IF Len(scan.comps) = 1
                  THEN BlockRows(scan.comps[1]) * BlockCols(scan.comps[1]) ELSE TotalRows * TotalCols

\* A DC difference, in units of 2^al.
ReadDc(d, s, p, al) ==
  LET table == TableOf(d, "dc", p.ci)
      code == Head(s.codes)
      v == s.last[p.ci] + code.bits
  IN IF ~Readable(s, table) \/ NBits(code.bits) # code.sym[1] THEN Bad(s)
     ELSE [SetDc(Read(s), p, v * 2 ^ al) EXCEPT !.last[p.ci] = v]

\* The AC values k .. se of a block seen for the first time.
RECURSIVE ReadAc(_, _, _, _, _, _)
ReadAc(d, s, p, k, se, al) ==
  LET table == TableOf(d, "ac", p.ci)
      code == Head(s.codes)
      r == code.sym[1]
      n == code.sym[2]
      next == Read(s)
  IN IF k > se \/ ~s.ok THEN s
     ELSE IF ~Readable(s, table) THEN Bad(s)
     ELSE IF n = 0 /\ r = MaxZeros THEN ReadAc(d, next, p, k + MaxZeros + 1, se, al)
     ELSE IF n = 0 /\ ~d.progressive THEN IF r = 0 THEN next ELSE Bad(s)
     ELSE IF n = 0 THEN IF NBits(code.bits) = r + 1 THEN [next EXCEPT !.eobrun = code.bits - 1] ELSE Bad(s)
     ELSE IF k + r > se \/ NBits(code.bits) # n THEN Bad(s)
     ELSE ReadAc(d, SetAc(next, p, k + r, code.bits * 2 ^ al), p, k + r + 1, se, al)

ReadBit(s) == Readable(s, RawBits) /\ Head(s.codes).bits \in {0, 1}

\* A correction bit for a value that is not zero: one more unit of 2^al.
Correct(s, p, k, al) ==
  LET v == Ac(s, p)[k]
  IN IF ~ReadBit(s) THEN Bad(s)
     ELSE SetAc(Read(s), p, k, v + Head(s.codes).bits * Sign(v) * 2 ^ al)

\* Pass over values k .. se until "zeros" of them were zero and one more is:
\* s.at is that one, or se + 1.
RECURSIVE PassOver(_, _, _, _, _, _)
PassOver(s, p, k, se, zeros, al) ==
  IF k > se \/ ~s.ok THEN [s EXCEPT !.at = k]
  ELSE IF Ac(s, p)[k] # 0 THEN PassOver(Correct(s, p, k, al), p, k + 1, se, zeros, al)
  ELSE IF zeros = 0 THEN [s EXCEPT !.at = k]
  ELSE PassOver(s, p, k + 1, se, zeros - 1, al)

\* The last block of a run, or one inside it: only correction bits.
RunBlock(s, p, k, se, al) == PassOver([s EXCEPT !.eobrun = @ - 1], p, k, se, Band, al)

RECURSIVE RefineAc(_, _, _, _, _, _)
RefineAc(d, s, p, k, se, al) ==
  LET table == TableOf(d, "ac", p.ci)
      code == Head(s.codes)
      r == code.sym[1]
      n == code.sym[2]
      over == PassOver(Read(s), p, k, se, r, al)
  IN IF k > se \/ ~s.ok THEN s
     ELSE IF s.eobrun > 0 THEN RunBlock(s, p, k, se, al)
     ELSE IF ~Readable(s, table) \/ n > 1 THEN Bad(s)
     ELSE IF n = 0 /\ r < MaxZeros
          THEN IF NBits(code.bits) = r + 1
               THEN RunBlock([Read(s) EXCEPT !.eobrun = code.bits], p, k, se, al) ELSE Bad(s)
     ELSE IF over.at > se THEN Bad(s)
     ELSE RefineAc(d, IF n = 0 THEN over ELSE SetAc(over, p, over.at, code.bits * 2 ^ al),
                   p, over.at + 1, se, al)

ReadBlock(d, s, p) ==
  LET scan == d.scan
      dc == ReadDc(d, s, p, scan.Al)
  IN IF ~d.progressive THEN IF dc.ok THEN ReadAc(d, dc, p, 1, Band, 0) ELSE dc
     ELSE IF scan.Ss = 0
          THEN IF scan.Ah = 0 THEN dc
               ELSE IF ~ReadBit(s) THEN Bad(s)
               ELSE SetDc(Read(s), p, (IF InImage(p) THEN s.img[p.ci][p.row][p.col].dc ELSE 0)
                                        + Head(s.codes).bits * 2 ^ scan.Al)
     ELSE IF scan.Ah # 0 THEN RefineAc(d, s, p, scan.Ss, scan.Se, scan.Al)
     ELSE IF s.eobrun > 0 THEN [s EXCEPT !.eobrun = @ - 1]
     ELSE ReadAc(d, s, p, scan.Ss, scan.Se, scan.Al)

\* A segment of n MCUs: predictions and runs start anew, and nothing is left over.
ReadSegment(d, n) ==
  LET start == [img |-> d.img, codes |-> d.codes, last |-> [ci \in Comps |-> 0], eobrun |-> 0,
                ok |-> d.ok, at |-> 0]
      Mcu(s, i) == FoldLeft(LAMBDA x, p : IF x.ok THEN ReadBlock(d, x, p) ELSE x,
                            s, Places(d.scan, d.mcu + i - 1))
      After(end) == [d EXCEPT !.img = end.img, !.codes = <<>>, !.mcu = @ + n,
                              !.ok = end.ok /\ end.codes = <<>> /\ end.eobrun = 0]
  IN After(FoldLeft(Mcu, start, [i \in 1..n |-> i]))

EndScan(d) ==
  IF d.scan = <<>> THEN d
  ELSE [ReadSegment(d, McuCount(d.scan) - d.mcu) EXCEPT !.scan = <<>>]

StartScan(d, scan) ==
  [d EXCEPT !.scan = scan, !.mcu = 0, !.rst = 0, !.codes = <<>>,
            !.q = [ci \in Comps |-> IF Contains(scan.comps, ci) /\ @[ci] = 0
                                    THEN d.tabs.quant[d.slots[ci]] ELSE @[ci]],
            !.ok = @ /\ d.slots # <<>>]

ReadMarker(d, item) ==
  CASE item[1] = "DQT"  -> [d EXCEPT !.tabs.quant[item[2]] = item[3]]
    [] item[1] = "DHT"  -> [d EXCEPT !.tabs.huff[item[2]][item[3]] = item[4]]
    [] item[1] = "DRI"  -> [d EXCEPT !.interval = item[2]]
    [] item[1] = "SOF"  -> [d EXCEPT !.progressive = item[2], !.slots = item[3], !.ok = @ /\ d.slots = <<>>]
    [] item[1] = "SOS"  -> StartScan(d, item[2])
    [] item[1] = "SOI"  -> [d EXCEPT !.interval = 0]
    [] item[1] = "COM"  -> [d EXCEPT !.ok = @ /\ d.slots = <<>>]
    [] item[1] = "EOI"  -> d

ReadItem(d, item) ==
  CASE item[1] = "bits" -> [d EXCEPT !.codes = @ \o item[2], !.ok = @ /\ d.scan # <<>>]
    [] item[1] = "RST"  -> [ReadSegment(d, d.interval) EXCEPT
                              !.ok = @ /\ d.scan # <<>> /\ d.interval # 0 /\ item[2] = d.rst
                                     /\ d.mcu + d.interval < McuCount(d.scan),
                              !.rst = (@ + 1) % 8]
    [] OTHER            -> ReadMarker(EndScan(d), item)

\* The meaning of a datastream for a reader that holds the tables tabs.
Meaning(items, tabs) ==
  FoldLeft(ReadItem,
           [tabs |-> tabs, interval |-> 0, progressive |-> FALSE, slots |-> <<>>, scan |-> <<>>,
            q |-> [ci \in Comps |-> 0], codes |-> <<>>, mcu |-> 0, rst |-> 0,
            img |-> ZeroBlocks, ok |-> items[1] = <<"SOI">> /\ items[Len(items)] = <<"EOI">>],
           items)
=============================================================================
