--------------------------- MODULE JpegCompressor ---------------------------
(***************************************************************************)
(* The compression API (jcapimin.c, jcapistd.c, jctrans.c), the pass       *)
(* sequencing of jcmaster.c and the main controller of jcmainct.c over the *)
(* encoders of JpegScanEncoder, used by an application that writes several *)
(* datastreams with one object, to a file or to a suspending destination   *)
(* whose buffer it empties between calls, and may give up an image at any  *)
(* time.                                                                   *)
(*                                                                         *)
(* One row of samples stands for one row of blocks (DCTSIZE is 1): an iMCU *)
(* row is MaxV rows of the application.                                    *)
(***************************************************************************)
EXTENDS JpegStream

CONSTANTS Settings,    \* parameters the application may set, see Requested
          Sizes,       \* sizes of the output buffer
          MaxStreams   \* bound on the datastreams begun with one object

VARIABLES c,         \* the jpeg_compress_struct and its modules
          finishing, \* jpeg_finish_compress is in its loop over the passes
          streams,   \* datastreams begun
          stale,     \* a table marked sent may be missing: an image was given up
          reader,    \* tables held by a reader of all datastreams completed before
          last,      \* the last completed datastream, <<>> when another is begun
          turn       \* flips with every call for an image that has been begun
vars == <<c, finishing, streams, stale, reader, last, turn>>

GlobalStates == {"start", "scanning", "rawok", "wrcoefs"}
PassTypes == {"main", "huff_opt", "output"}

\* The symbols of the tables of std_huff_tables: they are made for sequential scans.
StdTable(class) == IF class = "dc" THEN {<<n, 0>> : n \in 0..3}
                   ELSE {<<r, n>> : r \in 0..MaxZeros, n \in 1..2} \cup {<<0, 0>>, <<MaxZeros, 0>>}

\* jpeg_set_defaults, then the parameters of the application.  A new table is
\* one that has not been sent.
SetDefaults(d, s) ==
  [d EXCEPT !.setting = s, !.optimize = s.optimize, !.raw = s.raw, !.script = s.script,
            !.interval = s.interval, !.inRows = s.inRows, !.slots = s.slots,
            !.qtabs = [slot \in Slots |-> s.quality + slot], !.qsent = [slot \in Slots |-> FALSE],
            !.htabs = [class \in Classes |-> [slot \in Slots |-> StdTable(class)]],
            !.hsent = [class \in Classes |-> [slot \in Slots |-> FALSE]]]

\* jpeg_CreateCompress, then jpeg_set_defaults
CreateCompress(s) ==
  SetDefaults(
    [gstate |-> "start", st |-> "ok", err |-> "none", pic |-> 0, setting |-> s,
     optimize |-> FALSE, raw |-> FALSE, script |-> <<>>, interval |-> 0, inRows |-> 0,
     slots |-> <<>>, progressive |-> FALSE,
     qtabs |-> [slot \in Slots |-> 0], qsent |-> [slot \in Slots |-> FALSE],
     htabs |-> NoStats, hsent |-> [class \in Classes |-> [slot \in Slots |-> FALSE]],
     lastInterval |-> 0, passType |-> "main", scanNo |-> 0, passNo |-> 0, total |-> 0,
     isLast |-> FALSE, startup |-> FALSE, scan |-> <<>>,
     gather |-> FALSE, stats |-> NoStats, lastDc |-> [ci \in Comps |-> 0], togo |-> 0,
     nextRst |-> 0, bits |-> <<>>, eobrun |-> 0, corr |-> <<>>,
     imcuRow |-> 0, voff |-> 0, ctr |-> 0, rowsPer |-> 0, mode |-> "pass_thru", whole |-> FALSE,
     saved |-> 0, rowgroup |-> 0, curRow |-> 0, suspended |-> FALSE, next |-> 0,
     suspends |-> FALSE, size |-> 0, buf |-> <<>>, out |-> <<>>],
    s)

\* jpeg_abort: the image pool goes, with all that the modules made for the image.
JpegAbort(d) ==
  [d EXCEPT !.gstate = "start", !.st = "ok", !.err = "none", !.pic = 0, !.passType = "main", !.scanNo = 0, !.passNo = 0,
            !.total = 0, !.isLast = FALSE, !.startup = FALSE, !.scan = <<>>, !.gather = FALSE,
            !.stats = NoStats, !.lastDc = [ci \in Comps |-> 0], !.togo = 0, !.nextRst = 0, !.bits = <<>>,
            !.eobrun = 0, !.corr = <<>>, !.imcuRow = 0, !.voff = 0, !.ctr = 0, !.rowsPer = 0,
            !.whole = FALSE, !.saved = 0, !.rowgroup = 0, !.curRow = 0, !.suspended = FALSE,
            !.buf = <<>>, !.out = <<>>]

-----------------------------------------------------------------------------
\* jcmaster.c

IsSequential(scan) == scan.Ss = 0 /\ scan.Se = Band

\* validate_script, for each component and coefficient the last Al, -1 before
\* its first scan.
ScanFollows(scan, bitpos) ==
  /\ scan.Se < Band + 1 /\ scan.Ss <= scan.Se
  /\ IF scan.Ss = 0 THEN scan.Se = 0 ELSE Len(scan.comps) = 1
  /\ \A i \in DOMAIN scan.comps :
       LET known == bitpos[scan.comps[i]]
       IN /\ scan.Ss # 0 => known[0] >= 0
          /\ \A k \in scan.Ss .. scan.Se :
               IF known[k] < 0 THEN scan.Ah = 0 ELSE scan.Ah = known[k] /\ scan.Al = scan.Ah - 1

InSofOrder(scan) == scan.comps # <<>> /\ \A i, j \in DOMAIN scan.comps : i < j => scan.comps[i] < scan.comps[j]

ValidScript(script) ==
  LET Sent(i) == [ci \in Comps |-> \E j \in 1 .. i : Contains(script[j].comps, ci)]
      Take(bitpos, scan) == [ci \in Comps |-> [k \in 0..Band |->
        IF Contains(scan.comps, ci) /\ k \in scan.Ss .. scan.Se THEN scan.Al ELSE bitpos[ci][k]]]
      BitPos(i) == FoldLeft(Take, [ci \in Comps |-> [k \in 0..Band |-> -1]], SubSeq(script, 1, i))
  IN /\ \A i \in DOMAIN script : InSofOrder(script[i])
     /\ IF IsSequential(script[1])
        THEN /\ \A i \in DOMAIN script : /\ IsSequential(script[i]) /\ script[i].Ah = 0 /\ script[i].Al = 0
                                         /\ \A k \in DOMAIN script[i].comps : ~Sent(i - 1)[script[i].comps[k]]
             /\ \A ci \in Comps : Sent(Len(script))[ci]
        ELSE /\ \A i \in DOMAIN script : ScanFollows(script[i], BitPos(i - 1))
             /\ \A ci \in Comps : BitPos(Len(script))[ci][0] >= 0

\* select_scan_parameters
AllComps == [i \in 1 .. Cardinality(Comps) |-> i]
SelectScanParameters(d) ==
  IF d.script = <<>> THEN [d EXCEPT !.scan = [comps |-> AllComps, Ss |-> 0, Se |-> Band, Ah |-> 0, Al |-> 0]]
  ELSE IF d.scanNo >= Len(d.script) THEN Fail(d, "SCRIPT_OVERRUN")
  ELSE [d EXCEPT !.scan = d.script[d.scanNo + 1]]

\* per_scan_setup: a restart interval given in MCU rows depends on the scan.
PerScanSetup(d) ==
  IF d.inRows > 0 /\ d.st = "ok" THEN [d EXCEPT !.interval = d.inRows * McusPerRow(d)] ELSE d

\* start_pass_main does nothing in raw-data mode.
StartPassMain(d) ==
  IF d.raw THEN d ELSE [d EXCEPT !.curRow = 0, !.rowgroup = 0, !.suspended = FALSE]

SetUpScan(d) == PerScanSetup(SelectScanParameters(d))

\* prepare_for_pass.  A DC refinement scan needs no table: its optimization pass
\* is skipped, and counted.
NoTableNeeded(d) == d.scan.Ss = 0 /\ d.scan.Ah # 0

PrepareMainPass(d) ==
  [StartPassMain(StartPassCoef(StartPassEntropy(SetUpScan(d), d.optimize),
                               IF d.total > 1 THEN "save_and_pass" ELSE "pass_thru"))
     EXCEPT !.startup = ~d.optimize]

PrepareOutputPass(d) ==
  LET Header(w) == IF w.scanNo = 0 THEN WriteFrameHeader(w) ELSE w
  IN Try(Try(StartPassCoef(StartPassEntropy(IF d.optimize THEN d ELSE SetUpScan(d), FALSE), "crank_dest"),
             Header), WriteScanHeader)

PrepareOptPass(d) ==
  IF NoTableNeeded(d) THEN PrepareOutputPass([d EXCEPT !.passType = "output", !.passNo = @ + 1])
  ELSE StartPassCoef(StartPassEntropy(d, TRUE), "crank_dest")

LastPassMarked(d) == [d EXCEPT !.isLast = (d.passNo = d.total - 1)]

PrepareForPass(d) ==
  LastPassMarked(CASE d.passType = "main"     -> PrepareMainPass(d)
                   [] d.passType = "huff_opt" -> Try(SetUpScan(d), PrepareOptPass)
                   [] d.passType = "output"   -> PrepareOutputPass(d))

\* pass_startup: the headers of a single-pass image, at the first data.
PassStartup(d) ==
  IF ~d.startup THEN d
  ELSE Try(WriteFrameHeader([d EXCEPT !.startup = FALSE]), WriteScanHeader)

\* finish_pass_master
FinishPass(d) ==
  Try(FinishPassEntropy(d), LAMBDA w :
    [w EXCEPT !.passType = IF @ = "output" /\ d.optimize THEN "huff_opt" ELSE "output",
              !.scanNo = IF d.passType = "output" \/ (d.passType = "main" /\ ~d.optimize) THEN @ + 1 ELSE @,
              !.passNo = @ + 1])

\* jinit_c_master_control: default tables are no good for progressive mode.
InitMaster(d, transcode) ==
  LET progressive == d.script # <<>> /\ ~IsSequential(d.script[1])
      optimize == d.optimize \/ progressive
      scans == IF d.script = <<>> THEN 1 ELSE Len(d.script)
  IN IF d.script # <<>> /\ ~ValidScript(d.script) THEN Fail(d, "BAD_SCRIPT")
     ELSE [d EXCEPT !.progressive = progressive, !.optimize = optimize,
                    !.passType = IF ~transcode THEN "main" ELSE IF optimize THEN "huff_opt" ELSE "output",
                    !.scanNo = 0, !.passNo = 0, !.total = IF optimize THEN 2 * scans ELSE scans,
                    !.isLast = FALSE]

\* jinit_compress_master: a full-image buffer when there is more than one pass.
InitCompressMaster(d) ==
  Try(InitMaster(d, FALSE), LAMBDA m : WriteFileHeader([m EXCEPT !.whole = m.total > 1]))

\* transencode_master_selection: the arrays are full already.
TransencodeMasterSelection(d) ==
  Try(InitMaster(d, TRUE), LAMBDA m : WriteFileHeader([m EXCEPT !.whole = TRUE, !.saved = TotalRows]))

-----------------------------------------------------------------------------
\* The calls.

StartCompress(d, all) ==
  Try(Try(InitCompressMaster(InitDestination(IF all THEN SuppressTables(d, FALSE) ELSE d)), PrepareForPass),
      LAMBDA w : [w EXCEPT !.next = 0, !.gstate = IF d.raw THEN "rawok" ELSE "scanning"])

WriteCoefficients(d) ==
  Try(TransencodeMasterSelection(InitDestination(SuppressTables(d, FALSE))),
      LAMBDA w : [w EXCEPT !.next = 0, !.gstate = "wrcoefs"])

\* A bug to be caught: a full row group is not marked empty.
RowCompressedKeeping(w, taken) ==
  IF w.st = "error" THEN [d |-> w, taken |-> taken]
  ELSE IF w.st = "susp"
       THEN [d |-> [w EXCEPT !.suspended = TRUE], taken |-> IF w.suspended THEN taken ELSE taken - 1]
  ELSE [d |-> [w EXCEPT !.suspended = FALSE, !.curRow = @ + 1],
        taken |-> IF w.suspended THEN taken + 1 ELSE taken]

\* After compress_data: as long as the row is suspended the last row of samples
\* counts as not consumed.
RowCompressed(w, taken) ==
  IF w.st = "error" THEN [d |-> w, taken |-> taken]
  ELSE IF w.st = "susp"
       THEN [d |-> [w EXCEPT !.suspended = TRUE], taken |-> IF w.suspended THEN taken ELSE taken - 1]
  ELSE [d |-> [w EXCEPT !.suspended = FALSE, !.rowgroup = 0, !.curRow = @ + 1],
        taken |-> IF w.suspended THEN taken + 1 ELSE taken]

\* process_data_simple_main: fills the iMCU row, padded at the bottom of the
\* image, and compresses it.  a.taken is in_row_ctr.
OneImcuRow(a, n) ==
  LET room  == MaxV - a.d.rowgroup
      fill  == IF n - a.taken < room THEN n - a.taken ELSE room
      bottom == fill > 0 /\ a.d.next + a.taken + fill >= Height
      full  == [a.d EXCEPT !.rowgroup = IF bottom THEN MaxV ELSE @ + fill]
  IN IF a.d.st # "ok" \/ a.d.curRow = TotalRows THEN a
     ELSE IF full.rowgroup # MaxV THEN [d |-> full, taken |-> a.taken + fill]
     ELSE RowCompressed(CompressData(full), a.taken + fill)

Consumed(a) == [a.d EXCEPT !.next = @ + a.taken]

ProcessData(d, n) ==
  Consumed(FoldLeft(LAMBDA x, i : OneImcuRow(x, n), [d |-> d, taken |-> 0],
                    [i \in 1 .. TotalRows |-> i]))

WriteScanlines(d, n) ==
  LET left == Height - d.next
  IN Try(PassStartup(d), LAMBDA w : ProcessData(w, IF n > left THEN left ELSE n))

\* jpeg_write_raw_data: one iMCU row.
WriteRawData(d) ==
  Try(Try(PassStartup(d), CompressData), LAMBDA w : [w EXCEPT !.next = @ + MaxV])

\* jpeg_finish_compress: the end of the first pass, a turn of the loop over the
\* other passes, and the end of the file.
EndFirstPass(d) ==
  IF d.gstate = "wrcoefs" THEN d
  ELSE IF d.next < Height THEN Fail(d, "TOO_LITTLE_DATA") ELSE FinishPass(d)

RemainingPass(d) ==
  Try(NoSuspension(ForEach(PrepareForPass(d), [i \in 1..TotalRows |-> i], LAMBDA w, i : CompressData(w))),
      FinishPass)

EndOfFile(d) == TermDestination(WriteFileTrailer(d))

\* jpeg_write_tables
WriteTables(d) == Try(WriteTablesOnly(InitDestination(d)), TermDestination)

-----------------------------------------------------------------------------
\* The application.

Idle == c.gstate = "start" /\ c.st = "ok"
Busy == c.gstate # "start" /\ c.st # "error" /\ ~finishing
Ready(d) == [d EXCEPT !.st = "ok"]

\* A suspending destination is for single-pass images (see the comments of
\* empty_output_buffer and jpeg_finish_compress).
SinglePass(s) == ~s.optimize /\ Len(s.script) <= 1
Destination(d, suspends, size) == [d EXCEPT !.suspends = suspends, !.size = size]

Init ==
  /\ c \in {CreateCompress(s) : s \in Settings}
  /\ finishing = FALSE /\ streams = 0 /\ stale = FALSE /\ reader = NoTables /\ last = <<>>
  /\ turn = FALSE

ChangeSettings ==
  /\ Idle /\ 0 < streams /\ streams < MaxStreams
  /\ \E s \in Settings : c' = SetDefaults(c, s)
  /\ stale' = FALSE /\ last' = <<>>
  /\ UNCHANGED <<finishing, streams, reader, turn>>

\* Tables are left out only if none of those sent before was lost.
Start ==
  /\ Idle /\ streams < MaxStreams
  /\ \E all \in BOOLEAN, pic \in DOMAIN Pictures, suspends \in BOOLEAN, size \in Sizes :
       /\ all \/ ~stale
       /\ suspends => SinglePass(c.setting)
       /\ c' = StartCompress(Destination([c EXCEPT !.pic = pic], suspends, size), all)
       /\ stale' = (stale /\ ~all)
  /\ streams' = streams + 1 /\ last' = <<>>
  /\ UNCHANGED <<finishing, reader>>
  /\ turn' = FALSE

Transcode ==
  /\ Idle /\ streams < MaxStreams
  /\ \E pic \in DOMAIN Pictures, size \in Sizes :
       c' = WriteCoefficients(Destination([c EXCEPT !.pic = pic], FALSE, size))
  /\ streams' = streams + 1 /\ last' = <<>> /\ stale' = FALSE
  /\ UNCHANGED <<finishing, reader>>
  /\ turn' = FALSE

Completed(items) ==
  /\ last' = [pic |-> c.pic, setting |-> c.setting, items |-> items, tabs |-> reader]
  /\ reader' = Meaning(items, reader).tabs

Tables ==
  /\ Idle /\ streams < MaxStreams /\ ~stale
  /\ \E size \in Sizes :
       \E w \in {WriteTables(Destination([c EXCEPT !.pic = 0], FALSE, size))} :
         c' = [w EXCEPT !.out = <<>>] /\ Completed(w.out)
  /\ streams' = streams + 1
  /\ UNCHANGED <<finishing, stale, turn>>

\* A marker of the application comes before the data, with room in the buffer.
Marker ==
  /\ Busy /\ c.next = 0 /\ (c.gstate = "wrcoefs" \/ c.startup \/ c.optimize)
  /\ c.passNo = 0 /\ c.imcuRow = 0 /\ c.rowgroup = 0
  /\ ~Contains(c.buf \o c.out, <<"COM">>)
  /\ c' = WriteMarker(c)
  /\ UNCHANGED <<finishing, streams, stale, reader, last, turn>>

\* The application has emptied the buffer when it calls again after a suspension.
Scanlines ==
  /\ Busy /\ c.gstate = "scanning" /\ c.next < Height
  /\ c.st = "susp" => c.buf = <<>>
  /\ \E n \in 1..Height : c' = WriteScanlines(Ready(c), n)
  /\ UNCHANGED <<finishing, streams, stale, reader, last>>
  /\ turn' = ~turn

RawData ==
  /\ Busy /\ c.gstate = "rawok" /\ c.next < Height
  /\ c.st = "susp" => c.buf = <<>>
  /\ c' = WriteRawData(Ready(c))
  /\ UNCHANGED <<finishing, streams, stale, reader, last>>
  /\ turn' = ~turn

Drain ==
  /\ Busy /\ c.suspends /\ c.buf # <<>>
  /\ c' = TermDestination(c)
  /\ UNCHANGED <<finishing, streams, stale, reader, last>>
  /\ turn' = ~turn

\* jpeg_finish_compress needs room for the end of the file.
Finish ==
  /\ Busy
  /\ c.gstate = "wrcoefs" \/ c.next >= Height
  /\ c.suspends => c.buf = <<>>
  /\ c' = EndFirstPass(Ready(c)) /\ finishing' = TRUE
  /\ UNCHANGED <<streams, stale, reader, last>>
  /\ turn' = ~turn

NextPass ==
  /\ finishing /\ c.st = "ok" /\ ~c.isLast
  /\ c' = RemainingPass(c)
  /\ UNCHANGED <<finishing, streams, stale, reader, last>>
  /\ turn' = ~turn

FinishReturns ==
  /\ finishing /\ c.st = "ok" /\ c.isLast
  /\ LET w == EndOfFile(c)
     IN IF w.st = "ok" THEN c' = JpegAbort(w) /\ Completed(w.out) /\ finishing' = FALSE
        ELSE c' = w /\ UNCHANGED <<last, reader, finishing>>
  /\ UNCHANGED <<streams, stale>>
  /\ turn' = ~turn

Abort ==
  /\ c.st = "error" \/ Busy
  /\ c' = JpegAbort(c) /\ stale' = TRUE /\ finishing' = FALSE
  /\ UNCHANGED <<streams, reader, last>>
  /\ turn' = FALSE

Calls == Scanlines \/ RawData \/ Drain \/ Finish \/ NextPass \/ FinishReturns
Next == ChangeSettings \/ Start \/ Transcode \/ Tables \/ Marker \/ Calls \/ Abort

\* The application goes on with an image it has begun: one of Calls is enabled
\* as long as the image has neither ended nor failed, and only Calls flip turn.
TakeTurn == c.gstate # "start" /\ c.st # "error" /\ turn' = ~turn
Spec == Init /\ [][Next]_vars /\ WF_turn(TakeTurn)

-----------------------------------------------------------------------------
\* Properties.

\* The type invariant.  Between two calls the bit buffer holds less than a byte, the
\* EOB run can be counted once more, restart numbers stay below 8, and a call that
\* did not suspend leaves room in the destination's buffer (emit_byte empties it
\* as soon as it is full).
TypeOK ==
  /\ c.gstate \in GlobalStates /\ c.st \in {"ok", "susp", "error"} /\ c.passType \in PassTypes
  /\ c.next \in 0 .. Height + MaxV /\ c.imcuRow \in 0..TotalRows /\ c.curRow \in 0..TotalRows
  /\ c.rowgroup \in 0..MaxV /\ c.nextRst \in 0..7 /\ c.togo \in 0 .. c.interval
  /\ Len(c.bits) < 2 /\ (c.st = "ok" /\ c.gstate # "start" => Len(c.buf) < c.size)
  /\ c.eobrun \in 0 .. MaxRun - 1
  /\ finishing \in BOOLEAN /\ stale \in BOOLEAN /\ turn \in BOOLEAN /\ streams \in 0..MaxStreams

\* What the scans of a script let a reader know of the image: the value of each
\* coefficient down to the last Al it was sent with.
Known(pic, script) ==
  LET Sent(ci, k) == {i \in DOMAIN script : Contains(script[i].comps, ci) /\ k \in script[i].Ss .. script[i].Se}
      Al(ci, k) == script[CHOOSE i \in Sent(ci, k) : \A j \in Sent(ci, k) : j <= i].Al
      Cut(v, n) == Sign(v) * ((Abs(v) \div 2 ^ n) * 2 ^ n)
      Dc(ci, v) == IF script = <<>> THEN v ELSE (v \div 2 ^ Al(ci, 0)) * 2 ^ Al(ci, 0)
      AcOf(ci, k, v) == IF script = <<>> THEN v ELSE IF Sent(ci, k) = {} THEN 0 ELSE Cut(v, Al(ci, k))
  IN [ci \in Comps |-> [row \in 1 .. BlockRows(ci) |-> [col \in 1 .. BlockCols(ci) |->
        LET b == Pictures[pic][ci][row][col]
        IN [dc |-> Dc(ci, b.dc), ac |-> [k \in 1..Band |-> AcOf(ci, k, b.ac[k])]]]]]

\* Every completed datastream means the image it was made from, to a reader that
\* has read the datastreams completed before it: however the calls were cut by
\* suspensions, whichever tables were left out as sent (emit_dqt, emit_dht),
\* across changes of the restart interval from scan to scan (write_scan_header,
\* per_scan_setup) and through the passes prepare_for_pass goes through.
StreamDecodes ==
  last # <<>> =>
    \E m \in {Meaning(last.items, last.tabs)} :
      /\ m.ok
      /\ last.pic # 0 => /\ m.img = Known(last.pic, last.setting.script)
                         /\ m.q = [ci \in Comps |-> last.setting.quality + last.setting.slots[ci]]

\* No call ends in an error but the refusal of a script that is not one: the
\* statistics of an optimization pass have every symbol of the output pass
\* ("This process MUST agree with the code above", jchuff.c), the tables of a
\* scan exist, the virtual arrays are filled before they are read, the script
\* has a scan for every pass, nothing suspends where it cannot.
NoUnexpectedError ==
  /\ c.err # "none" => c.err = "BAD_SCRIPT" /\ c.setting.bad
  /\ c.gstate # "start" => ~c.setting.bad

\* An application that goes on with an image comes to its end: the main
\* controller takes every row in spite of suspensions, and the loop of
\* jpeg_finish_compress reaches its last pass.
ImageEnds == (c.gstate # "start" /\ c.st # "error") ~> (c.gstate = "start")
=============================================================================
