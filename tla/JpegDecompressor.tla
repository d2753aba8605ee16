-------------------------- MODULE JpegDecompressor --------------------------
(***************************************************************************)
(* The decompression API (jdapimin.c, jdapistd.c, jdmaster.c, jdtrans.c)   *)
(* over the input side of JpegScanDecoder, used by an application with a   *)
(* data source that has everything or with a suspending one: words arrive  *)
(* between two calls, and a call that runs out of them returns and is made *)
(* again.  The application follows the call order of libjpeg.doc and may   *)
(* give up an image at any time between calls, and must after an error,    *)
(* and give the object another file.                                       *)
(*                                                                         *)
(* A call is a sequence of steps, one turn of its loop each; c.st after    *)
(* the last one tells how it returned.                                     *)
(***************************************************************************)
EXTENDS JpegScanDecoder

CONSTANTS Words,        \* the words of each datastream
          Files,        \* the datastreams the object may be given first,
          NextFiles,    \* and those it may be given after it has ended an image
          Window,       \* bound on the words a suspending source holds
          MaxImages,    \* bound on the datastreams given to one object
          ScanRequests, \* the scan_number arguments of jpeg_start_output
          SaveSettings, \* the length limits per code of jpeg_save_markers
          Want          \* what each datastream encodes, see Intact below

ASSUME DatastreamsAssumption == Words \in [Files \cup NextFiles -> Seq(Nat)]
ASSUME SaveAssumption == \A limits \in SaveSettings : \A code \in DOMAIN limits : limits[code] \in Nat
ASSUME ImagesAssumption == MaxImages \in Nat \ {0}
ASSUME WindowAssumption == Window \in Nat

Settings == {[buffered |-> FALSE, quantize |-> FALSE], [buffered |-> FALSE, quantize |-> TRUE],
             [buffered |-> TRUE, quantize |-> FALSE]}

VARIABLES c,       \* the jpeg_decompress_struct and its modules
          call,    \* the call in progress, "none" between calls
          turn,    \* flips with every turn of the call in progress
          shown    \* the rows the application got in this output pass
vars == <<c, call, turn, shown>>

\* DSTATE_START .. DSTATE_STOPPING
GlobalStates == {"start", "inheader", "ready", "preload", "prescan", "scanning",
                 "bufimage", "bufpost", "rdcoefs", "stopping"}
Calls == {"ReadHeader", "StartDecompress", "ReadScanlines", "FinishDecompress",
          "StartOutput", "FinishOutput", "ConsumeInput", "ReadCoefficients"}
Outcomes == {"ok", "susp", "again", "row", "scan", "sos", "eoi", "error"}

\* jpeg_CreateDecompress: "Zero out pointers to permanent structures", and the
\* marker reader of jinit_marker_reader with the settings of the application.
CreateDecompress(file, save) ==
  SaveMarkers(
    [file |-> file, words |-> Words[file], pos |-> 1, loaded |-> 0, st |-> "ok", image |-> 1, gstate |-> "start",
     unread |-> 0, sawSOI |-> FALSE, sawSOF |-> FALSE, nextRestart |-> 0,
     cur |-> NoMarker, saved |-> <<>>, save |-> [k \in {} |-> 0],
     jfif |-> FALSE, adobe |-> 0, comps |-> NoComps, progressive |-> FALSE,
     restartInterval |-> 0, qtabs |-> [s \in Slots |-> NoTable], htabs |-> [s \in Slots |-> 0],
     scan |-> <<>>, Ss |-> 0, Ah |-> 0, Al |-> 0, inputScan |-> 0, consume |-> "markers", inheaders |-> TRUE,
     eoi |-> FALSE, multi |-> FALSE, latched |-> <<>>, inputRow |-> 0, ctr |-> 0, voff |-> 0,
     rowsPer |-> 0, coefs |-> <<>>, fullBuffer |-> FALSE, coefBits |-> <<>>, smooth |-> FALSE,
     latch |-> <<>>, derived |-> <<>>, buf |-> <<>>, val |-> 0, lastDc |-> <<>>, eobrun |-> 0,
     togo |-> 0, insufficient |-> FALSE, buffered |-> FALSE, quantize |-> FALSE,
     colormap |-> FALSE, dummy |-> FALSE, post |-> <<>>, outputScan |-> 0, outputRow |-> 0,
     scanline |-> 0, row |-> <<>>],
    save)

\* jpeg_abort: frees the image pool, and with it all that the modules created
\* for the image, and forgets the marker list.  comp_info and cur_marker still
\* point into it until reset_marker_reader.
JpegAbort(d) ==
  [d EXCEPT !.image = @ + 1, !.gstate = "start", !.saved = <<>>,
            !.coefs = <<>>, !.latched = <<>>, !.latch = <<>>, !.derived = <<>>, !.buf = <<>>,
            !.lastDc = <<>>, !.eobrun = 0, !.togo = 0, !.insufficient = FALSE, !.post = <<>>,
            !.fullBuffer = FALSE, !.smooth = FALSE, !.dummy = FALSE, !.ctr = 0, !.voff = 0,
            !.rowsPer = 0, !.row = <<>>]

\* default_decompress_parms
DefaultDecompressParms(d) ==
  [d EXCEPT !.buffered = FALSE, !.quantize = FALSE, !.colormap = FALSE]

HeaderRead(d) ==
  IF d.st = "sos" THEN [DefaultDecompressParms(d) EXCEPT !.gstate = "ready"] ELSE d

\* jpeg_consume_input
ConsumeInput(d) ==
  CASE d.gstate = "start" ->
         HeaderRead(Consume([ResetInputController(d) EXCEPT !.gstate = "inheader"]))
    [] d.gstate = "inheader" -> HeaderRead(Consume(d))
    [] d.gstate = "ready"    -> [d EXCEPT !.st = "sos"]
    [] d.gstate = "rdcoefs"  -> Fail(d)
    [] OTHER                 -> Consume(d)

\* master_selection and transdecode_master_selection
InitEntropy(d) ==
  [d EXCEPT !.coefBits = IF d.progressive THEN [ci \in 1 .. NumComps(d) |-> <<-1, -1>>] ELSE @]

MasterSelection(d) ==
  StartInputPass([InitCoefController(InitEntropy(d), d.multi \/ d.buffered) EXCEPT !.dummy = FALSE])

TransdecodeMasterSelection(d) ==
  StartInputPass(InitCoefController([InitEntropy(d) EXCEPT !.buffered = TRUE], TRUE))

\* prepare_for_output_pass: a pass that only collects the histogram of a
\* two-pass quantizer is a dummy pass, and the pass after it takes its rows from
\* the post-processing buffer.
PrepareForOutputPass(d) ==
  IF d.dummy THEN [d EXCEPT !.dummy = FALSE]
  ELSE [CoefStartOutputPass(d) EXCEPT !.dummy = d.quantize /\ ~d.colormap, !.post = <<>>]

FinishOutputPass(d) == [d EXCEPT !.colormap = @ \/ d.quantize]

-----------------------------------------------------------------------------
\* The output side: process_data of the main controller, one iMCU row per call.
FromPost(d) == ~d.dummy /\ d.post # <<>>

RowGot(r) == IF r.st \notin {"row", "scan"} THEN r
             ELSE [r EXCEPT !.scanline = @ + 1, !.post = IF r.dummy THEN Append(@, r.row) ELSE @]

ProcessData(d) ==
  IF FromPost(d) THEN [d EXCEPT !.row = d.post[d.scanline + 1], !.scanline = @ + 1, !.st = "row"]
  ELSE RowGot(Decompress(d))

\* output_pass_setup, first the set-up, then one turn of the dummy pass.
DummyTurn(d) ==
  IF ~d.dummy THEN [d EXCEPT !.gstate = "scanning", !.st = "ok"]
  ELSE IF d.scanline < TotalRows THEN GoOn([ProcessData(d) EXCEPT !.row = <<>>])
  ELSE [PrepareForOutputPass(FinishOutputPass(d)) EXCEPT !.scanline = 0, !.st = "again"]

OutputPassSetup(d) ==
  DummyTurn(IF d.gstate = "prescan" THEN d
            ELSE [PrepareForOutputPass(d) EXCEPT !.scanline = 0, !.gstate = "prescan"])

\* One turn of each call.
Selected(m) == IF m.buffered THEN [m EXCEPT !.gstate = "bufimage", !.st = "ok"]
               ELSE [m EXCEPT !.gstate = "preload", !.st = "again"]

\* All of a multiscan file is absorbed before the output pass is set up.
Preload(r) == IF ~r.multi \/ r.st = "eoi"
              THEN OutputPassSetup([r EXCEPT !.outputScan = r.inputScan]) ELSE GoOn(r)

StartDecompress(d) ==
  CASE d.gstate = "ready"   -> Then(MasterSelection(d), Selected)
    [] d.gstate = "preload" -> Preload(IF d.multi THEN Consume(d) ELSE d)
    [] d.gstate = "prescan" -> OutputPassSetup(d)
    [] OTHER -> Fail(d)

\* Input until done, for the calls that read on: jpeg_finish_decompress,
\* jpeg_finish_output and jpeg_read_coefficients.
ReadOn(d) == GoOn(Consume(d))

FinishDecompress(d) ==
  LET last == IF d.gstate \in {"scanning", "bufimage"} THEN [d EXCEPT !.gstate = "stopping"] ELSE d
  IN IF (d.gstate = "scanning" /\ (d.buffered \/ d.scanline < TotalRows))
        \/ d.gstate \notin {"scanning", "bufimage", "stopping"} THEN Fail(d)
     ELSE IF ~last.eoi THEN ReadOn(last)
     ELSE [JpegAbort(last) EXCEPT !.st = "ok"]

FinishOutput(d) ==
  LET last == IF d.gstate = "scanning" THEN [FinishOutputPass(d) EXCEPT !.gstate = "bufpost"] ELSE d
  IN IF d.gstate \notin {"scanning", "bufpost"} \/ ~d.buffered THEN Fail(d)
     ELSE IF last.inputScan <= last.outputScan /\ ~last.eoi THEN ReadOn(last)
     ELSE [last EXCEPT !.gstate = "bufimage", !.st = "ok"]

StartOutput(d, n) ==
  IF d.gstate \notin {"bufimage", "prescan"} THEN Fail(d)
  ELSE LET scan == IF n <= 0 THEN 1 ELSE n
       IN OutputPassSetup([d EXCEPT !.outputScan =
            IF d.eoi THEN Min({scan, d.inputScan}) ELSE scan])

ReadScanlines(d) ==
  IF d.gstate # "scanning" THEN Fail(d)
  ELSE IF d.scanline >= TotalRows THEN Ok(d)
  ELSE ProcessData(d)

CoefficientsRead(r) == IF r.st = "eoi" THEN [r EXCEPT !.gstate = "stopping"] ELSE GoOn(r)

ReadCoefficients(d) ==
  CASE d.gstate = "ready"   -> Then(TransdecodeMasterSelection(d),
                                    LAMBDA m : [m EXCEPT !.gstate = "rdcoefs", !.st = "again"])
    [] d.gstate = "rdcoefs" -> CoefficientsRead(Consume(d))
    [] OTHER -> IF d.gstate \in {"stopping", "bufimage"} /\ d.buffered THEN Ok(d) ELSE Fail(d)

\* jpeg_read_header; a tables-only datastream leaves the object ready for the
\* next one.
HeaderOrTables(r) == IF r.st = "eoi" THEN [JpegAbort(r) EXCEPT !.st = "eoi"] ELSE r

ReadHeader(d) ==
  IF d.gstate \notin {"start", "inheader"} THEN Fail(d) ELSE HeaderOrTables(ConsumeInput(d))
-----------------------------------------------------------------------------
\* The application and the steps of its calls.

Init ==
  /\ \E f \in Files, save \in SaveSettings, all \in BOOLEAN :
       LET d == CreateDecompress(f, save)
       IN c = [d EXCEPT !.loaded = IF all THEN StreamEnd(d) ELSE 0]
  /\ call = "none" /\ turn = FALSE
  /\ shown = <<>>

\* The data source gets another word between two calls, up to its buffer's size.
Load ==
  /\ call = "none" /\ c.st # "error" /\ c.loaded < Min({StreamEnd(c), c.pos + Window - 1})
  /\ c' = [c EXCEPT !.loaded = @ + 1]
  /\ UNCHANGED <<call, turn, shown>>

\* The states in which the application may make a call.
MayCall(fn) ==
  CASE fn = "ReadHeader"       -> c.gstate = "inheader" \/ (c.gstate = "start" /\ c.pos = 1)
    [] fn = "StartDecompress"  -> c.gstate \in {"ready", "preload", "prescan"}
    [] fn = "ReadScanlines"    -> c.gstate = "scanning" /\ c.scanline < TotalRows
    [] fn = "FinishDecompress" -> \/ c.gstate = "scanning" /\ ~c.buffered /\ c.scanline = TotalRows
                                  \/ c.gstate \in {"bufimage", "stopping"}
    [] fn = "StartOutput"      -> c.gstate = "bufimage"
    [] fn = "FinishOutput"     -> c.gstate = "bufpost" \/ (c.gstate = "scanning" /\ c.buffered)
    [] fn = "ConsumeInput"     -> c.gstate \notin {"start", "rdcoefs"}
    [] fn = "ReadCoefficients" -> c.gstate \in {"ready", "rdcoefs"}

\* The parameters are set before the call that uses them.
Begin(fn) ==
  /\ call = "none" /\ c.st # "error" /\ MayCall(fn)
  /\ call' = fn
  /\ IF fn = "StartDecompress" /\ c.gstate = "ready"
     THEN \E s \in Settings : c' = [c EXCEPT !.buffered = s.buffered, !.quantize = s.quantize]
     ELSE IF fn = "StartOutput"
     THEN \E n \in ScanRequests : c' = [c EXCEPT !.outputScan = n]
     ELSE UNCHANGED c
  /\ UNCHANGED <<turn, shown>>

\* One step of the call: what it makes of c, and the rows that reach the caller.
Turn(fn, d) ==
  /\ call = fn
  /\ c' = [d EXCEPT !.row = <<>>]
  /\ call' = IF d.st = "again" THEN call ELSE "none"
  /\ turn' = (d.st = "again" /\ ~turn)
  /\ shown' = IF d.gstate = "scanning" /\ c.gstate # "scanning" THEN <<>>
              ELSE IF d.row # <<>> THEN Append(shown, d.row) ELSE shown

ReadHeaderStep       == Turn("ReadHeader", ReadHeader(c))
StartDecompressStep  == Turn("StartDecompress", StartDecompress(c))
ReadScanlinesStep    == Turn("ReadScanlines", ReadScanlines(c))
FinishDecompressStep == Turn("FinishDecompress", FinishDecompress(c))
StartOutputStep      == Turn("StartOutput", StartOutput(c, c.outputScan))
FinishOutputStep     == Turn("FinishOutput", FinishOutput(c))
ConsumeInputStep     == Turn("ConsumeInput", ConsumeInput(c))
ReadCoefficientsStep == Turn("ReadCoefficients", ReadCoefficients(c))

LibStep == \/ ReadHeaderStep \/ StartDecompressStep \/ ReadScanlinesStep \/ FinishDecompressStep
           \/ StartOutputStep \/ FinishOutputStep \/ ConsumeInputStep \/ ReadCoefficientsStep

\* The next datastream, all of it there, after the end of an image, after an
\* error (jpeg_abort) or when the application gives the image up (jpeg_abort).
NextImage ==
  /\ call = "none"
  /\ IF c.gstate = "start" THEN c.pos # 1 /\ c.image <= MaxImages ELSE c.image < MaxImages
  /\ \E f \in NextFiles :
       LET d == [IF c.gstate = "start" THEN c ELSE JpegAbort(c)
                   EXCEPT !.file = f, !.words = Words[f], !.pos = 1, !.st = "ok"]
       IN c' = [d EXCEPT !.loaded = StreamEnd(d)]
  /\ shown' = <<>>
  /\ UNCHANGED <<call, turn>>

Next == Load \/ NextImage \/ LibStep \/ \E fn \in Calls : Begin(fn)

\* A call that has been made is executed, turn after turn; nothing else has to
\* happen.  Only LibStep changes turn, and while a call is in progress nothing
\* but LibStep happens.
TakeTurn == call # "none" /\ turn' = ~turn
Spec == Init /\ [][Next]_vars /\ WF_turn(TakeTurn)

-----------------------------------------------------------------------------
\* Properties.

(* Every field of the object a step leaves behind has one of its values.    *)
TypeOK ==
  /\ call \in Calls \cup {"none"}
  /\ c.gstate \in GlobalStates /\ c.st \in Outcomes
  /\ c.pos \in Nat \ {0} /\ c.loaded \in 0 .. StreamEnd(c)
  /\ c.consume \in {"markers", "data", "dummy"}
  /\ c.image \in 1 .. MaxImages + 1
  /\ Len(c.buf) <= Depth
  /\ c.inputRow \in 0..TotalRows /\ c.outputRow \in 0..TotalRows /\ c.scanline \in 0..TotalRows
  /\ c.gstate \in {"preload", "prescan", "scanning", "bufimage", "bufpost", "rdcoefs"} =>
       /\ c.coefs # <<>> /\ c.ctr < Cols /\ c.voff < MaxV
       /\ c.consume = "data" => c.fullBuffer
  /\ Len(shown) <= TotalRows

\* Want[f] tells, for a datastream: intact, whether nothing of it is missing or
\* wrong; image, its blocks with the quantization table each is meant for, by
\* component, row and column; markers, its saved markers per save setting; and
\* the scan that brings the DC and the AC values of each component.
Intact == Want[c.file].intact
InHeader == c.gstate \in {"start", "inheader"}
Block(r, ci, y, x) == shown[r][ci][y][x]
Blocks == {b \in (1 .. Len(shown)) \X (DOMAIN VSamp) \X (1..MaxV) \X (1..Cols) :
             b[2] \in DOMAIN shown[b[1]] /\ b[3] \in DOMAIN shown[b[1]][b[2]]}
Meant(b) == Want[c.file].image[b[2]][(b[1] - 1) * VSamp[b[2]] + b[3]][b[4]]

SavedMarkers ==
  LET some == SelectSeq(Want[c.file].markers, LAMBDA m : m.code \in DOMAIN c.save)
  IN [i \in DOMAIN some |-> [some[i] EXCEPT !.data = SubSeq(@, 1, Min({Len(@), c.save[some[i].code]}))]]

(* However the datastream is cut into pieces by suspensions, whether it is   *)
(* decoded in one pass, through the coefficient buffer or through a two-pass *)
(* quantizer, and whatever image the object was given up on before: a        *)
(* completed pass outside buffered-image mode shows the image that was       *)
(* encoded, dequantized by the tables it was meant for, and the header gives *)
(* the markers that are in the file.                                         *)
DecodedAsWritten ==
  Intact =>
    /\ ~InHeader => /\ c.jfif = Want[c.file].jfif
                    /\ c.adobe = Want[c.file].adobe
                    /\ c.saved = SavedMarkers
    /\ (c.gstate = "scanning" /\ ~c.buffered /\ c.scanline = TotalRows) =>
         Len(shown) = TotalRows /\ \A b \in Blocks : Block(b[1], b[2], b[3], b[4]) = Meant(b)

(* In buffered-image mode the output never gets ahead of the input: a row    *)
(* shown in the pass for a scan has everything that scan and those before it *)
(* brought for it (a zero may still be smoothed over when the pass began     *)
(* before its scan), and an AC value estimated by block smoothing is         *)
(* estimated from DC values that have been decoded.                          *)
ShownRowIsReady ==
  Intact /\ c.buffered /\ c.gstate = "scanning" =>
    \A b \in Blocks :
      LET got == Block(b[1], b[2], b[3], b[4])
      IN /\ Want[c.file].dcScan[b[2]] <= c.outputScan => got.dc = Meant(b).dc /\ got.q = Meant(b).q
         /\ Want[c.file].acScan[b[2]] <= c.outputScan =>
              got.ac = Meant(b).ac \/ (Len(got.ac) = 2 /\ Meant(b).ac = <<0>>)
         /\ Len(got.ac) = 2 => \A i \in 1..2 : got.ac[i] # 0

(* With a restart marker lost, repeated or damaged, jpeg_resync_to_restart   *)
(* finds the place again: every block that is shown is either the one        *)
(* encoded at that place or one of the zero blocks that stand for lost data. *)
RestartResync ==
  ~Intact /\ c.gstate = "scanning" =>
    \A b \in Blocks : \/ Block(b[1], b[2], b[3], b[4]) = Meant(b)
                      \/ Block(b[1], b[2], b[3], b[4]).ac = <<0>>

(* Once a new image has been started, neither comp_info nor the marker that  *)
(* is being saved points into the memory of the image before it, at whatever *)
(* point that one was given up.                                              *)
NoDanglingImageMemory ==
  c.gstate # "start" =>
    /\ c.comps = NoComps \/ c.comps.image = c.image
    /\ c.cur = NoMarker \/ c.cur.image = c.image

(* Every call returns: no loop that waits for input goes on after the end of *)
(* the file, not even for a scan the file does not have.                     *)
CallReturns == call # "none" ~> call = "none"
=============================================================================
