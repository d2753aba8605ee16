-------------------------- MODULE JpegMarkerWriter --------------------------
(***************************************************************************)
(* The output end of the JPEG compressor: the destination manager          *)
(* (jdatadst.c, and the suspending one its comments describe) and the      *)
(* marker writer (jcmarker.c), one operator per C function on the          *)
(* compression object c.                                                   *)
(*                                                                         *)
(* What is written is a sequence of items: a marker segment, a restart     *)
(* marker, or a byte of entropy coded data, each one place of the output   *)
(* buffer.  c.st is how the function ended: "ok", "susp" when the          *)
(* destination had no room, "error" with the message in c.err.             *)
(***************************************************************************)
EXTENDS Integers, Sequences, FiniteSets, SequencesExt

CONSTANT Slots        \* table numbers: 0 .. NUM_QUANT_TBLS-1, NUM_HUFF_TBLS-1

Classes  == {"dc", "ac"}
NoTable  == {}        \* a table pointer that is NULL

Fail(c, why) == [c EXCEPT !.st = "error", !.err = why]

\* Output goes on only while nothing has gone wrong.
Try(c, Op(_)) == IF c.st = "ok" THEN Op(c) ELSE c
ForEach(c, seq, Op(_, _)) == FoldLeft(LAMBDA w, x : IF w.st = "ok" THEN Op(w, x) ELSE w, c, seq)

-----------------------------------------------------------------------------
\* The destination manager.

\* init_destination
InitDestination(c) == [c EXCEPT !.buf = <<>>, !.out = <<>>]

\* empty_output_buffer: writes the entire buffer, "a FALSE return indicates that
\* the buffer cannot be emptied now".
EmptyOutputBuffer(c) ==
  IF c.suspends THEN [c EXCEPT !.st = "susp"]
  ELSE [c EXCEPT !.out = @ \o c.buf, !.buf = <<>>]

\* term_destination: writes what is left.
TermDestination(c) == [c EXCEPT !.out = @ \o c.buf, !.buf = <<>>]

\* emit_byte: the buffer is emptied when its last place is taken.
EmitByte(c, item) ==
  LET w == [c EXCEPT !.buf = Append(@, item)]
  IN IF c.st # "ok" THEN c ELSE IF Len(w.buf) = c.size THEN EmptyOutputBuffer(w) ELSE w

-----------------------------------------------------------------------------
\* The marker writer cannot suspend: emit_byte of jcmarker.c.
EmitMarker(c, item) ==
  LET w == EmitByte(c, item)
  IN IF w.st = "susp" THEN Fail(w, "CANT_SUSPEND") ELSE w

\* emit_dqt and emit_dht: a table already sent is left out.
EmitDqt(c, slot) ==
  IF c.qtabs[slot] = 0 THEN Fail(c, "NO_QUANT_TABLE")
  ELSE IF c.qsent[slot] THEN c
  ELSE EmitMarker([c EXCEPT !.qsent[slot] = TRUE], <<"DQT", slot, c.qtabs[slot]>>)

EmitDht(c, class, slot) ==
  IF c.htabs[class][slot] = NoTable THEN Fail(c, "NO_HUFF_TABLE")
  ELSE IF c.hsent[class][slot] THEN c
  ELSE EmitMarker([c EXCEPT !.hsent[class][slot] = TRUE],
                  <<"DHT", class, slot, c.htabs[class][slot]>>)

EmitDri(c) == EmitMarker(c, <<"DRI", c.interval>>)
EmitSof(c) == EmitMarker(c, <<"SOF", c.progressive, c.slots>>)
EmitSos(c) == EmitMarker(c, <<"SOS", c.scan>>)

\* write_file_header: "assume DRI has not been seen by the decoder".
WriteFileHeader(c) == EmitMarker([c EXCEPT !.lastInterval = 0], <<"SOI">>)

WriteFrameHeader(c) ==
  Try(ForEach(c, c.slots, LAMBDA w, slot : EmitDqt(w, slot)), EmitSof)

\* write_scan_header: the tables the scan needs, the restart interval if it is
\* another one, the scan.
ScanClasses(c) ==
  IF ~c.progressive THEN <<"dc", "ac">>
  ELSE IF c.scan.Ss # 0 THEN <<"ac">>
  ELSE IF c.scan.Ah = 0 THEN <<"dc">> ELSE <<>>

WriteScanHeader(c) ==
  LET Tables(w, ci) == ForEach(w, ScanClasses(c), LAMBDA x, class : EmitDht(x, class, c.slots[ci]))
      tables   == ForEach(c, c.scan.comps, Tables)
      interval == IF c.interval # c.lastInterval
                  THEN [EmitDri(tables) EXCEPT !.lastInterval = c.interval] ELSE tables
  IN Try(interval, EmitSos)

WriteFileTrailer(c) == EmitMarker(c, <<"EOI">>)

\* jpeg_write_marker: a COM or APPn marker of the application.
WriteMarker(c) ==
  IF c.next # 0 \/ c.gstate \notin {"scanning", "rawok", "wrcoefs"} THEN Fail(c, "BAD_STATE")
  ELSE EmitMarker(c, <<"COM">>)

\* write_tables_only: every table that is defined and not sent.
SlotSeq == SetToSortSeq(Slots, <)

WriteTablesOnly(c) ==
  LET Quant(w, s) == IF w.qtabs[s] # 0 THEN EmitDqt(w, s) ELSE w
      Huff(w, s)  == ForEach(w, <<"dc", "ac">>, LAMBDA x, class :
                       IF x.htabs[class][s] # NoTable THEN EmitDht(x, class, s) ELSE x)
      soi == EmitMarker(c, <<"SOI">>)
  IN Try(ForEach(ForEach(soi, SlotSeq, Quant), SlotSeq, Huff), WriteFileTrailer)

\* jpeg_suppress_tables
SuppressTables(c, suppress) ==
  [c EXCEPT !.qsent = [s \in Slots |-> IF c.qtabs[s] # 0 THEN suppress ELSE @[s]],
            !.hsent = [class \in Classes |-> [s \in Slots |->
                         IF c.htabs[class][s] # NoTable THEN suppress ELSE @[class][s]]]]
=============================================================================
