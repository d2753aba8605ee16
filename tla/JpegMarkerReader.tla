-------------------------- MODULE JpegMarkerReader --------------------------
(***************************************************************************)
(* The data source (jdatasrc.c) and the marker reader (jdmarker.c) of the  *)
(* JPEG decompressor, one operator per C function.  An operator takes the  *)
(* decompression object c and returns it changed; c.st is the function's   *)
(* return value: "ok" for TRUE, "susp" for FALSE (suspension), "error" for *)
(* ERREXIT, which does not return to the library.                          *)
(*                                                                         *)
(* A datastream is a sequence of words.  Marker codes, FF and stuffed      *)
(* zeros are the bytes of the format; the parameters of a segment are      *)
(* abstracted to one word each (a length counts words, itself included;    *)
(* a component is one word, 16 * identifier + table slot; a quantization   *)
(* table has two values).  c.words is the whole stream, c.pos the restart  *)
(* point next_input_byte, c.loaded the last word the buffer holds.  A      *)
(* suspending source loads words between calls; the stdio source has them  *)
(* all at once, since a refill in the middle of a function is invisible to *)
(* it.  Past its end a stream goes on with the fake EOI markers of         *)
(* fill_input_buffer.                                                      *)
(***************************************************************************)
EXTENDS Integers, Sequences, SequencesExt, FiniteSetsExt

FF    == 255
SOF0  == 192    \* baseline
SOF2  == 194    \* progressive
DHT   == 196
RST0  == 208
RST7  == 215
SOI   == 216
EOI   == 217
SOS   == 218
DQT   == 219
DRI   == 221
APP0  == 224
APP14 == 238
COM   == 254

JfifTag    == 74       \* first data word of a JFIF APP0
AdobeTag   == 65       \* first data word of an Adobe APP14, the transform is the second
AppnLen    == [code \in {APP0, APP14} |-> IF code = APP0 THEN 1 ELSE 2]  \* APP0_DATA_LEN, APP14_DATA_LEN
Slots      == 0..1     \* NUM_QUANT_TBLS, NUM_HUFF_TBLS
MaxScan    == 4        \* MAX_COMPS_IN_SCAN
Lookahead  == 8        \* how far past the stream's end the model loads fake EOIs
NoMarker   == [code |-> 0, want |-> 0, rest |-> 0, data |-> <<>>, image |-> 0]   \* cur_marker == NULL
NoComps    == [image |-> 0, info |-> <<>>]                                      \* comp_info == NULL
NoTable    == <<0, 0>>

Fail(c)    == [c EXCEPT !.st = "error"]
Suspend(c) == [c EXCEPT !.st = "susp"]
Ok(c)      == [c EXCEPT !.st = "ok"]

\* if (! first(cinfo)) return FALSE; op(cinfo)
Then(c, Op(_)) == IF c.st = "ok" THEN Op(c) ELSE c

\* fill_input_buffer at the end of the file: "Insert a fake EOI marker".
WordAt(c, i) == IF i <= Len(c.words) THEN c.words[i]
                ELSE IF (i - Len(c.words)) % 2 = 1 THEN FF ELSE EOI

StreamEnd(c) == Len(c.words) + Lookahead

Word(c, i) == WordAt(c, c.pos + i - 1)      \* the i-th word from the restart point

Have(c, n) == c.pos + n - 1 <= c.loaded     \* MAKE_BYTE_AVAIL succeeds n times

Avail(c, from, n) == Min({n, (c.loaded + 1) - Min({c.loaded + 1, c.pos + from - 1})})

\* skip_input_data: a suspending source's buffer is marked empty when the skip
\* runs past it, and what is left of the skip is dropped from the next words.
SkipInputData(c, n) == [c EXCEPT !.pos = @ + n]

-----------------------------------------------------------------------------

\* reset_marker_reader; a bug to be caught: cur_marker is not reset.
ResetKeepsCurMarker(c) ==
  [c EXCEPT !.comps = NoComps, !.inputScan = 0, !.unread = 0, !.sawSOI = FALSE, !.sawSOF = FALSE]
ResetMarkerReader(c) ==
  [c EXCEPT !.comps = NoComps, !.inputScan = 0, !.unread = 0, !.sawSOI = FALSE,
            !.sawSOF = FALSE, !.cur = NoMarker]

\* The first position from p on that starts a marker.
IsMarkerAt(c, p) == WordAt(c, p) = FF /\ WordAt(c, p + 1) \notin {0, FF}

\* next_marker, called as long as a marker is not wanted: when it has to suspend, it
\* has discarded the markers before and everything but the FFs at the end of the
\* buffer.  Behind its end the stream has markers everywhere.
Markers(c) == {p \in c.pos .. Max({c.pos, Len(c.words)}) + 1 : IsMarkerAt(c, p)}

SeekTo(c, at) ==
  LET passed == {p \in Markers(c) : p + 1 <= c.loaded}
      from   == IF passed = {} THEN c.pos ELSE Max(passed) + 2
      tail   == Min({p \in from .. c.loaded + 1 : \A q \in p .. c.loaded : WordAt(c, q) = FF})
  IN IF at + 1 <= c.loaded
     THEN Ok([c EXCEPT !.unread = WordAt(c, at + 1), !.pos = at + 2])
     ELSE Suspend([c EXCEPT !.unread = IF passed = {} THEN @ ELSE WordAt(c, Max(passed) + 1),
                            !.pos = IF from > c.loaded THEN from ELSE tail])

SeekMarker(c, Wanted(_)) == SeekTo(c, Min({p \in Markers(c) : Wanted(WordAt(c, p + 1))}))

NextMarker(c) == SeekMarker(c, LAMBDA code : TRUE)

FirstMarker(c) ==
  IF ~Have(c, 2) THEN Suspend(c)
  ELSE IF Word(c, 1) # FF \/ Word(c, 2) # SOI THEN Fail(c)
  ELSE Ok([c EXCEPT !.unread = SOI, !.pos = @ + 2])

GetSoi(c) ==
  IF c.sawSOI THEN Fail(c)
  ELSE Ok([c EXCEPT !.restartInterval = 0, !.jfif = FALSE, !.adobe = 0, !.sawSOI = TRUE])

\* get_sof: comp_info is allocated once even if the function suspends and is
\* called again; the components it could read are stored before it suspends.
GetSof(c, isProg) ==
  LET c1 == [c EXCEPT !.progressive = isProg]
      n  == Word(c, 2)
      c2 == IF c.comps = NoComps
            THEN [c1 EXCEPT !.comps = [image |-> c.image, info |-> [i \in 1..n |-> 0]]]
            ELSE c1
      c3 == [c2 EXCEPT !.comps.info =
               [i \in DOMAIN @ |-> IF i <= Avail(c, 3, n) THEN Word(c, i + 2) ELSE @[i]]]
  IN IF ~Have(c, 2) THEN Suspend(c1)
     ELSE IF c.sawSOF \/ n = 0 \/ Word(c, 1) # n + 2 THEN Fail(c1)
     ELSE IF ~Have(c, n + 2) THEN Suspend(c3)
     ELSE Ok([c3 EXCEPT !.sawSOF = TRUE, !.pos = @ + n + 2])

\* get_sos: counts the scan only when the whole header has been read.  Its last word
\* gives the band Ss (0 for DC, 1 for AC) and the bit positions Ah and Al.
GetSos(c) ==
  LET n     == Word(c, 2)
      k     == Avail(c, 3, n)
      Ids(i)== {j \in DOMAIN c.comps.info : c.comps.info[j] \div 16 = Word(c, i + 2) \div 16}
      c1    == [c EXCEPT !.scan = [i \in 1..n |->
                  IF i <= k THEN <<Min(Ids(i)), Word(c, i + 2) % 16>>
                  ELSE IF i \in DOMAIN @ THEN @[i] ELSE <<1, 0>>]]
  IN IF ~c.sawSOF THEN Fail(c)
     ELSE IF ~Have(c, 2) THEN Suspend(c)
     ELSE IF Word(c, 1) # n + 3 \/ n < 1 \/ n > MaxScan \/ \E i \in 1..k : Ids(i) = {} THEN Fail(c)
     ELSE IF ~Have(c, n + 3) THEN Suspend(c1)
     ELSE Ok([c1 EXCEPT !.Ss = Word(c, n + 3) % 2, !.Al = (Word(c, n + 3) \div 2) % 2,
                        !.Ah = Word(c, n + 3) \div 4, !.nextRestart = 0,
                        !.inputScan = @ + 1, !.pos = @ + n + 3])

\* get_dht: a table is stored only after all of it has been read.
GetDht(c) ==
  LET tables == (Word(c, 1) - 1) \div 2
      whole  == Avail(c, 2, 2 * tables) \div 2
      bad    == \E t \in 1..whole : Word(c, 2 * t) \notin Slots
      c1     == [c EXCEPT !.htabs = [s \in Slots |->
                   LET defs == {t \in 1..whole : Word(c, 2 * t) = s}
                   IN IF defs = {} THEN @[s] ELSE Word(c, 2 * Max(defs) + 1)]]
  IN IF ~Have(c, 1) THEN Suspend(c)
     ELSE IF bad \/ (Have(c, Word(c, 1)) /\ Word(c, 1) # 2 * tables + 1) THEN Fail(c)
     ELSE IF ~Have(c, Word(c, 1)) THEN Suspend(c1)
     ELSE Ok([c1 EXCEPT !.pos = @ + Word(c, 1)])

\* get_dqt: the values go straight into the slot, so that a suspension can leave
\* a table that is part old, part new until the segment is read again.
GetDqt(c) ==
  LET tables   == (Word(c, 1) - 1) \div 3
      Got(i)   == Have(c, i)
      Store(q, t) == IF ~Got(3 * t - 1) THEN q
                     ELSE [q EXCEPT ![Word(c, 3 * t - 1)] =
                             [i \in 1..2 |-> IF Got(3 * t - 1 + i) THEN Word(c, 3 * t - 1 + i)
                                             ELSE @[i]]]
      c1       == [c EXCEPT !.qtabs = FoldLeft(Store, @, [t \in 1..tables |-> t])]
  IN IF ~Got(1) THEN Suspend(c)
     ELSE IF \E t \in 1..tables : Got(3 * t - 1) /\ Word(c, 3 * t - 1) \notin Slots THEN Fail(c)
     ELSE IF ~Got(Word(c, 1)) THEN Suspend(c1)
     ELSE IF Word(c, 1) # 3 * tables + 1 THEN Fail(c1)
     ELSE Ok([c1 EXCEPT !.pos = @ + Word(c, 1)])

GetDri(c) ==
  IF ~Have(c, 1) THEN Suspend(c)
  ELSE IF Word(c, 1) # 2 THEN Fail(c)
  ELSE IF ~Have(c, 2) THEN Suspend(c)
  ELSE Ok([c EXCEPT !.restartInterval = Word(c, 2), !.pos = @ + 2])

-----------------------------------------------------------------------------

\* examine_app0 and examine_app14: look at the first data words of the segment.
ExamineApp0(c, data) ==
  IF data # <<>> /\ data[1] = JfifTag THEN [c EXCEPT !.jfif = TRUE] ELSE c

ExamineApp14(c, data) ==
  IF Len(data) >= 2 /\ data[1] = AdobeTag THEN [c EXCEPT !.adobe = 1 + data[2]] ELSE c

Examine(c, data) == CASE c.unread = APP0  -> ExamineApp0(c, data)
                      [] c.unread = APP14 -> ExamineApp14(c, data)
                      [] OTHER            -> c

Data(c, from, n) == [i \in 1..n |-> Word(c, from + i - 1)]

\* The words behind the length word; a bogus length, too short for the length word
\* itself, counts as none.
DataLength(c) == IF Word(c, 1) = 0 THEN 0 ELSE Word(c, 1) - 1

\* get_interesting_appn: its few words must be in one bufferload.
GetInterestingAppn(c) ==
  LET n == Min({DataLength(c), 2})
  IN IF ~Have(c, 1) \/ ~Have(c, n + 1) THEN Suspend(c)
     ELSE Ok(SkipInputData([Examine(c, Data(c, 2, n)) EXCEPT !.pos = @ + n + 1], DataLength(c) - n))

SkipVariable(c) ==
  IF ~Have(c, 1) THEN Suspend(c) ELSE Ok(SkipInputData([c EXCEPT !.pos = @ + 1], DataLength(c)))

\* save_marker: unlike the other processors it keeps what it has read and moves
\* the restart point when it suspends; cur_marker tells the next call to resume.
\* With a bogus length nothing is saved.
BeginMarker(c) ==
  LET want == Min({DataLength(c), c.save[c.unread]})
  IN IF c.cur # NoMarker THEN c
     ELSE [c EXCEPT !.pos = @ + 1, !.cur = [code |-> c.unread, want |-> want, rest |-> DataLength(c) - want,
                                            data |-> <<>>, image |-> c.image]]

ReadMarkerData(c) ==
  LET n == Avail(c, 1, c.cur.want - Len(c.cur.data))
  IN [c EXCEPT !.cur.data = @ \o Data(c, 1, n), !.pos = @ + n]

EndMarker(c) ==
  Ok(SkipInputData([Examine(c, c.cur.data) EXCEPT
       !.saved = Append(@, [code |-> c.cur.code, data |-> c.cur.data]), !.cur = NoMarker], c.cur.rest))

SaveMarker(c) ==
  LET read == ReadMarkerData(BeginMarker(c))
  IN IF c.cur = NoMarker /\ ~Have(c, 1) THEN Suspend(c)
     ELSE IF c.cur = NoMarker /\ Word(c, 1) = 0 THEN SkipVariable(c)
     ELSE IF Len(read.cur.data) < read.cur.want THEN Suspend(read)
     ELSE EndMarker(read)

\* jpeg_save_markers: c.save gives the length limit of the codes to be saved.  An
\* APP0 or APP14 is saved at least as far as the decoder itself looks into it.
SaveMarkers(c, limits) ==
  [c EXCEPT !.save = [code \in {k \in DOMAIN limits : limits[k] > 0} |->
     IF code \in DOMAIN AppnLen THEN Max({limits[code], AppnLen[code]}) ELSE limits[code]]]

\* jpeg_set_marker_processor: the processor a code has.
Processor(c) == IF c.unread \in DOMAIN c.save THEN SaveMarker(c)
                ELSE IF c.unread \in {APP0, APP14} THEN GetInterestingAppn(c)
                ELSE SkipVariable(c)

-----------------------------------------------------------------------------

\* One turn of the loop of read_markers.  "again" goes round the loop, "sos" and
\* "eoi" are JPEG_REACHED_SOS and JPEG_REACHED_EOI.
Processed(c) == Then(c, LAMBDA d : [d EXCEPT !.unread = 0, !.st = "again"])

ReadMarkers(c) ==
  IF c.unread = 0
  THEN Then(IF c.sawSOI THEN NextMarker(c) ELSE FirstMarker(c), LAMBDA f : [f EXCEPT !.st = "again"])
  ELSE CASE c.unread = SOI  -> Processed(GetSoi(c))
         [] c.unread \in {SOF0, SOF2} -> Processed(GetSof(c, c.unread = SOF2))
         [] c.unread = SOS  -> Then(GetSos(c), LAMBDA s : [s EXCEPT !.unread = 0, !.st = "sos"])
         [] c.unread = EOI  -> [c EXCEPT !.unread = 0, !.st = "eoi"]
         [] c.unread = DHT  -> Processed(GetDht(c))
         [] c.unread = DQT  -> Processed(GetDqt(c))
         [] c.unread = DRI  -> Processed(GetDri(c))
         [] c.unread \in (APP0 .. APP0 + 15) \cup {COM} -> Processed(Processor(c))
         [] c.unread \in RST0 .. RST7 -> [c EXCEPT !.unread = 0, !.st = "again"]
         [] OTHER -> Fail(c)

\* jpeg_resync_to_restart: what to do with a marker that is not the expected one.
ResyncAction(marker, desired) ==
  IF marker < SOF0 THEN 2
  ELSE IF marker < RST0 \/ marker > RST7 THEN 3
  ELSE IF marker \in {RST0 + ((desired + 1) % 8), RST0 + ((desired + 2) % 8)} THEN 3
  ELSE IF marker \in {RST0 + ((desired + 7) % 8), RST0 + ((desired + 6) % 8)} THEN 2
  ELSE 1

\* The marker is taken, or left to be read later; until there is one, the next.
Settled(c, action) == Ok(IF action = 1 THEN [c EXCEPT !.unread = 0] ELSE c)

ResyncToRestart(c, desired) ==
  LET Action(code) == ResyncAction(code, desired)
  IN IF Action(c.unread) # 2 THEN Settled(c, Action(c.unread))
     ELSE Then(SeekMarker(c, LAMBDA code : Action(code) # 2),
               LAMBDA found : Settled(found, Action(found.unread)))

\* read_restart_marker: the marker expected next, or whatever resynchronizes.
Resynced(m) == IF m.unread = RST0 + m.nextRestart THEN Ok([m EXCEPT !.unread = 0])
               ELSE ResyncToRestart(m, m.nextRestart)

ReadRestartMarker(c) ==
  Then(Then(IF c.unread = 0 THEN NextMarker(c) ELSE Ok(c), Resynced),
       LAMBDA r : [r EXCEPT !.nextRestart = (@ + 1) % 8])
=============================================================================
