---------------------- MODULE JpegDecompressorProofs ----------------------
(***************************************************************************)
(* Proofs about the decompression object.  Most of them are about what a   *)
(* function leaves alone: Changes(d, e, F) says of the object before and   *)
(* after it that it changes no field but those of F.                       *)
(***************************************************************************)
EXTENDS JpegDecompressor, LoopTheorems

Changes(d, e, F) == DOMAIN e = DOMAIN d /\ \A f \in DOMAIN d \ F : e[f] = d[f]

LEMMA ChangesMore ==
  ASSUME NEW d, NEW e, NEW F, NEW G, Changes(d, e, F), F \subseteq G
  PROVE  Changes(d, e, G)
BY DEF Changes

LEMMA ChangesAfter ==
  ASSUME NEW d, NEW e, NEW r, NEW F, Changes(d, e, F), Changes(e, r, F)
  PROVE  Changes(d, r, F)
BY DEF Changes

(***************************************************************************)
(* The marker reader.                                                      *)
(***************************************************************************)

LEMMA OutcomeChanges ==
  ASSUME NEW d
  PROVE  /\ Changes(d, Fail(d), {"st"})
         /\ Changes(d, Suspend(d), {"st"})
         /\ Changes(d, Ok(d), {"st"})
BY DEF Changes, Fail, Suspend, Ok

LEMMA NextMarkerChanges ==
  ASSUME NEW d
  PROVE  Changes(d, NextMarker(d), {"st", "unread", "pos"})
BY DEF Changes, NextMarker, SeekMarker, SeekTo, Suspend, Ok

LEMMA FirstMarkerChanges ==
  ASSUME NEW d
  PROVE  Changes(d, FirstMarker(d), {"st", "unread", "pos"})
BY DEF Changes, FirstMarker, Suspend, Ok, Fail

LEMMA GetSoiChanges ==
  ASSUME NEW d
  PROVE  Changes(d, GetSoi(d), {"st", "restartInterval", "jfif", "adobe", "sawSOI"})
BY DEF Changes, GetSoi, Ok, Fail

LEMMA GetSofChanges ==
  ASSUME NEW d, NEW isProg
  PROVE  Changes(d, GetSof(d, isProg), {"st", "progressive", "comps", "sawSOF", "pos"})
BY DEF Changes, GetSof, Suspend, Ok, Fail

LEMMA GetSosChanges ==
  ASSUME NEW d
  PROVE  Changes(d, GetSos(d), {"st", "scan", "Ss", "Al", "Ah", "nextRestart", "inputScan", "pos"})
BY DEF Changes, GetSos, Suspend, Ok, Fail

LEMMA GetDhtChanges ==
  ASSUME NEW d
  PROVE  Changes(d, GetDht(d), {"st", "htabs", "pos"})
BY DEF Changes, GetDht, Suspend, Ok, Fail

LEMMA GetDqtChanges ==
  ASSUME NEW d
  PROVE  Changes(d, GetDqt(d), {"st", "qtabs", "pos"})
BY DEF Changes, GetDqt, Suspend, Ok, Fail

LEMMA GetDriChanges ==
  ASSUME NEW d
  PROVE  Changes(d, GetDri(d), {"st", "restartInterval", "pos"})
BY DEF Changes, GetDri, Suspend, Ok, Fail

LEMMA ExamineChanges ==
  ASSUME NEW d, NEW data
  PROVE  Changes(d, Examine(d, data), {"jfif", "adobe"})
BY DEF Changes, Examine, ExamineApp0, ExamineApp14

LEMMA GetInterestingAppnChanges ==
  ASSUME NEW d
  PROVE  Changes(d, GetInterestingAppn(d), {"st", "jfif", "adobe", "pos"})
<1>1. \A data : Changes(d, Examine(d, data), {"jfif", "adobe"})
  BY ExamineChanges
<1> QED
  BY <1>1 DEF Changes, GetInterestingAppn, SkipInputData, Suspend, Ok

LEMMA SkipVariableChanges ==
  ASSUME NEW d
  PROVE  Changes(d, SkipVariable(d), {"st", "pos"})
BY DEF Changes, SkipVariable, SkipInputData, Suspend, Ok

LEMMA SaveMarkerChanges ==
  ASSUME NEW d
  PROVE  Changes(d, SaveMarker(d), {"st", "jfif", "adobe", "pos", "cur", "saved"})
<1> DEFINE read == ReadMarkerData(BeginMarker(d))
<1>1. Changes(d, BeginMarker(d), {"pos", "cur"})
  BY DEF Changes, BeginMarker
<1>2. \A r : Changes(r, ReadMarkerData(r), {"pos", "cur"})
  BY DEF Changes, ReadMarkerData
<1>3. ASSUME NEW r PROVE Changes(r, EndMarker(r), {"st", "jfif", "adobe", "pos", "cur", "saved"})
  <2> DEFINE x == Examine(r, r.cur.data)
  <2>1. Changes(r, x, {"jfif", "adobe"})
    BY ExamineChanges
  <2> HIDE DEF x
  <2>2. \A saved, pos : Changes(x, [[[x EXCEPT !.saved = saved, !.cur = NoMarker] EXCEPT !.pos = @ + pos]
                                      EXCEPT !.st = "ok"], {"st", "pos", "cur", "saved"})
    BY DEF Changes
  <2>3. Changes(x, EndMarker(r), {"st", "pos", "cur", "saved"})
    BY <2>2 DEF EndMarker, SkipInputData, Ok, x
  <2> QED
    BY <2>1, <2>3 DEF Changes
<1>4. Changes(d, read, {"pos", "cur"})
  BY <1>1, <1>2, ChangesAfter
<1> HIDE DEF read
<1>5. /\ Changes(d, Suspend(d), {"st", "jfif", "adobe", "pos", "cur", "saved"})
      /\ Changes(d, SkipVariable(d), {"st", "jfif", "adobe", "pos", "cur", "saved"})
      /\ Changes(d, Suspend(read), {"st", "jfif", "adobe", "pos", "cur", "saved"})
      /\ Changes(d, EndMarker(read), {"st", "jfif", "adobe", "pos", "cur", "saved"})
  BY <1>3, <1>4, SkipVariableChanges DEF Changes, Suspend
<1> QED
  BY <1>5 DEF SaveMarker, read

LEMMA ProcessorChanges ==
  ASSUME NEW d
  PROVE  Changes(d, Processor(d), {"st", "jfif", "adobe", "pos", "cur", "saved"})
BY SaveMarkerChanges, GetInterestingAppnChanges, SkipVariableChanges DEF Changes, Processor

\* What reading one marker can change.
MarkerFields ==
  {"st", "unread", "pos", "sawSOI", "sawSOF", "restartInterval", "jfif", "adobe", "progressive", "comps",
   "scan", "Ss", "Al", "Ah", "nextRestart", "inputScan", "htabs", "qtabs", "cur", "saved"}

LEMMA ProcessedChanges ==
  ASSUME NEW d, NEW e, Changes(d, e, MarkerFields)
  PROVE  Changes(d, Processed(e), MarkerFields)
BY DEF Changes, Processed, Then, MarkerFields

LEMMA ReadMarkersChanges ==
  ASSUME NEW d
  PROVE  Changes(d, ReadMarkers(d), MarkerFields)
<1>1. /\ Changes(d, NextMarker(d), MarkerFields) /\ Changes(d, FirstMarker(d), MarkerFields)
      /\ Changes(d, GetSoi(d), MarkerFields) /\ Changes(d, GetSof(d, d.unread = SOF2), MarkerFields)
      /\ Changes(d, GetSos(d), MarkerFields) /\ Changes(d, GetDht(d), MarkerFields)
      /\ Changes(d, GetDqt(d), MarkerFields) /\ Changes(d, GetDri(d), MarkerFields)
      /\ Changes(d, Processor(d), MarkerFields) /\ Changes(d, Fail(d), MarkerFields)
  BY NextMarkerChanges, FirstMarkerChanges, GetSoiChanges, GetSofChanges, GetSosChanges, GetDhtChanges,
     GetDqtChanges, GetDriChanges, ProcessorChanges, OutcomeChanges, ChangesMore DEF MarkerFields
<1>2. /\ Changes(d, Processed(GetSoi(d)), MarkerFields)
      /\ Changes(d, Processed(GetSof(d, d.unread = SOF2)), MarkerFields)
      /\ Changes(d, Processed(GetDht(d)), MarkerFields) /\ Changes(d, Processed(GetDqt(d)), MarkerFields)
      /\ Changes(d, Processed(GetDri(d)), MarkerFields) /\ Changes(d, Processed(Processor(d)), MarkerFields)
  BY <1>1, ProcessedChanges
<1>3. \A f : Changes(d, f, MarkerFields) => Changes(d, [f EXCEPT !.st = "again"], MarkerFields)
  BY DEF Changes, MarkerFields
<1>4. \A f, st : Changes(d, f, MarkerFields) => Changes(d, [f EXCEPT !.unread = 0, !.st = st], MarkerFields)
  BY DEF Changes, MarkerFields
<1>5. Changes(d, d, MarkerFields)
  BY DEF Changes
<1> QED
  BY <1>1, <1>2, <1>3, <1>4, <1>5 DEF ReadMarkers, Then

LEMMA ResyncedChanges ==
  ASSUME NEW d
  PROVE  Changes(d, Resynced(d), {"st", "unread", "pos", "nextRestart"})
<1>1. \A r, action : Changes(r, Settled(r, action), {"st", "unread", "pos", "nextRestart"})
  BY DEF Changes, Settled, Ok
<1>2. ASSUME NEW r, NEW desired
      PROVE  Changes(r, ResyncToRestart(r, desired), {"st", "unread", "pos", "nextRestart"})
  <2> DEFINE found == SeekMarker(r, LAMBDA code : ResyncAction(code, desired) # 2)
  <2>1. Changes(r, found, {"st", "unread", "pos", "nextRestart"})
    BY DEF Changes, SeekMarker, SeekTo, Suspend, Ok
  <2> HIDE DEF found
  <2>2. Changes(r, Settled(found, ResyncAction(found.unread, desired)), {"st", "unread", "pos", "nextRestart"})
    BY <1>1, <2>1, ChangesAfter
  <2>3. Changes(r, Settled(r, ResyncAction(r.unread, desired)), {"st", "unread", "pos", "nextRestart"})
    BY <1>1
  <2> QED
    BY <2>1, <2>2, <2>3 DEF ResyncToRestart, Then, found
<1> QED
  BY <1>2 DEF Changes, Resynced, Ok

LEMMA ReadRestartMarkerChanges ==
  ASSUME NEW d
  PROVE  Changes(d, ReadRestartMarker(d), {"st", "unread", "pos", "nextRestart"})
<1>1. Changes(d, IF d.unread = 0 THEN NextMarker(d) ELSE Ok(d), {"st", "unread", "pos", "nextRestart"})
  BY NextMarkerChanges, OutcomeChanges, ChangesMore
<1> QED
  BY <1>1, ResyncedChanges DEF Changes, ReadRestartMarker, Then

(***************************************************************************)
(* The entropy decoders and the controllers of the input side.             *)
(***************************************************************************)

\* An MCU is decoded in a working state, so that what decoding it changes is what
\* McuDecoded takes over.
McuFields ==
  {"st", "unread", "pos", "nextRestart", "buf", "insufficient", "lastDc", "eobrun", "togo", "coefs"}

LEMMA ProcessRestartChanges ==
  ASSUME NEW d
  PROVE  Changes(d, ProcessRestart(d), McuFields \ {"coefs"})
<1> DEFINE emptied == [d EXCEPT !.buf = <<>>]
           r == ReadRestartMarker(emptied)
<1>1. Changes(d, emptied, McuFields \ {"coefs"})
  BY DEF Changes, McuFields
<1>2. Changes(emptied, r, McuFields \ {"coefs"})
  BY ReadRestartMarkerChanges, ChangesMore DEF McuFields
<1> HIDE DEF emptied
<1>3. Changes(d, r, McuFields \ {"coefs"})
  BY <1>1, <1>2, ChangesAfter
<1> HIDE DEF r
<1>4. \A insufficient : Changes(r, [NewSegment(r) EXCEPT !.insufficient = insufficient], McuFields \ {"coefs"})
  BY DEF Changes, NewSegment, McuFields
<1>5. \A insufficient : Changes(d, [NewSegment(r) EXCEPT !.insufficient = insufficient], McuFields \ {"coefs"})
  BY <1>3, <1>4, ChangesAfter
<1> QED
  BY <1>3, <1>5 DEF ProcessRestart, Then, r, emptied

LEMMA McuDecodedChanges ==
  ASSUME NEW r, NEW w
  PROVE  Changes(r, McuDecoded(r, w), McuFields)
BY DEF Changes, McuDecoded, Suspend, McuFields

\* The segment an MCU is decoded in: a new one after a restart.
Segment(d) == IF d.restartInterval # 0 /\ d.togo = 0 THEN ProcessRestart(d) ELSE Ok(d)

LEMMA SegmentChanges ==
  ASSUME NEW d
  PROVE  Changes(d, Segment(d), McuFields \ {"coefs"})
BY ProcessRestartChanges, OutcomeChanges, ChangesMore DEF Segment, McuFields

LEMMA DecodeMcuChanges ==
  ASSUME NEW d
  PROVE  Changes(d, DecodeMcu(d), McuFields)
<1> DEFINE r == Segment(d)
<1>1. Changes(d, r, McuFields)
  BY SegmentChanges, ChangesMore
<1>2. \A w : Changes(d, McuDecoded(r, w), McuFields)
  BY <1>1, McuDecodedChanges, ChangesAfter
<1> HIDE DEF r
<1>3. Changes(d, DecodeMcuHuff(d), McuFields)
  BY <1>1, <1>2 DEF DecodeMcuHuff, WithinSegment, Then, r, Segment
<1>4. Changes(d, DecodeMcuDcFirst(d), McuFields)
  BY <1>1, <1>2 DEF DecodeMcuDcFirst, WithinSegment, Then, r, Segment
<1>5. Changes(d, DecodeMcuAcFirst(d), McuFields)
  BY <1>1, <1>2 DEF DecodeMcuAcFirst, WithinSegment, Then, r, Segment
<1>6. Changes(d, DecodeMcuDcRefine(d), McuFields)
  BY <1>1, <1>2 DEF DecodeMcuDcRefine, WithinSegment, Then, r, Segment
<1>7. Changes(d, DecodeMcuAcRefine(d), McuFields)
  BY <1>1, <1>2 DEF DecodeMcuAcRefine, WithinSegment, Then, r, Segment
<1> QED
  BY <1>3, <1>4, <1>5, <1>6, <1>7 DEF DecodeMcu, DecodeMcuPhuff

RowFields == {"inputRow", "outputRow", "ctr", "voff", "rowsPer", "consume", "st"}

LEMMA NextMcuChanges ==
  ASSUME NEW d, NEW advance
  PROVE  Changes(d, NextMcu(d, advance), RowFields)
BY DEF Changes, NextMcu, StartImcuRow, FinishInputPass, RowFields

LEMMA ConsumeDataChanges ==
  ASSUME NEW d
  PROVE  Changes(d, ConsumeData(d), McuFields \cup RowFields)
<1>1. Changes(d, DecodeMcu(d), McuFields \cup RowFields)
  BY DecodeMcuChanges, ChangesMore
<1>2. Changes(DecodeMcu(d), NextMcu(DecodeMcu(d), 0), McuFields \cup RowFields)
  BY NextMcuChanges, ChangesMore
<1> QED
  BY <1>1, <1>2, ChangesAfter DEF ConsumeData, Then

LEMMA LatchQuantTablesChanges ==
  ASSUME NEW d
  PROVE  Changes(d, LatchQuantTables(d), {"st", "latched"})
BY DEF Changes, LatchQuantTables, Fail, Ok

EntropyFields == {"st", "coefBits", "derived", "lastDc", "eobrun", "togo", "buf", "insufficient"}

LEMMA StartPassEntropyChanges ==
  ASSUME NEW d
  PROVE  Changes(d, StartPassEntropy(d), EntropyFields)
<1>1. Changes(d, StartPassHuff(d), EntropyFields)
  BY DEF Changes, StartPassHuff, NewSegment, DeriveTables, Fail, EntropyFields
<1>2. Changes(d, StartPassPhuff(d), EntropyFields)
  <2>1. \A bits : Changes(d, [d EXCEPT !.coefBits = bits], EntropyFields)
    BY DEF Changes, EntropyFields
  <2>2. \A known : Changes(known, Fail(known), EntropyFields)
    BY DEF Changes, Fail, EntropyFields
  <2>3. \A known : Changes(known, [NewSegment(DeriveTables(known)) EXCEPT !.buf = <<>>, !.insufficient = FALSE],
                           EntropyFields)
    BY DEF Changes, NewSegment, DeriveTables, EntropyFields
  <2>4. ASSUME NEW bits
        PROVE  /\ Changes(d, Fail([d EXCEPT !.coefBits = bits]), EntropyFields)
               /\ Changes(d, [NewSegment(DeriveTables([d EXCEPT !.coefBits = bits]))
                                EXCEPT !.buf = <<>>, !.insufficient = FALSE], EntropyFields)
    <3> DEFINE known == [d EXCEPT !.coefBits = bits]
    <3>1. Changes(d, known, EntropyFields)
      BY <2>1
    <3> HIDE DEF known
    <3>2. /\ Changes(d, Fail(known), EntropyFields)
          /\ Changes(d, [NewSegment(DeriveTables(known)) EXCEPT !.buf = <<>>, !.insufficient = FALSE],
                     EntropyFields)
      BY <2>2, <2>3, <3>1, ChangesAfter
    <3> QED
      BY <3>2 DEF known
  <2> QED
    BY <2>2, <2>4 DEF StartPassPhuff
<1> QED
  BY <1>1, <1>2 DEF StartPassEntropy

PassFields == EntropyFields \cup RowFields \cup {"latched"}

LEMMA StartInputPassChanges ==
  ASSUME NEW d
  PROVE  Changes(d, StartInputPass(d), PassFields)
<1> DEFINE l == LatchQuantTables(d)
           e == StartPassEntropy(l)
<1>1. Changes(d, l, PassFields)
  BY LatchQuantTablesChanges, ChangesMore DEF PassFields, RowFields
<1>2. Changes(l, e, PassFields)
  BY StartPassEntropyChanges, ChangesMore DEF PassFields
<1> HIDE DEF l
<1>3. Changes(d, e, PassFields)
  BY <1>1, <1>2, ChangesAfter
<1> HIDE DEF e
<1>4. \A r, consume : Changes(r, [CoefStartInputPass(r) EXCEPT !.consume = consume], PassFields)
  BY DEF Changes, CoefStartInputPass, StartImcuRow, PassFields, RowFields
<1>5. \A consume : /\ Changes(d, [CoefStartInputPass(e) EXCEPT !.consume = consume], PassFields)
                   /\ Changes(d, [CoefStartInputPass(l) EXCEPT !.consume = consume], PassFields)
  BY <1>1, <1>3, <1>4, ChangesAfter
<1> QED
  BY <1>1, <1>3, <1>5 DEF StartInputPass, Then, l, e

ConsumeFields == MarkerFields \cup McuFields \cup PassFields \cup {"multi", "inheaders", "eoi", "outputScan"}

LEMMA MarkersReadChanges ==
  ASSUME NEW d
  PROVE  Changes(d, MarkersRead(d), PassFields \cup {"multi", "inheaders", "eoi", "outputScan"})
<1> DEFINE F == PassFields \cup {"multi", "inheaders", "eoi", "outputScan"}
           s == StartInputPass(Ok(d))
<1>1. Changes(d, InitialSetup(d), F)
  BY DEF Changes, InitialSetup, Fail, PassFields, EntropyFields
<1>2. Changes(d, Fail(d), F)
  BY DEF Changes, Fail, PassFields, EntropyFields
<1>3. Changes(d, s, F)
  <2>1. Changes(d, Ok(d), F)
    BY DEF Changes, Ok, PassFields, EntropyFields
  <2>2. Changes(Ok(d), s, F)
    BY StartInputPassChanges, ChangesMore
  <2> QED
    BY <2>1, <2>2, ChangesAfter
<1> HIDE DEF s
<1>4. Changes(d, [s EXCEPT !.st = "sos"], F)
  <2>1. Changes(s, [s EXCEPT !.st = "sos"], F)
    BY DEF Changes, PassFields, EntropyFields
  <2> QED
    BY <1>3, <2>1, ChangesAfter
<1>5. Changes(d, EoiReached(d), F)
  BY DEF Changes, EoiReached, Fail, PassFields, EntropyFields
<1>6. Changes(d, SosReached(d), F)
  BY <1>1, <1>2, <1>3, <1>4 DEF SosReached, Then, s
<1>7. Changes(d, d, F)
  BY DEF Changes
<1> QED
  BY <1>5, <1>6, <1>7 DEF MarkersRead

LEMMA ConsumeMarkersChanges ==
  ASSUME NEW d
  PROVE  Changes(d, ConsumeMarkers(d), ConsumeFields)
<1> DEFINE r == ReadMarkers(d)
<1>1. Changes(d, [d EXCEPT !.st = "eoi"], ConsumeFields)
  BY DEF Changes, ConsumeFields, MarkerFields
<1>2. Changes(d, r, ConsumeFields)
  BY ReadMarkersChanges, ChangesMore DEF ConsumeFields
<1>3. Changes(r, MarkersRead(r), ConsumeFields)
  BY MarkersReadChanges, ChangesMore DEF ConsumeFields
<1> HIDE DEF r
<1>4. Changes(d, MarkersRead(r), ConsumeFields)
  BY <1>2, <1>3, ChangesAfter
<1> QED
  BY <1>1, <1>4 DEF ConsumeMarkers, r

ConsumeMethods == {"markers", "data", "dummy"}

LEMMA ConsumeChanges ==
  ASSUME NEW d, d.consume \in ConsumeMethods
  PROVE  Changes(d, Consume(d), ConsumeFields)
<1>1. Changes(d, DummyConsumeData(d), ConsumeFields)
  BY DEF Changes, DummyConsumeData, Suspend, ConsumeFields, MarkerFields
<1>2. Changes(d, ConsumeData(d), ConsumeFields)
  BY ConsumeDataChanges, ChangesMore DEF ConsumeFields, PassFields
<1> QED
  BY <1>1, <1>2, ConsumeMarkersChanges DEF Consume, ConsumeMethods

(***************************************************************************)
(* The output side.                                                        *)
(***************************************************************************)

LEMMA GoOnChanges ==
  ASSUME NEW d
  PROVE  Changes(d, GoOn(d), {"st"})
BY DEF Changes, GoOn

\* What a turn of the decompress_data method changes.
OutputFields == ConsumeFields \cup {"row"}

LEMMA DecompressOnepassChanges ==
  ASSUME NEW d
  PROVE  Changes(d, DecompressOnepass(d), McuFields \cup RowFields \cup {"row"})
<1> DEFINE F == McuFields \cup RowFields \cup {"row"}
           z == Zeroed(d)
           m == DecodeMcu(z)
           n == NextMcu(m, 1)
<1>1. Changes(d, z, F)
  BY DEF Changes, Zeroed, McuFields
<1>2. Changes(z, m, F)
  BY DecodeMcuChanges, ChangesMore
<1>3. Changes(m, n, F)
  BY NextMcuChanges, ChangesMore
<1>4. Changes(n, DeliverRow(n), F)
  BY DEF Changes, DeliverRow
<1> HIDE DEF z, m, n
<1>5. Changes(d, m, F)
  BY <1>1, <1>2, ChangesAfter
<1>6. Changes(d, DeliverRow(n), F)
  BY <1>3, <1>4, <1>5, ChangesAfter
<1> QED
  BY <1>5, <1>6 DEF DecompressOnepass, Then, z, m, n

LEMMA DecompressChanges ==
  ASSUME NEW d, d.consume \in ConsumeMethods
  PROVE  Changes(d, Decompress(d), OutputFields)
<1>1. Changes(d, DecompressOnepass(d), OutputFields)
  BY DecompressOnepassChanges, ChangesMore DEF OutputFields, ConsumeFields, PassFields
<1>2. \A row : Changes(d, Delivered(d, row), OutputFields)
  BY DEF Changes, Delivered, OutputFields, ConsumeFields, PassFields, RowFields
<1>3. Changes(d, GoOn(Consume(d)), OutputFields)
  <2>1. Changes(d, Consume(d), OutputFields)
    BY ConsumeChanges, ChangesMore DEF OutputFields
  <2>2. Changes(Consume(d), GoOn(Consume(d)), OutputFields)
    BY GoOnChanges, ChangesMore DEF OutputFields, ConsumeFields, MarkerFields
  <2> QED
    BY <2>1, <2>2, ChangesAfter
<1>4. Changes(d, DecompressData(d), OutputFields)
  BY <1>2, <1>3 DEF DecompressData
<1>5. Changes(d, DecompressSmoothData(d), OutputFields)
  BY <1>2, <1>3 DEF DecompressSmoothData
<1> QED
  BY <1>1, <1>4, <1>5 DEF Decompress
(***************************************************************************)
(* Where the marker reader is in its datastream.                           *)
(***************************************************************************)

LEMMA MinPair ==
  ASSUME NEW a \in Int, NEW b \in Int
  PROVE  Min({a, b}) = IF a <= b THEN a ELSE b
<1> DEFINE least == IF a <= b THEN a ELSE b
<1>1. least \in {a, b} /\ \A y \in {a, b} : least <= y
  OBVIOUS
<1>2. \A x \in {a, b} : (\A y \in {a, b} : x <= y) => x = least
  OBVIOUS
<1> HIDE DEF least
<1>3. Min({a, b}) = least
  BY <1>1, <1>2 DEF Min
<1> QED
  BY <1>3 DEF least

LEMMA MaxPair ==
  ASSUME NEW a \in Int, NEW b \in Int
  PROVE  Max({a, b}) = IF a <= b THEN b ELSE a
<1> DEFINE most == IF a <= b THEN b ELSE a
<1>1. most \in {a, b} /\ \A y \in {a, b} : most >= y
  OBVIOUS
<1>2. \A x \in {a, b} : (\A y \in {a, b} : x >= y) => x = most
  OBVIOUS
<1> HIDE DEF most
<1>3. Max({a, b}) = most
  BY <1>1, <1>2 DEF Max
<1> QED
  BY <1>3 DEF most

\* A datastream, the place in it and what of it is there; and what a save setting may be.
Stream(d) ==
  /\ d.words \in Seq(Nat)
  /\ d.pos \in Nat \ {0}
  /\ d.loaded \in 0 .. StreamEnd(d)
  /\ \A code \in DOMAIN d.save : d.save[code] \in Nat

\* The step from d to e goes on in the same datastream.
Advances(d, e) ==
  /\ e.words = d.words /\ e.loaded = d.loaded /\ e.save = d.save
  /\ e.pos \in Nat /\ d.pos <= e.pos

LEMMA AdvancesStream ==
  ASSUME NEW d, NEW e, Stream(d), Advances(d, e)
  PROVE  Stream(e)
BY DEF Stream, Advances, StreamEnd

LEMMA AdvancesAfter ==
  ASSUME NEW d, NEW e, NEW r, Stream(d), Advances(d, e), Advances(e, r)
  PROVE  Advances(d, r)
BY DEF Stream, Advances

LEMMA WordAtNat ==
  ASSUME NEW d, Stream(d), NEW i \in Nat \ {0}
  PROVE  WordAt(d, i) \in Nat
BY DEF Stream, WordAt, FF, EOI

LEMMA WordNat ==
  ASSUME NEW d, Stream(d), NEW i \in Nat \ {0}
  PROVE  Word(d, i) \in Nat
<1>1. d.pos + i - 1 \in Nat \ {0}
  BY DEF Stream
<1> QED
  BY <1>1, WordAtNat DEF Word

LEMMA AvailRange ==
  ASSUME NEW d, Stream(d), NEW from \in Nat \ {0}, NEW n \in Nat
  PROVE  /\ Avail(d, from, n) \in 0 .. n
         /\ Have(d, from + n - 1) => Avail(d, from, n) = n
<1> DEFINE l == d.loaded + 1
           p == d.pos + from - 1
<1>1. l \in Nat /\ p \in Nat
  BY DEF Stream
<1>2. Min({l, p}) = IF l <= p THEN l ELSE p
  BY <1>1, MinPair
<1>3. Min({n, l - Min({l, p})}) = IF n <= l - Min({l, p}) THEN n ELSE l - Min({l, p})
  BY <1>1, <1>2, MinPair
<1>4. Have(d, from + n - 1) => p + n - 1 <= d.loaded
  BY DEF Have, Stream
<1>5. Avail(d, from, n) = Min({n, l - Min({l, p})})
  BY DEF Avail
<1> QED
  BY <1>1, <1>2, <1>3, <1>4, <1>5, SMTT(40) DEF Stream

\* The fields of the object.
Fields ==
  {"file", "words", "pos", "loaded", "st", "image", "gstate", "unread", "sawSOI", "sawSOF", "nextRestart", "cur",
   "saved", "save", "jfif", "adobe", "comps", "progressive", "restartInterval", "qtabs", "htabs", "scan", "Ss",
   "Ah", "Al", "inputScan", "consume", "inheaders", "eoi", "multi", "latched", "inputRow", "ctr", "voff",
   "rowsPer", "coefs", "fullBuffer", "coefBits", "smooth", "latch", "derived", "buf", "val", "lastDc", "eobrun",
   "togo", "insufficient", "buffered", "quantize", "colormap", "dummy", "post", "outputScan", "outputRow",
   "scanline", "row"}

Object(d) == DOMAIN d = Fields

LEMMA ChangesObject ==
  ASSUME NEW d, NEW e, NEW F, Object(d), Changes(d, e, F)
  PROVE  Object(e)
BY DEF Object, Changes

LEMMA ChangesAdvance ==
  ASSUME NEW d, NEW e, NEW F, Object(d), Changes(d, e, F), F \cap {"words", "loaded", "save"} = {},
         e.pos \in Nat, d.pos <= e.pos
  PROVE  Advances(d, e)
BY DEF Object, Changes, Advances, Fields

\* What is the same before and after.
LEMMA ChangesNot ==
  ASSUME NEW d, NEW e, NEW F, NEW f, Object(d), Changes(d, e, F), f \in Fields, f \notin F
  PROVE  e[f] = d[f]
BY DEF Object, Changes

\* A marker is waiting only when something has been read.
Begun(d) == d.unread # 0 => d.pos > 1

LEMMA SeekToAdvances ==
  ASSUME NEW d, Object(d), Stream(d), Begun(d), NEW at \in Nat, d.pos <= at
  PROVE  /\ SeekTo(d, at).pos \in Nat /\ d.pos <= SeekTo(d, at).pos /\ Begun(SeekTo(d, at))
         /\ SeekTo(d, at).st \in {"ok", "susp"}
<1> DEFINE passed == {p \in Markers(d) : p + 1 <= d.loaded}
           from   == IF passed = {} THEN d.pos ELSE Max(passed) + 2
           tails  == {p \in from .. d.loaded + 1 : \A q \in p .. d.loaded : WordAt(d, q) = FF}
           tail   == Min(tails)
<1>0. d.pos \in Nat \ {0} /\ d.loaded \in Nat
  BY DEF Stream, StreamEnd
<1>1. passed # {} => Max(passed) \in Nat /\ d.pos <= Max(passed)
  <2>1. \A p \in passed : p \in Nat /\ d.pos <= p /\ p \in 0 .. d.loaded
    BY <1>0 DEF Markers
  <2> HIDE DEF passed
  <2>2. passed \in SUBSET (0 .. d.loaded)
    BY <2>1
  <2>3. passed # {} => Max(passed) \in passed
    BY <1>0, <2>2, MaxMember
  <2> QED
    BY <2>1, <2>3
<1>2. from \in Nat \ {0} /\ d.pos <= from /\ (passed # {} => from > 1)
  <2> HIDE DEF passed
  <2> QED
    BY <1>0, <1>1
<1>3. from <= d.loaded => tail \in Nat /\ from <= tail
  <2> HIDE DEF from
  <2> SUFFICES ASSUME from <= d.loaded PROVE tail \in Nat /\ from <= tail
    OBVIOUS
  <2>1. d.loaded + 1 \in tails
    BY <1>0, <1>2
  <2>2. tails \in SUBSET Nat
    BY <1>0, <1>2
  <2>3. \A p \in tails : from <= p
    BY <1>0, <1>2
  <2> HIDE DEF tails
  <2>4. tail \in tails
    BY <2>1, <2>2, MinMember
  <2> QED
    BY <2>2, <2>3, <2>4
<1> DEFINE pos == IF from > d.loaded THEN from ELSE tail
           found == Ok([d EXCEPT !.unread = WordAt(d, at + 1), !.pos = at + 2])
           none == Suspend([d EXCEPT !.unread = IF passed = {} THEN @ ELSE WordAt(d, Max(passed) + 1),
                                     !.pos = pos])
<1>4. pos \in Nat /\ d.pos <= pos /\ (passed # {} => pos > 1)
  <2> HIDE DEF passed, from, tail
  <2> QED
    BY <1>0, <1>2, <1>3
<1>5. found.pos = at + 2 /\ found.st = "ok" /\ Begun(found)
  BY <1>0 DEF Object, Fields, Ok, Begun
<1>6. none.pos = pos /\ none.st = "susp" /\ (passed = {} => none.unread = d.unread)
  <2> HIDE DEF passed, pos
  <2> QED
    BY <1>0 DEF Object, Fields, Suspend
<1>7. SeekTo(d, at) = IF at + 1 <= d.loaded THEN found ELSE none
  BY DEF SeekTo
<1> HIDE DEF found, none, passed, pos
<1>8. Begun(none)
  BY <1>0, <1>4, <1>6 DEF Begun
<1> QED
  BY <1>0, <1>4, <1>5, <1>6, <1>7, <1>8

\* A function of the marker reader goes on in the datastream and returns.
Reads(d, e) == Advances(d, e) /\ Begun(e) /\ e.st \in {"ok", "susp", "error"}

Reading(d) == Object(d) /\ Stream(d) /\ Begun(d)

LEMMA ReadsOn ==
  ASSUME NEW d, NEW e, NEW F, Reading(d), Changes(d, e, F), F \cap {"words", "loaded", "save", "unread"} = {},
         e.pos \in Nat, d.pos <= e.pos, e.st \in {"ok", "susp", "error"}
  PROVE  Reads(d, e)
<1>1. Advances(d, e)
  BY ChangesAdvance DEF Reading
<1>2. e.unread = d.unread
  BY DEF Changes, Reading, Object, Fields
<1>3. Begun(e)
  BY <1>2 DEF Begun, Reading, Stream
<1> QED
  BY <1>1, <1>3 DEF Reads

LEMMA OutcomeReads ==
  ASSUME NEW d, Reading(d)
  PROVE  /\ Reads(d, Fail(d)) /\ Reads(d, Suspend(d)) /\ Reads(d, Ok(d))
         /\ Ok(d).st = "ok" /\ Fail(d).st = "error" /\ Suspend(d).st = "susp"
<1>1. /\ Fail(d).pos = d.pos /\ Suspend(d).pos = d.pos /\ Ok(d).pos = d.pos
      /\ Ok(d).st = "ok" /\ Fail(d).st = "error" /\ Suspend(d).st = "susp"
  BY DEF Fail, Suspend, Ok, Reading, Object, Fields
<1>2. d.pos \in Nat
  BY DEF Reading, Stream
<1>3. \A e : Changes(d, e, {"st"}) /\ e.pos = d.pos /\ e.st \in {"ok", "susp", "error"} => Reads(d, e)
  BY <1>2, ReadsOn
<1> QED
  BY <1>1, <1>3, OutcomeChanges

\* Behind its end a stream has an EOI wherever one looks.
LEMMA MarkersEnd ==
  ASSUME NEW d, Reading(d)
  PROVE  /\ \E p \in Markers(d) : WordAt(d, p + 1) = EOI
         /\ \A p \in Markers(d) : p \in Nat /\ d.pos <= p
<1>1. d.pos \in Nat \ {0} /\ Len(d.words) \in Nat
  BY DEF Reading, Stream
<1>2. Max({d.pos, Len(d.words)}) = IF d.pos <= Len(d.words) THEN Len(d.words) ELSE d.pos
  BY <1>1, MaxPair
<1> DEFINE n == Len(d.words)
           p == IF d.pos <= n + 1 THEN n + 1 ELSE IF (d.pos - n) % 2 = 1 THEN d.pos ELSE d.pos + 1
<1>3. p \in Nat /\ d.pos <= p /\ p <= Max({d.pos, n}) + 1 /\ n < p /\ (p - n) % 2 = 1
  BY <1>1, <1>2, SMTT(40)
<1> HIDE DEF p
<1>4. (p + 1 - n) % 2 # 1
  <2>1. \A m \in Nat : m % 2 = 1 => (m + 1) % 2 # 1
    OBVIOUS
  <2>2. p - n \in Nat /\ (p - n) + 1 = p + 1 - n
    BY <1>1, <1>3
  <2> QED
    BY <1>3, <2>1, <2>2
<1>5. WordAt(d, p) = FF /\ WordAt(d, p + 1) = EOI
  BY <1>1, <1>3, <1>4 DEF WordAt
<1>6. p \in Markers(d)
  BY <1>1, <1>2, <1>3, <1>5 DEF Markers, IsMarkerAt, FF, EOI
<1>7. \A q \in Markers(d) : q \in Nat /\ d.pos <= q
  BY <1>1, <1>2 DEF Markers
<1> QED
  BY <1>5, <1>6, <1>7

LEMMA NextMarkerReads ==
  ASSUME NEW d, Reading(d)
  PROVE  Reads(d, NextMarker(d))
<1> DEFINE S == {p \in Markers(d) : TRUE}
           at == Min(S)
<1>1. S # {} /\ S \in SUBSET Nat /\ \A p \in S : d.pos <= p
  BY MarkersEnd
<1> HIDE DEF S
<1>2. at \in Nat /\ d.pos <= at
  BY <1>1, MinMember
<1>3. NextMarker(d) = SeekTo(d, at)
  BY DEF NextMarker, SeekMarker, S
<1> HIDE DEF at
<1>4. /\ NextMarker(d).pos \in Nat /\ d.pos <= NextMarker(d).pos /\ Begun(NextMarker(d))
      /\ NextMarker(d).st \in {"ok", "susp"}
  BY <1>2, <1>3, SeekToAdvances DEF Reading
<1>5. Advances(d, NextMarker(d))
  BY <1>4, NextMarkerChanges, ChangesAdvance DEF Reading
<1> QED
  BY <1>4, <1>5 DEF Reads

LEMMA FirstMarkerReads ==
  ASSUME NEW d, Reading(d)
  PROVE  Reads(d, FirstMarker(d))
<1>1. d.pos \in Nat \ {0}
  BY DEF Reading, Stream
<1> DEFINE first == Ok([d EXCEPT !.unread = SOI, !.pos = @ + 2])
<1>2. first.pos = d.pos + 2 /\ first.st = "ok" /\ Begun(first)
  BY <1>1 DEF Ok, Begun, Reading, Object, Fields
<1>3. Changes(d, first, {"st", "unread", "pos"})
  BY DEF Changes, Ok
<1> HIDE DEF first
<1>4. Advances(d, first)
  BY <1>1, <1>2, <1>3, ChangesAdvance DEF Reading
<1>5. Reads(d, first)
  BY <1>2, <1>4 DEF Reads
<1> QED
  BY <1>5, OutcomeReads DEF FirstMarker, first

LEMMA GetSoiReads ==
  ASSUME NEW d, Reading(d)
  PROVE  Reads(d, GetSoi(d)) /\ (d.sawSOF => GetSoi(d).sawSOF) /\ GetSoi(d).comps = d.comps
<1>1. GetSoi(d).pos = d.pos /\ GetSoi(d).st \in {"ok", "error"} /\ d.pos \in Nat
  BY DEF GetSoi, Ok, Fail, Reading, Object, Fields, Stream
<1>2. GetSoi(d).sawSOF = d.sawSOF /\ GetSoi(d).comps = d.comps
  BY GetSoiChanges DEF Changes, Reading, Object, Fields
<1> QED
  BY <1>1, <1>2, GetSoiChanges, ReadsOn

LEMMA GetDhtReads ==
  ASSUME NEW d, Reading(d)
  PROVE  Reads(d, GetDht(d))
<1>1. d.pos \in Nat /\ Word(d, 1) \in Nat
  BY WordNat DEF Reading, Stream
<1>2. GetDht(d).pos \in {d.pos, d.pos + Word(d, 1)} /\ GetDht(d).st \in {"ok", "susp", "error"}
  BY <1>1 DEF GetDht, Ok, Fail, Suspend, Reading, Object, Fields
<1> QED
  BY <1>1, <1>2, GetDhtChanges, ReadsOn

LEMMA GetDqtReads ==
  ASSUME NEW d, Reading(d)
  PROVE  Reads(d, GetDqt(d))
<1>1. d.pos \in Nat /\ Word(d, 1) \in Nat
  BY WordNat DEF Reading, Stream
<1>2. GetDqt(d).pos \in {d.pos, d.pos + Word(d, 1)} /\ GetDqt(d).st \in {"ok", "susp", "error"}
  BY <1>1 DEF GetDqt, Ok, Fail, Suspend, Reading, Object, Fields
<1> QED
  BY <1>1, <1>2, GetDqtChanges, ReadsOn

LEMMA GetDriReads ==
  ASSUME NEW d, Reading(d)
  PROVE  Reads(d, GetDri(d))
<1>1. d.pos \in Nat
  BY DEF Reading, Stream
<1>2. GetDri(d).pos \in {d.pos, d.pos + 2} /\ GetDri(d).st \in {"ok", "susp", "error"}
  BY <1>1 DEF GetDri, Ok, Fail, Suspend, Reading, Object, Fields
<1> QED
  BY <1>1, <1>2, GetDriChanges, ReadsOn

LEMMA DataLengthNat ==
  ASSUME NEW d, Reading(d)
  PROVE  DataLength(d) \in Nat
<1>1. Word(d, 1) \in Nat
  BY WordNat DEF Reading
<1> QED
  BY <1>1 DEF DataLength

LEMMA SkipVariableReads ==
  ASSUME NEW d, Reading(d)
  PROVE  Reads(d, SkipVariable(d))
<1>1. d.pos \in Nat /\ DataLength(d) \in Nat
  BY DataLengthNat DEF Reading, Stream
<1>2. SkipVariable(d).pos \in {d.pos, d.pos + 1 + DataLength(d)} /\ SkipVariable(d).st \in {"ok", "susp"}
  BY <1>1 DEF SkipVariable, SkipInputData, Ok, Suspend, Reading, Object, Fields
<1> QED
  BY <1>1, <1>2, SkipVariableChanges, ReadsOn

LEMMA GetInterestingAppnReads ==
  ASSUME NEW d, Reading(d)
  PROVE  Reads(d, GetInterestingAppn(d))
<1> DEFINE n == Min({DataLength(d), 2})
<1>1. d.pos \in Nat /\ DataLength(d) \in Nat
  BY DataLengthNat DEF Reading, Stream
<1>2. n \in Nat /\ n <= DataLength(d)
  BY <1>1, MinPair
<1> HIDE DEF n
<1>3. \A data : Examine(d, data).pos = d.pos /\ Object(Examine(d, data))
  BY ExamineChanges, ChangesObject DEF Changes, Reading, Object, Fields
<1> DEFINE skip == Ok(SkipInputData([Examine(d, Data(d, 2, n)) EXCEPT !.pos = @ + n + 1], DataLength(d) - n))
<1>4. skip.pos = d.pos + n + 1 + (DataLength(d) - n) /\ skip.st = "ok"
  BY <1>1, <1>2, <1>3 DEF SkipInputData, Ok, Object, Fields
<1>5. Suspend(d).pos = d.pos /\ Suspend(d).st = "susp"
  BY DEF Suspend, Reading, Object, Fields
<1>6. GetInterestingAppn(d) \in {skip, Suspend(d)}
  BY DEF GetInterestingAppn, n
<1> HIDE DEF skip
<1>7. GetInterestingAppn(d).pos \in Nat /\ d.pos <= GetInterestingAppn(d).pos
      /\ GetInterestingAppn(d).st \in {"ok", "susp", "error"}
  BY <1>1, <1>2, <1>4, <1>5, <1>6
<1> QED
  BY <1>7, GetInterestingAppnChanges, ReadsOn

\* comp_info, once there is any, is of this image and has the components of the frame.
Components(d) ==
  /\ DOMAIN d.comps = {"image", "info"} /\ d.comps.info \in Seq(Nat)
  /\ d.comps = NoComps \/ (d.comps.image = d.image /\ d.comps.info # <<>>)
  /\ d.sawSOF => d.comps # NoComps

\* A marker being saved is of this image and not complete.
Saving(d) ==
  \/ d.cur = NoMarker
  \/ /\ DOMAIN d.cur = {"code", "want", "rest", "data", "image"} /\ d.cur.image = d.image
     /\ d.cur.want \in Nat /\ d.cur.rest \in Nat
     /\ d.cur.data \in Seq(Nat) /\ Len(d.cur.data) < d.cur.want

\* Once there is a frame header, it stays.
SameFrame(d, e) == d.sawSOF => e.sawSOF /\ e.comps = d.comps

LEMMA GetSofReads ==
  ASSUME NEW d, Reading(d), Components(d), NEW isProg \in BOOLEAN
  PROVE  LET e == GetSof(d, isProg) IN Reads(d, e) /\ Components(e) /\ SameFrame(d, e)
<1> DEFINE n     == Word(d, 2)
           c1    == [d EXCEPT !.progressive = isProg]
           c2    == IF d.comps = NoComps
                    THEN [c1 EXCEPT !.comps = [image |-> d.image, info |-> [i \in 1..n |-> 0]]]
                    ELSE c1
           c3    == [c2 EXCEPT !.comps.info =
                       [i \in DOMAIN @ |-> IF i <= Avail(d, 3, n) THEN Word(d, i + 2) ELSE @[i]]]
           whole == Ok([c3 EXCEPT !.sawSOF = TRUE, !.pos = @ + n + 2])
           e     == GetSof(d, isProg)
<1>1. d.pos \in Nat /\ n \in Nat
  BY WordNat DEF Reading, Stream
<1>2. e = IF ~Have(d, 2) THEN Suspend(c1)
          ELSE IF d.sawSOF \/ n = 0 \/ Word(d, 1) # n + 2 THEN Fail(c1)
          ELSE IF ~Have(d, n + 2) THEN Suspend(c3) ELSE whole
  BY DEF GetSof
<1>3. /\ c1.comps = d.comps /\ c1.pos = d.pos /\ c1.sawSOF = d.sawSOF /\ c1.image = d.image
      /\ DOMAIN c1 = Fields
  BY DEF Reading, Object, Fields
<1> HIDE DEF c1
<1>4. \A x : /\ x \in {Suspend(c1), Fail(c1)} => 
                  /\ x.comps = d.comps /\ x.pos = d.pos /\ x.sawSOF = d.sawSOF /\ x.image = d.image
                  /\ x.st \in {"susp", "error"}
  BY <1>3 DEF Suspend, Fail, Fields
<1>5. ASSUME n # 0, ~d.sawSOF
      PROVE  /\ DOMAIN c3 = Fields /\ c3.pos = d.pos /\ c3.image = d.image /\ c3.sawSOF = d.sawSOF
             /\ DOMAIN c3.comps = {"image", "info"} /\ c3.comps.image = d.image
             /\ c3.comps.info \in Seq(Nat) /\ c3.comps.info # <<>> 
  <2>1. /\ DOMAIN c2 = Fields /\ c2.pos = d.pos /\ c2.image = d.image /\ c2.sawSOF = d.sawSOF
    BY <1>3 DEF Fields
  <2>2. DOMAIN c2.comps = {"image", "info"} /\ c2.comps.image = d.image
    BY <1>3 DEF Fields, Components
  <2>3. c2.comps.info \in Seq(Nat) /\ c2.comps.info # <<>>
    <3>1. [i \in 1..n |-> 0] \in Seq(Nat) /\ [i \in 1..n |-> 0] # <<>>
      BY <1>1, <1>5
    <3> QED
      BY <1>3, <3>1 DEF Fields, Components
  <2> HIDE DEF c2
  <2> DEFINE old  == c2.comps.info
             info == [i \in DOMAIN old |-> IF i <= Avail(d, 3, n) THEN Word(d, i + 2) ELSE old[i]]
  <2>4. c3.comps = [c2.comps EXCEPT !.info = info] /\ DOMAIN c3 = Fields
        /\ c3.pos = c2.pos /\ c3.image = c2.image /\ c3.sawSOF = c2.sawSOF
    BY <2>1 DEF Fields
  <2>5. info \in Seq(Nat) /\ info # <<>>
    <3>1. \A i \in DOMAIN old : i + 2 \in Nat \ {0} /\ old[i] \in Nat
      BY <2>3
    <3>2. \A i \in DOMAIN old : Word(d, i + 2) \in Nat
      BY <3>1, WordNat DEF Reading
    <3>3. \A i \in DOMAIN old : (IF i <= Avail(d, 3, n) THEN Word(d, i + 2) ELSE old[i]) \in Nat
      BY <3>1, <3>2
    <3>4. info \in [1 .. Len(old) -> Nat] /\ Len(old) \in Nat \ {0}
      BY <2>3, <3>3
    <3> HIDE DEF info, old
    <3> QED
      BY <3>4
  <2> HIDE DEF c3, info, old
  <2> QED
    BY <2>1, <2>2, <2>4, <2>5 DEF old
<1> HIDE DEF c3
<1>6. CASE e \in {Suspend(c1), Fail(c1)}
  <2>1. e.comps = d.comps /\ e.pos = d.pos /\ e.sawSOF = d.sawSOF /\ e.image = d.image /\ e.st \in {"susp", "error"}
    BY <1>4, <1>6
  <2> HIDE DEF e
  <2>2. Components(e) /\ SameFrame(d, e)
    BY <2>1 DEF Components, SameFrame
  <2>3. Reads(d, e)
    BY <1>1, <2>1, GetSofChanges, ReadsOn DEF e
  <2> QED
    BY <2>2, <2>3 DEF e
<1>7. CASE ~(e \in {Suspend(c1), Fail(c1)})
  <2>1. n # 0 /\ ~d.sawSOF /\ e \in {Suspend(c3), whole}
    BY <1>2, <1>7
  <2>2. /\ e.pos \in {d.pos, d.pos + n + 2} /\ e.st \in {"susp", "ok"} /\ e.image = d.image
        /\ e.comps = c3.comps
    <3>1. DOMAIN c3 = Fields /\ c3.pos = d.pos /\ c3.image = d.image
      BY <1>5, <2>1
    <3>2. /\ Suspend(c3).pos = d.pos /\ Suspend(c3).st = "susp" /\ Suspend(c3).image = d.image
          /\ Suspend(c3).comps = c3.comps
      BY <3>1 DEF Suspend, Fields
    <3>3. /\ whole.pos = d.pos + n + 2 /\ whole.st = "ok" /\ whole.image = d.image
          /\ whole.comps = c3.comps
      BY <3>1 DEF Ok, Fields
    <3> HIDE DEF e, whole
    <3> QED
      BY <2>1, <3>2, <3>3
  <2> HIDE DEF e, whole
  <2>3. c3.comps # NoComps
    BY <1>5, <2>1 DEF NoComps
  <2>4. Components(e) /\ SameFrame(d, e)
    BY <1>5, <2>1, <2>2, <2>3 DEF Components, SameFrame
  <2>5. Reads(d, e)
    BY <1>1, <2>2, GetSofChanges, ReadsOn DEF e
  <2> QED
    BY <2>4, <2>5 DEF e
<1> QED
  BY <1>6, <1>7

\* The scan has components, all of the frame.
ScanOfFrame(d) ==
  /\ \E n \in Nat \ {0} : DOMAIN d.scan = 1 .. n
  /\ \A k \in DOMAIN d.scan : d.scan[k][1] \in DOMAIN d.comps.info

LEMMA GetSosReads ==
  ASSUME NEW d, Reading(d), Components(d)
  PROVE  LET e == GetSos(d)
         IN /\ Reads(d, e)
            /\ e.sawSOF = d.sawSOF /\ e.comps = d.comps
            /\ e.st = "ok" => d.sawSOF /\ ScanOfFrame(e)
<1> DEFINE n      == Word(d, 2)
           k      == Avail(d, 3, n)
           Ids(i) == {j \in DOMAIN d.comps.info : d.comps.info[j] \div 16 = Word(d, i + 2) \div 16}
           c1     == [d EXCEPT !.scan = [i \in 1..n |->
                        IF i <= k THEN <<Min(Ids(i)), Word(d, i + 2) % 16>>
                        ELSE IF i \in DOMAIN @ THEN @[i] ELSE <<1, 0>>]]
           whole  == Ok([c1 EXCEPT !.Ss = Word(d, n + 3) % 2, !.Al = (Word(d, n + 3) \div 2) % 2,
                                   !.Ah = Word(d, n + 3) \div 4, !.nextRestart = 0,
                                   !.inputScan = @ + 1, !.pos = @ + n + 3])
           e      == GetSos(d)
<1>1. d.pos \in Nat /\ d.loaded \in Nat /\ n \in Nat
  BY WordNat DEF Reading, Stream, StreamEnd
<1>2. e = IF ~d.sawSOF THEN Fail(d)
          ELSE IF ~Have(d, 2) THEN Suspend(d)
          ELSE IF Word(d, 1) # n + 3 \/ n < 1 \/ n > MaxScan \/ \E i \in 1..k : Ids(i) = {} THEN Fail(d)
          ELSE IF ~Have(d, n + 3) THEN Suspend(c1)
          ELSE whole
  BY DEF GetSos
<1>3. c1.pos = d.pos /\ DOMAIN c1 = Fields
  BY DEF Reading, Object, Fields
<1> DEFINE scan == [i \in 1..n |-> IF i <= k THEN <<Min(Ids(i)), Word(d, i + 2) % 16>>
                                   ELSE IF i \in DOMAIN d.scan THEN d.scan[i] ELSE <<1, 0>>]
<1>4. c1.scan = scan
  BY DEF Reading, Object, Fields
<1> HIDE DEF c1
<1>5. /\ Suspend(c1).pos = d.pos /\ Suspend(c1).st = "susp"
      /\ Suspend(d).pos = d.pos /\ Suspend(d).st = "susp"
      /\ Fail(d).pos = d.pos /\ Fail(d).st = "error"
  BY <1>3 DEF Suspend, Fail, Reading, Object, Fields
<1>6. whole.pos = d.pos + n + 3 /\ whole.st = "ok" /\ whole.scan = c1.scan
  BY <1>3 DEF Ok, Fields
<1> HIDE DEF whole
<1>7. e.pos \in {d.pos, d.pos + n + 3} /\ e.st \in {"ok", "susp", "error"} /\ (e.st = "ok" => e = whole)
  <2> HIDE DEF e
  <2> QED
    BY <1>2, <1>5, <1>6
<1>8. Reads(d, e)
  BY <1>1, <1>7, GetSosChanges, ReadsOn
<1>9. e.sawSOF = d.sawSOF /\ e.comps = d.comps
  BY GetSosChanges DEF Changes, Reading, Object, Fields
<1>10. ASSUME e.st = "ok" PROVE d.sawSOF /\ ScanOfFrame(e)
  <2>1. d.sawSOF /\ n \in Nat \ {0} /\ Have(d, n + 3) /\ \A i \in 1..k : Ids(i) # {}
    <3> HIDE DEF e, n, k, Ids
    <3> QED
      BY <1>1, <1>2, <1>5, <1>10
  <2>2. k = n
    <3>1. Have(d, 3 + n - 1)
      BY <1>1, <2>1 DEF Have
    <3> QED
      BY <1>1, <3>1, AvailRange DEF Reading
  <2>3. \A i \in 1 .. n : scan[i][1] \in DOMAIN d.comps.info
    <3>1. ASSUME NEW i \in 1 .. n PROVE Min(Ids(i)) \in DOMAIN d.comps.info
      <4>1. Ids(i) \in SUBSET Nat /\ Ids(i) # {}
        BY <2>1, <2>2, SMTT(40) DEF Components
      <4> HIDE DEF n, k
      <4>2. Min(Ids(i)) \in Ids(i)
        BY <4>1, MinMember
      <4> QED
        BY <4>2
    <3> HIDE DEF Ids
    <3> QED
      BY <2>2, <3>1
  <2>4. e.scan = scan
    BY <1>4, <1>6, <1>7, <1>10
  <2>5. DOMAIN scan = 1 .. n
    OBVIOUS
  <2> HIDE DEF scan, e, n
  <2> QED
    BY <1>9, <2>1, <2>3, <2>4, <2>5 DEF ScanOfFrame
<1> QED
  BY <1>8, <1>9, <1>10

LEMMA SaveMarkerReads ==
  ASSUME NEW d, Reading(d), Saving(d), d.unread \in DOMAIN d.save
  PROVE  Reads(d, SaveMarker(d)) /\ Saving(SaveMarker(d))
<1> DEFINE begun == BeginMarker(d)
           read  == ReadMarkerData(begun)
           end   == EndMarker(read)
<1>1. d.pos \in Nat \ {0} /\ DataLength(d) \in Nat
  BY DataLengthNat DEF Reading, Stream
<1>2. /\ DOMAIN begun = Fields /\ begun.pos \in Nat \ {0} /\ d.pos <= begun.pos
      /\ DOMAIN begun.cur = {"code", "want", "rest", "data", "image"} /\ begun.cur.image = d.image
      /\ begun.cur.want \in Nat /\ begun.cur.rest \in Nat
      /\ begun.cur.data \in Seq(Nat) /\ Len(begun.cur.data) <= begun.cur.want
      /\ begun.words = d.words /\ begun.loaded = d.loaded /\ begun.save = d.save
  <2>1. CASE d.cur # NoMarker
    BY <1>1, <2>1 DEF BeginMarker, Saving, Reading, Object
  <2>2. CASE d.cur = NoMarker
    <3> DEFINE want == Min({DataLength(d), d.save[d.unread]})
               cur  == [code |-> d.unread, want |-> want, rest |-> DataLength(d) - want,
                        data |-> <<>>, image |-> d.image]
    <3>1. d.save[d.unread] \in Nat
      BY DEF Reading, Stream
    <3>2. want \in Nat /\ DataLength(d) - want \in Nat
      BY <1>1, <3>1, MinPair
    <3>3. begun = [d EXCEPT !.pos = @ + 1, !.cur = cur]
      BY <2>2 DEF BeginMarker
    <3> HIDE DEF begun, want
    <3>4. /\ DOMAIN begun = Fields /\ begun.pos = d.pos + 1 /\ begun.cur = cur
          /\ begun.words = d.words /\ begun.loaded = d.loaded /\ begun.save = d.save
      BY <3>3 DEF Reading, Object, Fields
    <3>5. /\ DOMAIN cur = {"code", "want", "rest", "data", "image"} /\ cur.image = d.image
          /\ cur.want = want /\ cur.rest \in Nat /\ cur.data = <<>> 
      BY <3>2
    <3> HIDE DEF cur
    <3> QED
      BY <1>1, <3>2, <3>4, <3>5
  <2> QED
    BY <2>1, <2>2
<1> HIDE DEF begun
<1> DEFINE n == Avail(begun, 1, begun.cur.want - Len(begun.cur.data))
<1>3. Stream(begun)
  BY <1>2 DEF Reading, Stream, StreamEnd
<1>4. n \in 0 .. begun.cur.want - Len(begun.cur.data)
  <2>1. begun.cur.want - Len(begun.cur.data) \in Nat
    BY <1>2
  <2> QED
    BY <1>3, <2>1, AvailRange
<1>5. Data(begun, 1, n) \in Seq(Nat) /\ Len(Data(begun, 1, n)) = n
  <2>1. \A i \in 1 .. n : Word(begun, 1 + i - 1) \in Nat
    <3>1. \A i \in 1 .. n : 1 + i - 1 \in Nat \ {0}
      BY <1>4
    <3> QED
      BY <1>3, <3>1, WordNat
  <2>2. n \in Nat
    BY <1>2, <1>4
  <2> HIDE DEF n
  <2> QED
    BY <2>1, <2>2 DEF Data
<1> HIDE DEF n
<1>6. /\ DOMAIN read = Fields /\ read.pos = begun.pos + n
      /\ read.cur = [begun.cur EXCEPT !.data = @ \o Data(begun, 1, n)]
  BY <1>2 DEF ReadMarkerData, Fields, n
<1>7. begun.cur.data \o Data(begun, 1, n) \in Seq(Nat)
  BY <1>2, <1>5
<1>8. /\ DOMAIN read.cur = {"code", "want", "rest", "data", "image"} /\ read.cur.image = d.image
      /\ read.cur.want \in Nat /\ read.cur.rest \in Nat
      /\ read.cur.data \in Seq(Nat)
  BY <1>2, <1>6, <1>7
<1> HIDE DEF read
<1>9. read.pos \in Nat /\ d.pos <= read.pos
  BY <1>1, <1>2, <1>4, <1>6
<1>10. Suspend(read).pos = read.pos /\ Suspend(read).st = "susp" /\ Suspend(read).cur = read.cur
       /\ Suspend(read).image = read.image
  BY <1>6 DEF Suspend, Fields
<1>11. end.pos = read.pos + read.cur.rest /\ end.st = "ok" /\ end.cur = NoMarker
  <2> DEFINE x == Examine(read, read.cur.data)
  <2>1. DOMAIN x = Fields /\ x.pos = read.pos
    BY <1>6, ExamineChanges DEF Changes, Fields
  <2> HIDE DEF x
  <2>2. end = Ok(SkipInputData([x EXCEPT
       !.saved = Append(@, [code |-> read.cur.code, data |-> read.cur.data]), !.cur = NoMarker], read.cur.rest))
    BY DEF EndMarker, x
  <2> HIDE DEF end
  <2> QED
    BY <2>1, <2>2 DEF Ok, SkipInputData, Fields
<1> HIDE DEF end
<1>12. SaveMarker(d) = IF d.cur = NoMarker /\ ~Have(d, 1) THEN Suspend(d)
                       ELSE IF d.cur = NoMarker /\ Word(d, 1) = 0 THEN SkipVariable(d)
                       ELSE IF Len(read.cur.data) < read.cur.want THEN Suspend(read)
                       ELSE end
  BY DEF SaveMarker, read, begun, end
<1>13. /\ SaveMarker(d).image = d.image /\ Changes(d, SaveMarker(d), {"st", "jfif", "adobe", "pos", "cur", "saved"})
  BY SaveMarkerChanges DEF Changes, Reading, Object, Fields
<1>14. Reads(d, Suspend(d)) /\ Suspend(d).cur = d.cur /\ Reads(d, SkipVariable(d)) /\ SkipVariable(d).cur = d.cur
  BY OutcomeReads, SkipVariableReads, SkipVariableChanges DEF Suspend, Changes, Reading, Object, Fields
<1>15. CASE d.cur = NoMarker /\ (~Have(d, 1) \/ Word(d, 1) = 0)
  BY <1>12, <1>14, <1>15 DEF Saving
<1>16. CASE ~(d.cur = NoMarker /\ (~Have(d, 1) \/ Word(d, 1) = 0))
  <2> DEFINE e == SaveMarker(d)
  <2>1. e = IF Len(read.cur.data) < read.cur.want THEN Suspend(read) ELSE end
    BY <1>12, <1>16
  <2> HIDE DEF e
  <2>2. e.pos \in Nat /\ d.pos <= e.pos /\ e.st \in {"susp", "ok"}
    BY <1>1, <1>8, <1>9, <1>10, <1>11, <2>1
  <2>3. Reads(d, e)
    BY <1>13, <2>2, ReadsOn DEF e
  <2>4. Saving(e)
    BY <1>8, <1>10, <1>11, <1>13, <2>1 DEF Saving, e
  <2> QED
    BY <2>3, <2>4 DEF e
<1> QED
  BY <1>15, <1>16

Reader(d) == Reading(d) /\ Components(d) /\ Saving(d)

\* From one turn of the marker reader to the next.
ReadsMarker(d, e) == Advances(d, e) /\ Reader(e) /\ SameFrame(d, e) /\ e.image = d.image

LEMMA ReaderKept ==
  ASSUME NEW d, NEW e, NEW F, Reader(d), Reads(d, e), Changes(d, e, F),
         F \cap {"comps", "cur", "image", "sawSOF"} = {}
  PROVE  ReadsMarker(d, e)
<1>1. e.comps = d.comps /\ e.cur = d.cur /\ e.image = d.image /\ e.sawSOF = d.sawSOF
  BY DEF Changes, Reader, Reading, Object, Fields
<1>2. Reading(e)
  BY ChangesObject, AdvancesStream DEF Reader, Reading, Reads
<1> QED
  BY <1>1, <1>2 DEF Reader, Reads, ReadsMarker, Components, Saving, SameFrame

\* The outcome of a turn, and the marker taken.
Left(e, st) == [e EXCEPT !.st = st]
Taken(e, st) == [e EXCEPT !.unread = 0, !.st = st]

LEMMA ReadsMarkerOutcome ==
  ASSUME NEW d, NEW e, ReadsMarker(d, e), NEW st, NEW r, r \in {Left(e, st), Taken(e, st)}
  PROVE  /\ ReadsMarker(d, r) /\ r.st = st
         /\ r.pos = e.pos /\ r.sawSOF = e.sawSOF /\ r.scan = e.scan /\ r.comps = e.comps
<1>0. DOMAIN e = Fields
  BY DEF ReadsMarker, Reader, Reading, Object
<1>1. /\ DOMAIN r = Fields /\ r.words = e.words /\ r.loaded = e.loaded /\ r.save = e.save
      /\ r.pos = e.pos /\ r.unread \in {e.unread, 0} /\ r.comps = e.comps /\ r.cur = e.cur
      /\ r.image = e.image /\ r.sawSOF = e.sawSOF /\ r.st = st /\ r.scan = e.scan
  <2>1. /\ Changes(e, Left(e, st), {"st", "unread"}) /\ Left(e, st).st = st /\ Left(e, st).unread = e.unread
        /\ Changes(e, Taken(e, st), {"st", "unread"}) /\ Taken(e, st).st = st /\ Taken(e, st).unread = 0
    BY <1>0 DEF Fields, Left, Taken, Changes
  <2>2. Changes(e, r, {"st", "unread"}) /\ r.st = st /\ r.unread \in {e.unread, 0}
    BY <2>1
  <2> QED
    BY <1>0, <2>2 DEF Changes, Fields
<1>2. Object(r) /\ Begun(r) /\ Stream(r)
  BY <1>1 DEF ReadsMarker, Reader, Reading, Object, Begun, Stream, StreamEnd
<1>3. Components(r) /\ Saving(r) /\ SameFrame(d, r) /\ Advances(d, r)
  BY <1>1 DEF ReadsMarker, Reader, Components, Saving, SameFrame, Advances
<1> QED
  BY <1>1, <1>2, <1>3 DEF ReadsMarker, Reader, Reading

LEMMA ProcessedReads ==
  ASSUME NEW d, NEW e, ReadsMarker(d, e), e.st \in {"ok", "susp", "error"}
  PROVE  ReadsMarker(d, Processed(e)) /\ Processed(e).st \in {"again", "susp", "error"}
<1>1. Processed(e) = IF e.st = "ok" THEN Taken(e, "again") ELSE e
  BY DEF Processed, Then, Taken
<1>2. ReadsMarker(d, Taken(e, "again")) /\ Taken(e, "again").st = "again"
  BY ReadsMarkerOutcome
<1> QED
  BY <1>1, <1>2

LEMMA ProcessorReads ==
  ASSUME NEW d, Reader(d)
  PROVE  ReadsMarker(d, Processor(d)) /\ Processor(d).st \in {"ok", "susp", "error"}
<1>1. CASE d.unread \in DOMAIN d.save
  <2> DEFINE e == SaveMarker(d)
  <2>1. Reads(d, e) /\ Saving(e) /\ Changes(d, e, {"st", "jfif", "adobe", "pos", "cur", "saved"})
    BY <1>1, SaveMarkerReads, SaveMarkerChanges DEF Reader
  <2> HIDE DEF e
  <2>2. e.comps = d.comps /\ e.sawSOF = d.sawSOF /\ e.image = d.image
    BY <2>1 DEF Changes, Reader, Reading, Object, Fields
  <2>3. Reading(e)
    BY <2>1, ChangesObject, AdvancesStream DEF Reader, Reading, Reads
  <2>4. ReadsMarker(d, e) /\ e.st \in {"ok", "susp", "error"}
    BY <2>1, <2>2, <2>3 DEF Reader, Reads, ReadsMarker, Components, SameFrame
  <2> QED
    BY <1>1, <2>4 DEF Processor, e
<1>2. ReadsMarker(d, GetInterestingAppn(d)) /\ GetInterestingAppn(d).st \in {"ok", "susp", "error"}
  <2>1. Reads(d, GetInterestingAppn(d))
    BY GetInterestingAppnReads DEF Reader
  <2> QED
    BY <2>1, GetInterestingAppnChanges, ReaderKept DEF Reads
<1>3. ReadsMarker(d, SkipVariable(d)) /\ SkipVariable(d).st \in {"ok", "susp", "error"}
  <2>1. Reads(d, SkipVariable(d))
    BY SkipVariableReads DEF Reader
  <2> QED
    BY <2>1, SkipVariableChanges, ReaderKept DEF Reads
<1> QED
  BY <1>1, <1>2, <1>3 DEF Processor

LEMMA ReadMarkersReads ==
  ASSUME NEW d, Reader(d)
  PROVE  LET e == ReadMarkers(d)
         IN /\ ReadsMarker(d, e) /\ e.st \in {"again", "sos", "eoi", "susp", "error"}
            /\ e.st = "sos" => e.sawSOF /\ ScanOfFrame(e)
            /\ e.st \in {"sos", "eoi"} => e.pos > 1
<1> DEFINE Good(e) == /\ ReadsMarker(d, e) /\ e.st \in {"again", "sos", "eoi", "susp", "error"}
                      /\ e.st = "sos" => e.sawSOF /\ ScanOfFrame(e)
                      /\ e.st \in {"sos", "eoi"} => e.pos > 1
<1>0. Reading(d)
  BY DEF Reader
<1>1. CASE d.unread = 0
  <2>1. \A m \in {NextMarker(d), FirstMarker(d)} : ReadsMarker(d, m) /\ m.st \in {"ok", "susp", "error"}
    <3>1. ReadsMarker(d, NextMarker(d)) /\ NextMarker(d).st \in {"ok", "susp", "error"}
      BY <1>0, NextMarkerReads, NextMarkerChanges, ReaderKept DEF Reads
    <3>2. ReadsMarker(d, FirstMarker(d)) /\ FirstMarker(d).st \in {"ok", "susp", "error"}
      BY <1>0, FirstMarkerReads, FirstMarkerChanges, ReaderKept DEF Reads
    <3> QED
      BY <3>1, <3>2
  <2>2. \A m \in {NextMarker(d), FirstMarker(d)} :
           Good(IF m.st = "ok" THEN Left(m, "again") ELSE m)
    BY <2>1, ReadsMarkerOutcome
  <2> HIDE DEF Good
  <2>3. Good(ReadMarkers(d))
    BY <1>1, <2>2 DEF ReadMarkers, Then, Left
  <2> QED
    BY <2>3 DEF Good
<1>2. CASE d.unread # 0
  <2>1. d.pos \in Nat /\ d.pos > 1
    BY <1>2 DEF Reader, Reading, Begun, Stream
  <2>2. ReadsMarker(d, d)
    BY DEF ReadsMarker, Reader, Reading, Advances, Stream, SameFrame
  <2>3. Good(Processed(GetSoi(d)))
    BY <1>0, GetSoiReads, GetSoiChanges, ReaderKept, ProcessedReads DEF Reads
  <2>4. Good(Processed(GetSof(d, d.unread = SOF2)))
    <3> DEFINE e == GetSof(d, d.unread = SOF2)
    <3>1. Reads(d, e) /\ Components(e) /\ SameFrame(d, e)
      BY <1>0, GetSofReads DEF Reader
    <3>2. Changes(d, e, {"st", "progressive", "comps", "sawSOF", "pos"})
      BY GetSofChanges
    <3> HIDE DEF e
    <3>3. e.cur = d.cur /\ e.image = d.image
      BY <3>2 DEF Changes, Reader, Reading, Object, Fields
    <3>4. Reading(e)
      BY <3>1, <3>2, ChangesObject, AdvancesStream DEF Reader, Reading, Reads
    <3>5. ReadsMarker(d, e) /\ e.st \in {"ok", "susp", "error"}
      BY <3>1, <3>3, <3>4 DEF Reader, Reads, ReadsMarker, Saving
    <3>6. Good(Processed(e))
      BY <3>5, ProcessedReads
    <3> QED
      BY <3>6 DEF e
  <2>5. Good(Then(GetSos(d), LAMBDA s : [s EXCEPT !.unread = 0, !.st = "sos"]))
    <3> DEFINE e == GetSos(d)
               r == Taken(e, "sos")
    <3>1. /\ Reads(d, e) /\ e.sawSOF = d.sawSOF /\ e.comps = d.comps
          /\ e.st = "ok" => d.sawSOF /\ ScanOfFrame(e)
      BY <1>0, GetSosReads DEF Reader
    <3>2. ReadsMarker(d, e)
      BY <3>1, GetSosChanges, ReaderKept
    <3> HIDE DEF e
    <3>3. /\ ReadsMarker(d, r) /\ r.st = "sos"
          /\ r.sawSOF = e.sawSOF /\ r.scan = e.scan /\ r.comps = e.comps
      BY <3>2, ReadsMarkerOutcome
    <3>4. r.pos > 1
      BY <2>1, <3>3 DEF ReadsMarker, Advances
    <3>5. Good(IF e.st = "ok" THEN r ELSE e)
      <4> HIDE DEF r
      <4> QED
        BY <3>1, <3>2, <3>3, <3>4 DEF ScanOfFrame, Reads
    <3> HIDE DEF Good
    <3> QED
      BY <3>5 DEF Then, Taken, e
  <2>6. Good(Taken(d, "eoi"))
    BY <2>1, <2>2, ReadsMarkerOutcome
  <2>7. Good(Processed(GetDht(d)))
    BY <1>0, GetDhtReads, GetDhtChanges, ReaderKept, ProcessedReads DEF Reads
  <2>8. Good(Processed(GetDqt(d)))
    BY <1>0, GetDqtReads, GetDqtChanges, ReaderKept, ProcessedReads DEF Reads
  <2>9. Good(Processed(GetDri(d)))
    BY <1>0, GetDriReads, GetDriChanges, ReaderKept, ProcessedReads DEF Reads
  <2>10. Good(Processed(Processor(d)))
    BY ProcessorReads, ProcessedReads
  <2>11. Good(Taken(d, "again"))
    BY <2>2, ReadsMarkerOutcome
  <2>12. Good(Fail(d))
    BY <1>0, OutcomeReads, OutcomeChanges, ReaderKept DEF Reads
  <2> HIDE DEF Good
  <2>13. Good(ReadMarkers(d))
    BY <1>2, <2>3, <2>4, <2>5, <2>6, <2>7, <2>8, <2>9, <2>10, <2>11, <2>12 DEF ReadMarkers, Taken
  <2> QED
    BY <2>13 DEF Good
<1> QED
  BY <1>1, <1>2

(***************************************************************************)
(* The loops of the decoders, one turn each: kind is the loop, a what its  *)
(* body uses besides the working state w and the item x of this turn.      *)
(***************************************************************************)

Body(kind, a, w, x) ==
  CASE kind = "fill"     -> FillTurn(w, x)
    [] kind = "blocks"   -> w \o [y \in 1 .. VSamp[a.scan[x][1]] |->
                                    <<x, a.scan[x][1], a.inputRow * VSamp[a.scan[x][1]] + y, a.ctr + 1>>]
    [] kind = "huff"     -> HuffBlock(w, x)
    [] kind = "dcfirst"  -> DcFirstBlock(w, x)
    [] kind = "dcrefine" -> DcRefineBlock(w, x)
    [] kind = "zero"     -> WithZero(w, x)
    [] kind = "correct"  -> IF x \in a.k .. a.stop - 1 /\ Coef(a.w, a.b, x) # 0
                            THEN Then(Then(w, GetBit), LAMBDA u : Corrected(u, a.b, x)) ELSE w
    [] kind = "refine"   -> RefineTurn(w, a)
    [] kind = "undo"     -> IF Coef(a.r, a.b, x) = 0 THEN WithCoef(w, a.b, x, 0) ELSE w

\* The recursion of MapThenFoldSet, as FoldLeft over list uses it, and what it has
\* made of base after each turn.
IsIteration(it, kind, a, list, n, base) ==
  it = [s \in SUBSET (1 .. n) |->
          IF s = {} THEN base ELSE Body(kind, a, it[s \ {Max(s)}], list[Max(s)])]

Turns(after, kind, a, list, n, base) ==
  /\ after[0] = base
  /\ \A i \in 1 .. n : after[i] = Body(kind, a, after[i - 1], list[i])

LEMMA IterationExists ==
  ASSUME NEW kind, NEW a, NEW list, NEW m \in Nat, NEW base
  PROVE  \E it : IsIteration(it, kind, a, list, m, base)
<1> DEFINE F(j, w) == Body(kind, a, w, list[j])
           Iterates(it, k) == it = [s \in SUBSET (1 .. k) |->
                                      IF s = {} THEN base ELSE F(Max(s), it[s \ {Max(s)}])]
           P == {k \in 0 .. m : \E it : Iterates(it, k)}
<1>0. \A it : Iterates(it, m) <=> IsIteration(it, kind, a, list, m, base)
  BY DEF IsIteration
<1> HIDE DEF F
<1>1. 0 \in P
  <2>1. SUBSET (1 .. 0) = {{}}
    OBVIOUS
  <2>2. Iterates([s \in {{}} |-> base], 0)
    BY <2>1
  <2> HIDE DEF Iterates
  <2>3. QED
    BY <2>2
<1>2. ASSUME NEW k \in 1 .. m, k - 1 \in P PROVE k \in P
  <2>1. PICK it : Iterates(it, k - 1)
    BY <1>2
  <2> DEFINE next == [s \in SUBSET (1 .. k) |-> IF k \in s THEN F(k, it[s \ {k}]) ELSE it[s]]
  <2>2. ASSUME NEW s \in SUBSET (1 .. k), k \in s
        PROVE  Max(s) = k /\ s \ {k} \in SUBSET (1 .. (k - 1))
    <3>1. k \in Nat /\ s \in SUBSET (0 .. k) /\ s # {}
      BY <2>2
    <3>2. Max(s) \in s /\ \A j \in s : j <= Max(s)
      BY <3>1, MaxMember
    <3>3. Max(s) = k
      <4>1. Max(s) \in 1 .. k /\ k <= Max(s)
        BY <2>2, <3>2
      <4>2. QED
        BY <4>1
    <3>4. \A j \in s \ {k} : j \in 1 .. (k - 1)
      OBVIOUS
    <3>5. QED
      BY <3>3, <3>4
  <2>3. ASSUME NEW s \in SUBSET (1 .. k), k \notin s
        PROVE  s \in SUBSET (1 .. (k - 1)) /\ (s # {} => Max(s) \in s)
    <3>1. k \in Nat /\ s \in SUBSET (0 .. k)
      OBVIOUS
    <3>2. s # {} => Max(s) \in s
      BY <3>1, MaxMember
    <3>3. \A j \in s : j \in 1 .. (k - 1)
      BY <2>3
    <3>4. QED
      BY <3>2, <3>3
  <2>4. ASSUME NEW s \in SUBSET (1 .. k)
        PROVE  next[s] = IF s = {} THEN base ELSE F(Max(s), next[s \ {Max(s)}])
    <3>1. CASE k \in s
      <4>1. next[s] = F(k, it[s \ {k}])
        BY <3>1
      <4>2. next[s \ {k}] = it[s \ {k}]
        BY <3>1, <2>2
      <4>3. QED
        BY <3>1, <4>1, <4>2, <2>2
    <3>2. CASE k \notin s
      <4>1. next[s] = it[s]
        BY <3>2
      <4>2. s # {} => next[s \ {Max(s)}] = it[s \ {Max(s)}]
        BY <3>2, <2>3
      <4>3. it[s] = IF s = {} THEN base ELSE F(Max(s), it[s \ {Max(s)}])
        BY <2>1, <2>3, <3>2
      <4>4. QED
        BY <4>1, <4>2, <4>3
    <3>3. QED
      BY <3>1, <3>2
  <2>5. DOMAIN next = SUBSET (1 .. k) /\ next = [s \in SUBSET (1 .. k) |-> next[s]]
    OBVIOUS
  <2> HIDE DEF next
  <2>6. Iterates(next, k)
    BY <2>4, <2>5
  <2>7. QED
    <3> HIDE DEF Iterates
    <3>1. QED
      BY <2>6
<1>3. m \in P
  <2> HIDE DEF P
  <2>1. \A i \in 0 .. m : i \in P
    BY <1>1, <1>2, LoopInduction
  <2>2. QED
    BY <2>1
<1> HIDE DEF Iterates
<1>4. QED
  BY <1>0, <1>3

LEMMA IterationTurns ==
  ASSUME NEW kind, NEW a, NEW list, NEW m \in Nat, NEW base, NEW iteration,
         IsIteration(iteration, kind, a, list, m, base)
  PROVE  \E after : Turns(after, kind, a, list, m, base) /\ after[m] = iteration[1 .. m]
<1> DEFINE after == [j \in 0 .. m |-> iteration[1 .. j]]
<1>1. after[0] = base
  <2>1. 1 .. 0 = {} /\ {} \in SUBSET (1 .. m)
    OBVIOUS
  <2>2. iteration[{}] = base
    BY <2>1 DEF IsIteration
  <2> QED
    BY <2>1, <2>2
<1>2. ASSUME NEW j \in 1 .. m PROVE after[j] = Body(kind, a, after[j - 1], list[j])
  <2>1. 1 .. j \in SUBSET (1 .. m) /\ j - 1 \in 0 .. m /\ j \in 0 .. m
    OBVIOUS
  <2>2. Max(1 .. j) = j /\ (1 .. j) \ {j} = 1 .. (j - 1) /\ 1 .. j # {}
    BY LastOfFirst
  <2>3. iteration[1 .. j] = Body(kind, a, iteration[1 .. (j - 1)], list[j])
    BY <2>1, <2>2 DEF IsIteration
  <2> QED
    BY <2>1, <2>3
<1>3. after[m] = iteration[1 .. m]
  OBVIOUS
<1> HIDE DEF after
<1> QED
  BY <1>1, <1>2, <1>3 DEF Turns

(***************************************************************************)
(* Decoding an MCU reads on, and what is in the bit buffer never exceeds   *)
(* its size.                                                               *)
(***************************************************************************)

Buffer(w) == w.buf \in Seq(Nat) /\ Len(w.buf) <= Depth

Working(w) == Object(w) /\ Stream(w) /\ Buffer(w)

\* The working state e that comes of w, with the same arrays.
Works(w, e) == Working(e) /\ Advances(w, e) /\ DOMAIN e.coefs = DOMAIN w.coefs

LEMMA WorksAfter ==
  ASSUME NEW w, NEW e, NEW r, Working(w), Works(w, e), Works(e, r)
  PROVE  Works(w, r)
<1>1. Advances(w, r)
  BY AdvancesAfter DEF Working, Works
<1> QED
  BY <1>1 DEF Works

LEMMA WorksSame ==
  ASSUME NEW w, NEW e, NEW F, Working(w), Changes(w, e, F),
         F \cap {"words", "pos", "loaded", "save", "buf", "coefs"} = {}
  PROVE  Works(w, e)
<1>1. /\ e.words = w.words /\ e.pos = w.pos /\ e.loaded = w.loaded /\ e.save = w.save
      /\ e.buf = w.buf /\ e.coefs = w.coefs /\ DOMAIN e = DOMAIN w
  BY DEF Changes, Working, Object, Fields
<1>2. w.pos \in Nat
  BY DEF Working, Stream
<1>3. Advances(w, e)
  BY <1>1, <1>2 DEF Advances
<1> QED
  BY <1>1, <1>3, AdvancesStream DEF Works, Working, Object, Buffer

LEMMA FillByteWorks ==
  ASSUME NEW w, Working(w), Len(w.buf) < Depth, w.st = "ok"
  PROVE  LET e == FillByte(w)
         IN /\ Works(w, e)
            /\ e.st \in {"ok", "susp"}
            /\ e.st = "ok" => e.unread # 0 \/ (e.unread = w.unread /\ Len(e.buf) = Len(w.buf) + 1)
<1> DEFINE nonFF   == {p \in w.pos .. w.loaded : WordAt(w, p) # FF}
           at      == Min(nonFF)
           Loaded(x) == [w EXCEPT !.buf = Append(@, x), !.pos = at + 1]
           mark    == [w EXCEPT !.unread = WordAt(w, at), !.pos = at + 1]
           e       == FillByte(w)
<1>0. w.pos \in Nat \ {0} /\ w.loaded \in Nat /\ DOMAIN w = Fields /\ w.buf \in Seq(Nat) /\ Depth \in Nat
  BY GeometryAssumption DEF Working, Object, Stream, StreamEnd, Buffer
<1>1. nonFF # {} => at \in Nat \ {0} /\ w.pos <= at
  <2>1. nonFF \in SUBSET Nat /\ \A p \in nonFF : p \in Nat \ {0} /\ w.pos <= p
    BY <1>0
  <2> HIDE DEF nonFF
  <2>2. nonFF # {} => at \in nonFF
    BY <2>1, MinMember
  <2> QED
    BY <1>0, <2>1, <2>2
<1>2. e = IF nonFF = {} THEN Suspend(w)
          ELSE IF at = w.pos THEN Loaded(WordAt(w, at))
          ELSE IF WordAt(w, at) = 0 THEN Loaded(FF) ELSE mark
  BY DEF FillByte
<1> HIDE DEF nonFF, at
<1>3. Works(w, Suspend(w)) /\ Suspend(w).st = "susp"
  BY <1>0, OutcomeChanges, WorksSame DEF Suspend, Fields
<1>4. ASSUME nonFF # {}, NEW x \in Nat
      PROVE  Works(w, Loaded(x)) /\ Loaded(x).st = "ok" /\ Loaded(x).unread = w.unread
             /\ Len(Loaded(x).buf) = Len(w.buf) + 1
  <2> DEFINE r == Loaded(x)
  <2>1. Changes(w, r, {"buf", "pos"}) /\ r.buf = Append(w.buf, x) /\ r.pos = at + 1
    BY <1>0 DEF Changes, Fields
  <2> HIDE DEF r
  <2>2. r.buf \in Seq(Nat) /\ Len(r.buf) = Len(w.buf) + 1
    BY <1>0, <2>1
  <2>3. Advances(w, r)
    <3>1. r.pos \in Nat /\ w.pos <= r.pos
      BY <1>0, <1>1, <1>4, <2>1
    <3> QED
      BY <2>1, <3>1, ChangesAdvance DEF Working
  <2>4. r.st = "ok" /\ r.unread = w.unread /\ r.coefs = w.coefs /\ DOMAIN r = Fields
    BY <1>0, <2>1 DEF Changes, Fields
  <2>5. Working(r)
    BY <1>0, <2>2, <2>3, <2>4, AdvancesStream DEF Working, Object, Buffer
  <2>6. Works(w, r)
    BY <2>3, <2>4, <2>5 DEF Works
  <2> QED
    BY <2>2, <2>4, <2>6 DEF r
<1>5. ASSUME nonFF # {} PROVE Works(w, mark) /\ mark.st = "ok" /\ mark.unread = WordAt(w, at)
  <2>1. Changes(w, mark, {"unread", "pos"}) /\ mark.unread = WordAt(w, at) /\ mark.pos = at + 1
    BY <1>0 DEF Changes, Fields
  <2> HIDE DEF mark
  <2>2. Advances(w, mark)
    BY <1>0, <1>1, <1>5, <2>1, ChangesAdvance DEF Working
  <2>3. mark.st = "ok" /\ mark.buf = w.buf /\ mark.coefs = w.coefs /\ DOMAIN mark = Fields
    BY <1>0, <2>1 DEF Changes, Fields
  <2>4. Working(mark)
    BY <2>2, <2>3, AdvancesStream DEF Working, Object, Buffer
  <2> QED
    BY <2>1, <2>2, <2>3, <2>4 DEF Works
<1>6. nonFF # {} => WordAt(w, at) \in Nat
  BY <1>1, WordAtNat DEF Working
<1>7. FF \in Nat
  BY DEF FF
<1>8. CASE nonFF = {}
  BY <1>2, <1>3, <1>8
<1>9. CASE nonFF # {}
  <2> HIDE DEF Loaded, mark
  <2>1. e \in {Loaded(WordAt(w, at)), Loaded(FF)} \/ (e = mark /\ WordAt(w, at) # 0)
    BY <1>2, <1>9
  <2> HIDE DEF e
  <2> QED
    BY <1>4, <1>5, <1>6, <1>7, <1>9, <2>1 DEF e
<1> QED
  BY <1>8, <1>9

LEMMA FillTurns ==
  ASSUME NEW w
  PROVE  \E after : /\ Turns(after, "fill", {}, [i \in 1 .. Depth |-> i], Depth, Ok(w))
                    /\ FillBitBuffer(w) = Then(after[Depth], LAMBDA f : IF f.unread # 0 THEN NoMoreBytes(f) ELSE f)
<1> DEFINE list == [i \in 1 .. Depth |-> i]
           Folds(it) == it = [s \in SUBSET (1 .. Depth) |->
                                IF s = {} THEN Ok(w) ELSE FillTurn(it[s \ {Max(s)}], list[Max(s)])]
           iter == CHOOSE it : Folds(it)
<1>0. Depth \in Nat /\ DOMAIN list = 1 .. Depth
  BY GeometryAssumption
<1>1. FillBitBuffer(w) = Then(iter[1 .. Depth], LAMBDA f : IF f.unread # 0 THEN NoMoreBytes(f) ELSE f)
  <2>1. FoldLeft(FillTurn, Ok(w), list) = iter[1 .. Depth]
    BY <1>0 DEF FoldLeft, MapThenFoldSet
  <2> HIDE DEF iter
  <2> QED
    BY <2>1 DEF FillBitBuffer
<1> HIDE DEF list
<1>2. \A x, i : Body("fill", {}, x, i) = FillTurn(x, i)
  BY DEF Body
<1>3. \A it : Folds(it) <=> IsIteration(it, "fill", {}, list, Depth, Ok(w))
  BY <1>2 DEF IsIteration
<1> HIDE DEF Folds
<1>4. IsIteration(iter, "fill", {}, list, Depth, Ok(w))
  BY <1>0, <1>3, IterationExists
<1> HIDE DEF iter
<1>5. PICK after : /\ Turns(after, "fill", {}, list, Depth, Ok(w))
                   /\ after[Depth] = iter[1 .. Depth]
  BY <1>0, <1>4, IterationTurns
<1>6. FillBitBuffer(w) = Then(after[Depth], LAMBDA f : IF f.unread # 0 THEN NoMoreBytes(f) ELSE f)
  BY <1>1, <1>5 DEF Then
<1> QED
  BY <1>5, <1>6 DEF list

LEMMA FillBitBufferWorks ==
  ASSUME NEW w, Working(w)
  PROVE  LET e == FillBitBuffer(w)
         IN Works(w, e) /\ e.st \in {"ok", "susp"} /\ (e.st = "ok" => e.buf # <<>>)
<1> DEFINE list == [i \in 1 .. Depth |-> i]
           Filled(e) == e.st = "ok" => e.buf # <<>>
<1>0. Depth \in Nat \ {0}
  BY GeometryAssumption
<1>1. PICK after : /\ Turns(after, "fill", {}, list, Depth, Ok(w))
                   /\ FillBitBuffer(w) = Then(after[Depth], LAMBDA f : IF f.unread # 0 THEN NoMoreBytes(f) ELSE f)
  BY FillTurns
<1> DEFINE Good(i) == /\ Works(w, after[i]) /\ after[i].st \in {"ok", "susp"}
                      /\ after[i].st = "ok" => after[i].unread # 0 \/ Len(after[i].buf) >= i
           P == {i \in 0 .. Depth : Good(i)}
<1>2. 0 \in P
  <2>1. Works(w, Ok(w)) /\ Ok(w).st = "ok"
    BY OutcomeChanges, WorksSame DEF Ok, Working, Object, Fields
  <2>2. Len(Ok(w).buf) >= 0
    BY <2>1 DEF Works, Working, Buffer
  <2>3. after[0] = Ok(w)
    BY <1>1 DEF Turns
  <2>4. Good(0)
    BY <2>1, <2>2, <2>3
  <2> HIDE DEF Good
  <2> QED
    BY <1>0, <2>4
<1>3. ASSUME NEW i \in 1 .. Depth, i - 1 \in P PROVE i \in P
  <2> DEFINE x == after[i - 1]
             y == after[i]
  <2>1. y = FillTurn(x, list[i])
    <3>1. y = Body("fill", {}, x, list[i])
      BY <1>1 DEF Turns
    <3> QED
      BY <3>1 DEF Body
  <2>2. Works(w, x) /\ x.st \in {"ok", "susp"} /\ (x.st = "ok" => x.unread # 0 \/ Len(x.buf) >= i - 1)
    BY <1>3
  <2>3. Len(x.buf) \in Nat /\ i \in Nat /\ i <= Depth
    BY <2>2, <1>0 DEF Works, Working, Buffer
  <2>4. CASE x.st = "ok" /\ x.unread = 0 /\ Len(x.buf) < Depth
    <3> DEFINE e == FillByte(x)
    <3>1. y = e
      BY <2>1, <2>4 DEF FillTurn
    <3>2. /\ Works(x, e) /\ e.st \in {"ok", "susp"}
          /\ e.st = "ok" => e.unread # 0 \/ (e.unread = x.unread /\ Len(e.buf) = Len(x.buf) + 1)
      BY <2>2, <2>4, FillByteWorks DEF Works
    <3> HIDE DEF e, x, y
    <3>3. Works(w, e)
      BY <2>2, <3>2, WorksAfter
    <3>4. e.st = "ok" => e.unread # 0 \/ Len(e.buf) >= i
      BY <2>2, <2>3, <2>4, <3>2
    <3> QED
      BY <3>1, <3>2, <3>3, <3>4 DEF y
  <2>5. CASE ~(x.st = "ok" /\ x.unread = 0 /\ Len(x.buf) < Depth)
    <3>1. y = x
      BY <2>1, <2>5 DEF FillTurn
    <3>2. x.st = "ok" => x.unread # 0 \/ Len(x.buf) >= i
      BY <2>2, <2>3, <2>5, <1>0
    <3> HIDE DEF x
    <3> QED
      BY <2>2, <3>1, <3>2
  <2> QED
    BY <2>4, <2>5
<1>4. Good(Depth)
  <2> HIDE DEF Good
  <2>1. \A i \in 0 .. Depth : i \in P
    <3> HIDE DEF P
    <3> QED
      BY <1>0, <1>2, <1>3, LoopInduction
  <2> QED
    BY <1>0, <2>1
<1> DEFINE f == after[Depth]
           e == FillBitBuffer(w)
<1>5. /\ Works(w, f) /\ f.st \in {"ok", "susp"}
      /\ f.st = "ok" => f.unread # 0 \/ Len(f.buf) >= Depth
  BY <1>4
<1> HIDE DEF f, Good, P
<1>6. e = IF f.st = "ok" THEN IF f.unread # 0 THEN NoMoreBytes(f) ELSE f ELSE f
  BY <1>1 DEF Then, f
<1>7. f.st = "ok" /\ f.unread = 0 => f.buf # <<>>
  BY <1>0, <1>5
<1>8. Works(f, NoMoreBytes(f)) /\ NoMoreBytes(f).st = "ok" /\ NoMoreBytes(f).buf # <<>>
  <2>0. DOMAIN f = Fields /\ f.pos \in Nat /\ Working(f)
    BY <1>5 DEF Works, Working, Object, Stream
  <2>1. CASE f.buf # <<>>
    <3>1. Works(f, Ok(f)) /\ Ok(f).st = "ok" /\ Ok(f).buf = f.buf
      BY <2>0, OutcomeChanges, WorksSame DEF Ok, Fields
    <3> QED
      BY <2>1, <3>1 DEF NoMoreBytes
  <2>2. CASE f.buf = <<>>
    <3> DEFINE zeros == [i \in 1 .. Depth |-> 0]
               r == Ok([f EXCEPT !.insufficient = TRUE, !.buf = zeros])
    <3>1. zeros \in Seq(Nat) /\ Len(zeros) = Depth /\ zeros # <<>>
      BY <1>0
    <3> HIDE DEF zeros
    <3>2. Changes(f, r, {"st", "insufficient", "buf"}) /\ r.st = "ok" /\ r.buf = zeros
      BY <2>0 DEF Ok, Changes, Fields
    <3>3. NoMoreBytes(f) = r
      BY <2>2 DEF NoMoreBytes, zeros
    <3> HIDE DEF r
    <3>4. r.pos = f.pos /\ r.coefs = f.coefs /\ DOMAIN r = Fields
      BY <2>0, <3>2 DEF Changes, Fields
    <3>5. Advances(f, r)
      BY <2>0, <3>2, <3>4, ChangesAdvance DEF Object
    <3>6. Working(r)
      BY <1>0, <2>0, <3>1, <3>2, <3>4, <3>5, AdvancesStream DEF Working, Object, Buffer
    <3> QED
      BY <3>1, <3>2, <3>3, <3>4, <3>5, <3>6 DEF Works
  <2> QED
    BY <2>1, <2>2
<1>9. Works(w, NoMoreBytes(f))
  BY <1>5, <1>8, WorksAfter
<1> HIDE DEF e
<1> QED
  BY <1>5, <1>6, <1>7, <1>8, <1>9 DEF e

LEMMA CheckBitBufferWorks ==
  ASSUME NEW w, Working(w)
  PROVE  LET e == CheckBitBuffer(w)
         IN Works(w, e) /\ e.st \in {"ok", "susp"} /\ (e.st = "ok" => e.buf # <<>>)
<1>1. Works(w, Ok(w)) /\ Ok(w).st = "ok" /\ Ok(w).buf = w.buf
  BY OutcomeChanges, WorksSame DEF Ok, Working, Object, Fields
<1> QED
  BY <1>1, FillBitBufferWorks DEF CheckBitBuffer

\* Both read one word from the buffer.
LEMMA ReadBitWorks ==
  ASSUME NEW w, Working(w), w.buf # <<>>, NEW val
  PROVE  Works(w, [w EXCEPT !.buf = Tail(@), !.val = val])
<1> DEFINE e == [w EXCEPT !.buf = Tail(@), !.val = val]
<1>1. Changes(w, e, {"buf", "val"}) /\ e.buf = Tail(w.buf)
  BY DEF Changes, Working, Object, Fields
<1> HIDE DEF e
<1>2. e.pos = w.pos /\ e.coefs = w.coefs /\ DOMAIN e = Fields /\ w.pos \in Nat
  BY <1>1 DEF Changes, Working, Object, Fields, Stream
<1>3. e.buf \in Seq(Nat) /\ Len(e.buf) <= Len(w.buf)
  BY <1>1 DEF Working, Buffer
<1>4. Len(e.buf) <= Depth
  BY <1>3, GeometryAssumption DEF Working, Buffer
<1>5. Advances(w, e)
  BY <1>1, <1>2, ChangesAdvance DEF Working
<1>6. Working(e)
  BY <1>2, <1>3, <1>4, <1>5, AdvancesStream DEF Working, Object, Buffer
<1> QED
  BY <1>2, <1>5, <1>6 DEF Works, e

LEMMA HuffDecodeWorks ==
  ASSUME NEW w, Working(w), NEW k
  PROVE  Works(w, HuffDecode(w, k))
<1> DEFINE f == CheckBitBuffer(w)
           Read(val) == [f EXCEPT !.buf = Tail(@), !.val = val]
           val == IF Head(f.buf) = 0 THEN 0 ELSE Head(f.buf) - f.derived[k]
<1>1. Works(w, f) /\ (f.st = "ok" => f.buf # <<>>)
  BY CheckBitBufferWorks
<1>2. HuffDecode(w, k) = IF f.st = "ok" THEN Read(val) ELSE f
  BY DEF HuffDecode, Then
<1> HIDE DEF f, val
<1>3. f.st = "ok" => Works(f, Read(val))
  BY <1>1, ReadBitWorks DEF Works
<1> HIDE DEF Read
<1> QED
  BY <1>1, <1>2, <1>3, WorksAfter

LEMMA GetBitWorks ==
  ASSUME NEW w, Working(w)
  PROVE  Works(w, GetBit(w))
<1> DEFINE f == CheckBitBuffer(w)
           Read(val) == [f EXCEPT !.buf = Tail(@), !.val = val]
           val == Head(f.buf)
<1>1. Works(w, f) /\ (f.st = "ok" => f.buf # <<>>)
  BY CheckBitBufferWorks
<1>2. GetBit(w) = IF f.st = "ok" THEN Read(val) ELSE f
  BY DEF GetBit, Then
<1> HIDE DEF f, val
<1>3. f.st = "ok" => Works(f, Read(val))
  BY <1>1, ReadBitWorks DEF Works
<1> HIDE DEF Read
<1> QED
  BY <1>1, <1>2, <1>3, WorksAfter

LEMMA WorksArrays ==
  ASSUME NEW w, NEW e, NEW F, Working(w), Changes(w, e, F), DOMAIN e.coefs = DOMAIN w.coefs,
         F \cap {"words", "pos", "loaded", "save", "buf"} = {}
  PROVE  Works(w, e)
<1>1. /\ e.words = w.words /\ e.pos = w.pos /\ e.loaded = w.loaded /\ e.save = w.save
      /\ e.buf = w.buf /\ DOMAIN e = DOMAIN w
  BY DEF Changes, Working, Object, Fields
<1>2. w.pos \in Nat
  BY DEF Working, Stream
<1>3. Advances(w, e)
  BY <1>1, <1>2 DEF Advances
<1> QED
  BY <1>1, <1>3, AdvancesStream DEF Works, Working, Object, Buffer

LEMMA WorksRefl ==
  ASSUME NEW w, Working(w)
  PROVE  Works(w, w)
BY DEF Works, Working, Advances, Stream

LEMMA DecodeDcWorks ==
  ASSUME NEW w, Working(w), NEW b, NEW al
  PROVE  Works(w, DecodeDc(w, b, al))
<1> DEFINE d == HuffDecode(w, b[1])
<1>1. Works(w, d)
  BY HuffDecodeWorks
<1> HIDE DEF d
<1>2. ASSUME NEW x, NEW y
      PROVE  Works(d, [d EXCEPT !.lastDc[b[1]] = x, !.coefs[b[2]][b[3]][b[4]][1] = y])
  <2> DEFINE e == [d EXCEPT !.lastDc[b[1]] = x, !.coefs[b[2]][b[3]][b[4]][1] = y]
  <2>1. Changes(d, e, {"lastDc", "coefs"})
    BY DEF Changes
  <2>2. DOMAIN e.coefs = DOMAIN d.coefs
    BY <1>1 DEF Works, Working, Object, Fields
  <2> HIDE DEF e
  <2>3. Works(d, e)
    BY <1>1, <2>1, <2>2, WorksArrays DEF Works
  <2> QED
    BY <2>3 DEF e
<1> DEFINE e == [d EXCEPT !.lastDc[b[1]] = @ + d.val,
                          !.coefs[b[2]][b[3]][b[4]][1] = (d.lastDc[b[1]] + d.val) * 2^al]
<1>3. DecodeDc(w, b, al) = IF d.st = "ok" THEN e ELSE d
  BY DEF DecodeDc, Then, d
<1>4. Works(d, e)
  BY <1>2
<1> HIDE DEF e
<1> QED
  BY <1>1, <1>3, <1>4, WorksAfter

LEMMA WithAcWorks ==
  ASSUME NEW d, Working(d), NEW b, NEW y
  PROVE  Works(d, [d EXCEPT !.coefs[b[2]][b[3]][b[4]][2] = y])
<1> DEFINE e == [d EXCEPT !.coefs[b[2]][b[3]][b[4]][2] = y]
<1>1. Changes(d, e, {"coefs"})
  BY DEF Changes
<1>2. DOMAIN e.coefs = DOMAIN d.coefs
  BY DEF Working, Object, Fields
<1> HIDE DEF e
<1>3. Works(d, e)
  BY <1>1, <1>2, WorksArrays
<1> QED
  BY <1>3 DEF e

LEMMA DecodeAcWorks ==
  ASSUME NEW w, Working(w), NEW b
  PROVE  Works(w, DecodeAc(w, b))
<1> DEFINE d == HuffDecode(w, b[1])
           e == [d EXCEPT !.coefs[b[2]][b[3]][b[4]][2] = d.val]
<1>1. Works(w, d)
  BY HuffDecodeWorks
<1>2. DecodeAc(w, b) = IF d.st = "ok" THEN e ELSE d
  BY DEF DecodeAc, Then
<1> HIDE DEF d
<1>3. Works(d, e)
  BY <1>1, WithAcWorks DEF Works
<1> HIDE DEF e
<1> QED
  BY <1>1, <1>2, <1>3, WorksAfter

LEMMA HuffBlockWorks ==
  ASSUME NEW w, Working(w), NEW b
  PROVE  Works(w, HuffBlock(w, b))
<1> DEFINE dc == IF w.st = "ok" THEN DecodeDc(w, b, 0) ELSE w
<1>1. HuffBlock(w, b) = IF dc.st = "ok" THEN DecodeAc(dc, b) ELSE dc
  BY DEF HuffBlock, Then
<1>2. Works(w, dc)
  BY DecodeDcWorks, WorksRefl
<1> HIDE DEF dc
<1>3. Works(dc, DecodeAc(dc, b))
  BY <1>2, DecodeAcWorks DEF Works
<1> QED
  BY <1>1, <1>2, <1>3, WorksAfter

LEMMA DcFirstBlockWorks ==
  ASSUME NEW w, Working(w), NEW b
  PROVE  Works(w, DcFirstBlock(w, b))
BY DecodeDcWorks, WorksRefl DEF DcFirstBlock, Then

LEMMA DcRefineBlockWorks ==
  ASSUME NEW w, Working(w), NEW b
  PROVE  Works(w, DcRefineBlock(w, b))
<1> DEFINE d == IF w.st = "ok" THEN GetBit(w) ELSE w
           With(y) == [d EXCEPT !.coefs[b[2]][b[3]][b[4]][1] = y]
           e == [d EXCEPT !.coefs[b[2]][b[3]][b[4]][1] = SetBit(@, d.Al)]
<1>1. DcRefineBlock(w, b) = IF d.st = "ok" THEN IF d.val = 0 THEN d ELSE e ELSE d
  BY DEF DcRefineBlock, Then
<1>2. Works(w, d)
  BY GetBitWorks, WorksRefl
<1> HIDE DEF d
<1>3. Works(d, e)
  <2>1. Changes(d, e, {"coefs"})
    BY DEF Changes
  <2>2. DOMAIN e.coefs = DOMAIN d.coefs
    BY <1>2 DEF Works, Working, Object, Fields
  <2> HIDE DEF e
  <2> QED
    BY <1>2, <2>1, <2>2, WorksArrays DEF Works
<1> HIDE DEF e
<1> QED
  BY <1>1, <1>2, <1>3, WorksAfter

\* A loop of such turns.
LEMMA TurnsWork ==
  ASSUME NEW kind, NEW a, NEW list, NEW m \in Nat, NEW base, NEW after,
         Turns(after, kind, a, list, m, base), Working(base),
         \A w, y : Working(w) => Works(w, Body(kind, a, w, y))
  PROVE  Works(base, after[m])
<1> DEFINE P == {j \in 0 .. m : Works(base, after[j])}
<1>1. 0 \in P
  BY WorksRefl DEF Turns
<1>2. ASSUME NEW j \in 1 .. m, j - 1 \in P PROVE j \in P
  <2>1. Works(base, after[j - 1])
    BY <1>2
  <2>2. Works(after[j - 1], after[j])
    BY <2>1 DEF Turns, Works
  <2> QED
    BY <2>1, <2>2, WorksAfter
<1> HIDE DEF P
<1>3. \A j \in 0 .. m : j \in P
  BY <1>1, <1>2, LoopInduction
<1> QED
  BY <1>3 DEF P

LEMMA HuffLoopWorks ==
  ASSUME NEW r, Working(r), NEW list, NEW m \in Nat, DOMAIN list = 1 .. m
  PROVE  Works(r, FoldLeft(HuffBlock, r, list))
<1> DEFINE Folds(it) == it = [s \in SUBSET (1 .. m) |->
                                IF s = {} THEN r ELSE HuffBlock(it[s \ {Max(s)}], list[Max(s)])]
           iter == CHOOSE it : Folds(it)
<1>1. FoldLeft(HuffBlock, r, list) = iter[1 .. m]
  BY DEF FoldLeft, MapThenFoldSet
<1>2. \A w, b : Body("huff", {}, w, b) = HuffBlock(w, b)
  BY DEF Body
<1>3. \A it : Folds(it) <=> IsIteration(it, "huff", {}, list, m, r)
  BY <1>2 DEF IsIteration
<1> HIDE DEF Folds
<1>4. IsIteration(iter, "huff", {}, list, m, r)
  BY <1>3, IterationExists
<1> HIDE DEF iter
<1>5. PICK after : Turns(after, "huff", {}, list, m, r) /\ after[m] = iter[1 .. m]
  BY <1>4, IterationTurns
<1>6. \A w, b : Working(w) => Works(w, Body("huff", {}, w, b))
  BY <1>2, HuffBlockWorks
<1>7. Works(r, after[m])
  BY <1>5, <1>6, TurnsWork
<1> QED
  BY <1>1, <1>5, <1>7

LEMMA DcFirstLoopWorks ==
  ASSUME NEW r, Working(r), NEW list, NEW m \in Nat, DOMAIN list = 1 .. m
  PROVE  Works(r, FoldLeft(DcFirstBlock, r, list))
<1> DEFINE Folds(it) == it = [s \in SUBSET (1 .. m) |->
                                IF s = {} THEN r ELSE DcFirstBlock(it[s \ {Max(s)}], list[Max(s)])]
           iter == CHOOSE it : Folds(it)
<1>1. FoldLeft(DcFirstBlock, r, list) = iter[1 .. m]
  BY DEF FoldLeft, MapThenFoldSet
<1>2. \A w, b : Body("dcfirst", {}, w, b) = DcFirstBlock(w, b)
  BY DEF Body
<1>3. \A it : Folds(it) <=> IsIteration(it, "dcfirst", {}, list, m, r)
  BY <1>2 DEF IsIteration
<1> HIDE DEF Folds
<1>4. IsIteration(iter, "dcfirst", {}, list, m, r)
  BY <1>3, IterationExists
<1> HIDE DEF iter
<1>5. PICK after : Turns(after, "dcfirst", {}, list, m, r) /\ after[m] = iter[1 .. m]
  BY <1>4, IterationTurns
<1>6. \A w, b : Working(w) => Works(w, Body("dcfirst", {}, w, b))
  BY <1>2, DcFirstBlockWorks
<1>7. Works(r, after[m])
  BY <1>5, <1>6, TurnsWork
<1> QED
  BY <1>1, <1>5, <1>7

LEMMA DcRefineLoopWorks ==
  ASSUME NEW r, Working(r), NEW list, NEW m \in Nat, DOMAIN list = 1 .. m
  PROVE  Works(r, FoldLeft(DcRefineBlock, r, list))
<1> DEFINE Folds(it) == it = [s \in SUBSET (1 .. m) |->
                                IF s = {} THEN r ELSE DcRefineBlock(it[s \ {Max(s)}], list[Max(s)])]
           iter == CHOOSE it : Folds(it)
<1>1. FoldLeft(DcRefineBlock, r, list) = iter[1 .. m]
  BY DEF FoldLeft, MapThenFoldSet
<1>2. \A w, b : Body("dcrefine", {}, w, b) = DcRefineBlock(w, b)
  BY DEF Body
<1>3. \A it : Folds(it) <=> IsIteration(it, "dcrefine", {}, list, m, r)
  BY <1>2 DEF IsIteration
<1> HIDE DEF Folds
<1>4. IsIteration(iter, "dcrefine", {}, list, m, r)
  BY <1>3, IterationExists
<1> HIDE DEF iter
<1>5. PICK after : Turns(after, "dcrefine", {}, list, m, r) /\ after[m] = iter[1 .. m]
  BY <1>4, IterationTurns
<1>6. \A w, b : Working(w) => Works(w, Body("dcrefine", {}, w, b))
  BY <1>2, DcRefineBlockWorks
<1>7. Works(r, after[m])
  BY <1>5, <1>6, TurnsWork
<1> QED
  BY <1>1, <1>5, <1>7

LEMMA WithCoefWorks ==
  ASSUME NEW w, Working(w), NEW b, NEW k, NEW v
  PROVE  Works(w, WithCoef(w, b, k, v))
<1> DEFINE y == w.coefs[b[2]][b[3]][b[4]][2] + (v - Coef(w, b, k)) * Place(k)
<1>1. WithCoef(w, b, k, v) = [w EXCEPT !.coefs[b[2]][b[3]][b[4]][2] = y]
  BY DEF WithCoef, Working, Object, Fields
<1>2. Works(w, [w EXCEPT !.coefs[b[2]][b[3]][b[4]][2] = y])
  BY WithAcWorks
<1> QED
  BY <1>1, <1>2

\* The loop of Advance.
CorrectLoop(w, b, k, stop) ==
  LET Correct(d, j) == IF j \in k .. stop - 1 /\ Coef(w, b, j) # 0
                       THEN Then(Then(d, GetBit), LAMBDA u : Corrected(u, b, j)) ELSE d
  IN FoldLeft(Correct, w, [j \in 1 .. BandEnd |-> j])

LEMMA CorrectLoopWorks ==
  ASSUME NEW w, Working(w), NEW b, NEW k, NEW stop
  PROVE  Works(w, CorrectLoop(w, b, k, stop))
<1> DEFINE a == [w |-> w, b |-> b, k |-> k, stop |-> stop]
           list == [j \in 1 .. BandEnd |-> j]
           Correct(d, j) == IF j \in k .. stop - 1 /\ Coef(w, b, j) # 0
                            THEN Then(Then(d, GetBit), LAMBDA u : Corrected(u, b, j)) ELSE d
           Folds(it) == it = [s \in SUBSET (1 .. BandEnd) |->
                                IF s = {} THEN w ELSE Correct(it[s \ {Max(s)}], list[Max(s)])]
           iter == CHOOSE it : Folds(it)
<1>0. BandEnd \in Nat /\ DOMAIN list = 1 .. BandEnd
  BY DEF BandEnd
<1>1. FoldLeft(Correct, w, list) = iter[1 .. BandEnd]
  BY <1>0 DEF FoldLeft, MapThenFoldSet
<1> HIDE DEF list
<1>2. \A d, j : Body("correct", a, d, j) = Correct(d, j)
  BY DEF Body
<1> HIDE DEF a
<1>3. \A d, j : Working(d) => Works(d, Correct(d, j))
  <2> SUFFICES ASSUME NEW d, NEW j, Working(d) PROVE Works(d, Correct(d, j))
    BY <1>0
  <2> DEFINE g == IF d.st = "ok" THEN GetBit(d) ELSE d
  <2>1. Works(d, g)
    BY GetBitWorks, WorksRefl
  <2>2. Correct(d, j) \in {d, g, WithCoef(g, b, j, SetBit(Coef(g, b, j), g.Al))}
    BY DEF Then, Corrected
  <2> HIDE DEF g, Correct
  <2>3. Works(g, WithCoef(g, b, j, SetBit(Coef(g, b, j), g.Al)))
    BY <2>1, WithCoefWorks DEF Works
  <2>4. Works(d, WithCoef(g, b, j, SetBit(Coef(g, b, j), g.Al)))
    BY <2>1, <2>3, WorksAfter
  <2> QED
    BY <2>1, <2>2, <2>4, WorksRefl
<1> HIDE DEF Correct
<1>4. \A it : Folds(it) <=> IsIteration(it, "correct", a, list, BandEnd, w)
  BY <1>2 DEF IsIteration
<1> HIDE DEF Folds
<1>5. IsIteration(iter, "correct", a, list, BandEnd, w)
  BY <1>0, <1>4, IterationExists
<1> HIDE DEF iter
<1>6. PICK after : Turns(after, "correct", a, list, BandEnd, w) /\ after[BandEnd] = iter[1 .. BandEnd]
  BY <1>0, <1>5, IterationTurns
<1>7. Works(w, after[BandEnd])
  BY <1>0, <1>2, <1>3, <1>6, TurnsWork
<1>8. Works(w, iter[1 .. BandEnd])
  BY <1>6, <1>7
<1> QED
  BY <1>1, <1>8 DEF CorrectLoop, list, Correct

LEMMA AdvanceWorks ==
  ASSUME NEW w, Working(w), NEW b, NEW k, NEW zeros
  PROVE  Works(w, Advance(w, b, k, zeros))
<1> DEFINE Zeros(j) == {i \in k..j : Coef(w, b, i) = 0}
           stop == Min({j \in k..BandEnd : Cardinality(Zeros(j)) > zeros} \cup {BandEnd + 1})
           d == CorrectLoop(w, b, k, stop)
           e == [d EXCEPT !.val = stop]
<1>1. Advance(w, b, k, zeros) = IF d.st = "ok" THEN e ELSE d
  BY DEF Advance, Then, CorrectLoop
<1> HIDE DEF stop
<1>2. Works(w, d)
  BY CorrectLoopWorks
<1> HIDE DEF d
<1>3. Changes(d, e, {"val"})
  BY DEF Changes
<1> HIDE DEF e
<1>4. Works(d, e)
  BY <1>2, <1>3, WorksSame DEF Works
<1> QED
  BY <1>1, <1>2, <1>4, WorksAfter

LEMMA EndOfBandWorks ==
  ASSUME NEW w, Working(w), NEW b, NEW k
  PROVE  Works(w, EndOfBand(w, b, k))
<1> DEFINE d == Advance(w, b, k, BandEnd)
           e == [d EXCEPT !.eobrun = @ - 1]
<1>1. EndOfBand(w, b, k) = IF d.st = "ok" THEN e ELSE d
  BY DEF EndOfBand, Then
<1>2. Works(w, d)
  BY AdvanceWorks
<1> HIDE DEF d
<1>3. Changes(d, e, {"eobrun"})
  BY DEF Changes
<1> HIDE DEF e
<1>4. Works(d, e)
  BY <1>2, <1>3, WorksSame DEF Works
<1> QED
  BY <1>1, <1>2, <1>4, WorksAfter

LEMMA RefineSymbolWorks ==
  ASSUME NEW d, Working(d), NEW b, NEW k
  PROVE  Works(d, RefineSymbol(d, b, k))
<1> DEFINE run == [d EXCEPT !.eobrun = IF d.val = 0 THEN 1 ELSE d.val - EobBase]
           a   == Advance(d, b, k, d.val - 1)
           c1  == WithCoef(a, b, a.val, 2^a.Al)
           e   == [c1 EXCEPT !.val = a.val + 1]
<1>1. RefineSymbol(d, b, k) \in {EndOfBand(run, b, k), a, e}
  BY DEF RefineSymbol, Then
<1>2. Works(d, EndOfBand(run, b, k))
  <2>1. Changes(d, run, {"eobrun"})
    BY DEF Changes
  <2> HIDE DEF run
  <2>2. Works(d, run)
    BY <2>1, WorksSame
  <2>3. Works(run, EndOfBand(run, b, k))
    BY <2>2, EndOfBandWorks DEF Works
  <2> QED
    BY <2>2, <2>3, WorksAfter
<1>3. Works(d, a)
  BY AdvanceWorks
<1> HIDE DEF run, a
<1>4. Works(d, e)
  <2>1. Works(a, c1)
    BY <1>3, WithCoefWorks DEF Works
  <2> HIDE DEF c1
  <2>2. Changes(c1, e, {"val"})
    BY DEF Changes
  <2> HIDE DEF e
  <2>3. Works(c1, e)
    BY <2>1, <2>2, WorksSame DEF Works
  <2>4. Works(d, c1)
    BY <1>3, <2>1, WorksAfter
  <2> QED
    BY <2>3, <2>4, WorksAfter
<1> HIDE DEF e
<1> QED
  BY <1>1, <1>2, <1>3, <1>4

LEMMA RefineTurnWorks ==
  ASSUME NEW d, Working(d), NEW b
  PROVE  Works(d, RefineTurn(d, b))
<1> DEFINE h == HuffDecode(d, 1)
           e == RefineSymbol(h, b, d.val)
<1>1. RefineTurn(d, b) \in {d, h, e}
  BY DEF RefineTurn, Then
<1>2. Works(d, h)
  BY HuffDecodeWorks
<1> HIDE DEF h
<1>3. Works(h, e)
  BY <1>2, RefineSymbolWorks DEF Works
<1> HIDE DEF e
<1> QED
  BY <1>1, <1>2, <1>3, WorksAfter, WorksRefl

LEMMA RefineBandWorks ==
  ASSUME NEW w, Working(w), NEW b
  PROVE  Works(w, RefineBand(w, b))
<1> DEFINE base == [w EXCEPT !.val = 1]
           list == [i \in 1 .. BandEnd |-> i]
           Folds(it) == it = [s \in SUBSET (1 .. BandEnd) |->
                                IF s = {} THEN base ELSE RefineTurn(it[s \ {Max(s)}], b)]
           iter == CHOOSE it : Folds(it)
<1>0. BandEnd \in Nat /\ DOMAIN list = 1 .. BandEnd
  BY DEF BandEnd
<1>1. RefineBand(w, b) = iter[1 .. BandEnd]
  BY <1>0 DEF RefineBand, FoldLeft, MapThenFoldSet
<1> HIDE DEF list
<1>2. Works(w, base)
  <2>1. Changes(w, base, {"val"})
    BY DEF Changes
  <2> HIDE DEF base
  <2> QED
    BY <2>1, WorksSame
<1> HIDE DEF base
<1>3. \A d, i : Body("refine", b, d, i) = RefineTurn(d, b)
  BY DEF Body
<1>4. \A it : Folds(it) <=> IsIteration(it, "refine", b, list, BandEnd, base)
  BY <1>3 DEF IsIteration
<1> HIDE DEF Folds
<1>5. IsIteration(iter, "refine", b, list, BandEnd, base)
  BY <1>0, <1>4, IterationExists
<1> HIDE DEF iter
<1>6. PICK after : Turns(after, "refine", b, list, BandEnd, base) /\ after[BandEnd] = iter[1 .. BandEnd]
  BY <1>0, <1>5, IterationTurns
<1>7. \A d, i : Working(d) => Works(d, Body("refine", b, d, i))
  BY <1>3, RefineTurnWorks
<1>8. Works(base, after[BandEnd])
  BY <1>0, <1>2, <1>6, <1>7, TurnsWork DEF Works
<1>9. Works(w, after[BandEnd])
  BY <1>2, <1>8, WorksAfter
<1> QED
  BY <1>1, <1>6, <1>9

LEMMA UndoNewlyNonzeroWorks ==
  ASSUME NEW w, Working(w), NEW r, NEW b
  PROVE  Works(w, UndoNewlyNonzero(r, w, b))
<1> DEFINE a == [r |-> r, b |-> b]
           list == [k \in 1 .. BandEnd |-> k]
           Undo(u, k) == IF Coef(r, b, k) = 0 THEN WithCoef(u, b, k, 0) ELSE u
           Folds(it) == it = [s \in SUBSET (1 .. BandEnd) |->
                                IF s = {} THEN w ELSE Undo(it[s \ {Max(s)}], list[Max(s)])]
           iter == CHOOSE it : Folds(it)
<1>0. BandEnd \in Nat /\ DOMAIN list = 1 .. BandEnd
  BY DEF BandEnd
<1>1. UndoNewlyNonzero(r, w, b) = iter[1 .. BandEnd]
  BY <1>0 DEF UndoNewlyNonzero, FoldLeft, MapThenFoldSet
<1> HIDE DEF list
<1>2. \A u, k : Body("undo", a, u, k) = Undo(u, k)
  BY DEF Body
<1>3. \A u, k : Working(u) => Works(u, Undo(u, k))
  BY WithCoefWorks, WorksRefl
<1> HIDE DEF a, Undo
<1>4. \A it : Folds(it) <=> IsIteration(it, "undo", a, list, BandEnd, w)
  BY <1>2 DEF IsIteration
<1> HIDE DEF Folds
<1>5. IsIteration(iter, "undo", a, list, BandEnd, w)
  BY <1>0, <1>4, IterationExists
<1> HIDE DEF iter
<1>6. PICK after : Turns(after, "undo", a, list, BandEnd, w) /\ after[BandEnd] = iter[1 .. BandEnd]
  BY <1>0, <1>5, IterationTurns
<1>7. Works(w, after[BandEnd])
  BY <1>0, <1>2, <1>3, <1>6, TurnsWork
<1> QED
  BY <1>1, <1>6, <1>7

(***************************************************************************)
(* An MCU.                                                                 *)
(***************************************************************************)

LEMMA SettledReads ==
  ASSUME NEW d, Reading(d), NEW action
  PROVE  Reads(d, Settled(d, action)) /\ Reading(Settled(d, action))
<1> DEFINE e == Settled(d, action)
<1>1. Changes(d, e, {"st", "unread"}) /\ e.st = "ok" /\ e.unread \in {d.unread, 0} /\ d.pos \in Nat
  BY DEF Changes, Settled, Ok, Reading, Object, Fields, Stream
<1> HIDE DEF e
<1>2. e.pos = d.pos
  BY <1>1 DEF Changes, Reading, Object, Fields
<1>3. Advances(d, e)
  BY <1>1, <1>2, ChangesAdvance DEF Reading
<1>4. Begun(e) /\ Object(e) /\ Stream(e)
  BY <1>1, <1>2, <1>3, AdvancesStream, ChangesObject DEF Begun, Reading
<1> QED
  BY <1>1, <1>3, <1>4 DEF Reads, Reading, e

LEMMA ResyncToRestartReads ==
  ASSUME NEW d, Reading(d), NEW desired
  PROVE  Reads(d, ResyncToRestart(d, desired))
<1> DEFINE S     == {p \in Markers(d) : ResyncAction(WordAt(d, p + 1), desired) # 2}
           at    == Min(S)
           found == SeekTo(d, at)
<1>1. S # {} /\ S \in SUBSET Nat /\ \A p \in S : d.pos <= p
  <2>1. ResyncAction(EOI, desired) # 2
    BY DEF ResyncAction, EOI, SOF0, RST0, RST7
  <2> QED
    BY <2>1, MarkersEnd
<1> HIDE DEF S
<1>2. at \in Nat /\ d.pos <= at
  BY <1>1, MinMember
<1> HIDE DEF at
<1>3. found.pos \in Nat /\ d.pos <= found.pos /\ Begun(found) /\ found.st \in {"ok", "susp"}
  BY <1>2, SeekToAdvances DEF Reading
<1>4. Changes(d, found, {"st", "unread", "pos"})
  BY DEF Changes, SeekTo, Suspend, Ok
<1>5. ResyncToRestart(d, desired) =
        IF ResyncAction(d.unread, desired) # 2 THEN Settled(d, ResyncAction(d.unread, desired))
        ELSE IF found.st = "ok" THEN Settled(found, ResyncAction(found.unread, desired)) ELSE found
  BY DEF ResyncToRestart, SeekMarker, Then, at, S
<1> HIDE DEF found
<1>6. Advances(d, found)
  BY <1>3, <1>4, ChangesAdvance DEF Reading
<1>7. Reading(found) /\ Reads(d, found)
  BY <1>3, <1>4, <1>6, AdvancesStream, ChangesObject DEF Reading, Reads
<1>8. Reads(found, Settled(found, ResyncAction(found.unread, desired)))
  BY <1>7, SettledReads
<1>9. Reads(d, Settled(found, ResyncAction(found.unread, desired)))
  BY <1>6, <1>8, AdvancesAfter DEF Reads, Reading
<1> QED
  BY <1>5, <1>7, <1>9, SettledReads

LEMMA ReadRestartMarkerReads ==
  ASSUME NEW d, Reading(d)
  PROVE  Reads(d, ReadRestartMarker(d))
<1> DEFINE m == IF d.unread = 0 THEN NextMarker(d) ELSE Ok(d)
           r == IF m.st = "ok" THEN Resynced(m) ELSE m
           e == [r EXCEPT !.nextRestart = (@ + 1) % 8]
<1>1. ReadRestartMarker(d) = IF r.st = "ok" THEN e ELSE r
  BY DEF ReadRestartMarker, Then
<1>2. Reads(d, m) /\ Object(m)
  BY NextMarkerReads, OutcomeReads, NextMarkerChanges, OutcomeChanges, ChangesObject DEF Reading
<1>3. Reading(m)
  BY <1>2, AdvancesStream DEF Reading, Reads
<1> HIDE DEF m
<1>4. Reads(m, Resynced(m))
  <2> DEFINE taken == Ok([m EXCEPT !.unread = 0])
  <2>1. Resynced(m) \in {taken, ResyncToRestart(m, m.nextRestart)}
    BY DEF Resynced
  <2>2. taken = Settled(m, 1)
    BY DEF Settled
  <2> HIDE DEF taken
  <2> QED
    BY <1>3, <2>1, <2>2, SettledReads, ResyncToRestartReads
<1>5. Reads(d, r)
  BY <1>2, <1>4, AdvancesAfter DEF Reads, Reading
<1>6. Object(r)
  <2>1. Changes(m, Resynced(m), {"st", "unread", "pos", "nextRestart"})
    BY ResyncedChanges
  <2> QED
    BY <1>2, <2>1, ChangesObject
<1> HIDE DEF r
<1>7. Changes(r, e, {"nextRestart"})
  BY DEF Changes
<1> HIDE DEF e
<1>8. /\ e.pos = r.pos /\ e.words = r.words /\ e.loaded = r.loaded /\ e.save = r.save
      /\ e.unread = r.unread /\ e.st = r.st
  BY <1>6, <1>7 DEF Changes, Object, Fields
<1>9. Reads(d, e)
  BY <1>5, <1>8 DEF Reads, Advances, Begun
<1> QED
  BY <1>1, <1>5, <1>9

LEMMA SegmentWorks ==
  ASSUME NEW d, Working(d), d.pos > 1
  PROVE  Works(d, Segment(d))
<1> DEFINE emptied == [d EXCEPT !.buf = <<>>]
           r == ReadRestartMarker(emptied)
           e == [NewSegment(r) EXCEPT !.insufficient = @ /\ r.unread # 0]
<1>1. Works(d, emptied) /\ emptied.pos = d.pos /\ emptied.buf = <<>>
  <2>1. Changes(d, emptied, {"buf"}) /\ emptied.buf = <<>> /\ d.pos \in Nat
    BY DEF Changes, Working, Object, Fields, Stream
  <2> HIDE DEF emptied
  <2>2. emptied.pos = d.pos /\ emptied.coefs = d.coefs
    BY <2>1 DEF Changes, Working, Object, Fields
  <2>3. Advances(d, emptied)
    BY <2>1, <2>2, ChangesAdvance DEF Working
  <2>4. Buffer(emptied)
    BY <2>1, GeometryAssumption DEF Buffer
  <2> QED
    BY <2>1, <2>2, <2>3, <2>4, AdvancesStream, ChangesObject DEF Works, Working
<1> HIDE DEF emptied
<1>2. Reading(emptied)
  BY <1>1 DEF Reading, Works, Working, Begun
<1>3. Works(emptied, r)
  <2>1. Reads(emptied, r) /\ Changes(emptied, r, {"st", "unread", "pos", "nextRestart"})
    BY <1>2, ReadRestartMarkerReads, ReadRestartMarkerChanges
  <2> HIDE DEF r
  <2>2. r.buf = emptied.buf /\ r.coefs = emptied.coefs /\ Object(r)
    BY <1>2, <2>1, ChangesObject DEF Changes, Reading, Object, Fields
  <2> QED
    BY <1>1, <2>1, <2>2, AdvancesStream DEF Works, Working, Reads, Buffer
<1>4. ProcessRestart(d) = IF r.st = "ok" THEN e ELSE r
  BY DEF ProcessRestart, Then, emptied
<1> HIDE DEF r
<1>5. Works(r, e)
  <2>1. Changes(r, e, {"lastDc", "eobrun", "togo", "insufficient"})
    BY DEF Changes, NewSegment
  <2> HIDE DEF e
  <2> QED
    BY <1>3, <2>1, WorksSame DEF Works
<1> HIDE DEF e
<1>6. Works(d, r)
  BY <1>1, <1>3, WorksAfter
<1>7. Works(d, e)
  BY <1>5, <1>6, WorksAfter
<1>8. Works(d, Ok(d))
  BY OutcomeChanges, WorksSame
<1> QED
  BY <1>4, <1>6, <1>7, <1>8 DEF Segment

LEMMA McuDecodedWorks ==
  ASSUME NEW r, NEW w, Working(r), Works(r, w)
  PROVE  Works(r, McuDecoded(r, w))
<1> DEFINE e == McuDecoded(r, w)
<1>1. Changes(r, e, McuFields)
  BY McuDecodedChanges
<1>2. /\ e.pos \in {r.pos, w.pos} /\ e.buf \in {r.buf, w.buf} /\ e.coefs = w.coefs
  <2>1. DOMAIN r = Fields
    BY DEF Working, Object
  <2>2. CASE w.st # "ok"
    BY <2>1, <2>2 DEF McuDecoded, Suspend, Fields
  <2>3. CASE w.st = "ok"
    BY <2>1, <2>3 DEF McuDecoded, Fields
  <2> QED
    BY <2>2, <2>3
<1> HIDE DEF e
<1>3. e.pos \in Nat /\ r.pos <= e.pos
  BY <1>2 DEF Works, Working, Advances, Stream
<1>4. Advances(r, e)
  BY <1>1, <1>3, ChangesAdvance DEF Working, McuFields
<1>5. Buffer(e) /\ DOMAIN e.coefs = DOMAIN r.coefs
  BY <1>2 DEF Works, Working, Buffer
<1> QED
  BY <1>1, <1>4, <1>5, AdvancesStream, ChangesObject DEF Works, Working, e


\* The scan's components are ones an image may have.
Scanned(d) ==
  /\ \E n \in Nat \ {0} : DOMAIN d.scan = 1 .. n
  /\ \A k \in DOMAIN d.scan : d.scan[k][1] \in DOMAIN VSamp

LEMMA VSampNat ==
  ASSUME NEW ci \in DOMAIN VSamp
  PROVE  VSamp[ci] \in 1 .. 4
BY GeometryAssumption

LEMMA McuBlocksList ==
  ASSUME NEW d, Scanned(d)
  PROVE  \E m \in Nat : DOMAIN McuBlocks(d) = 1 .. m
<1> DEFINE At(k, y) == <<k, d.scan[k][1], d.inputRow * VSamp[d.scan[k][1]] + y, d.ctr + 1>>
           Add(b, k) == b \o [y \in 1 .. VSamp[d.scan[k][1]] |-> At(k, y)]
           T == {At(k, y) : k \in DOMAIN d.scan, y \in Nat}
<1>1. PICK n \in Nat \ {0} : DOMAIN d.scan = 1 .. n
  BY DEF Scanned
<1> DEFINE list == [k \in DOMAIN d.scan |-> k]
           none == <<>>
           Folds(it) == it = [s \in SUBSET (1 .. n) |->
                                IF s = {} THEN none ELSE Add(it[s \ {Max(s)}], list[Max(s)])]
           iter == CHOOSE it : Folds(it)
<1>2. FoldLeft(Add, none, list) = iter[1 .. n]
  BY <1>1 DEF FoldLeft, MapThenFoldSet
<1>3. \A b, k : Body("blocks", d, b, k) = Add(b, k)
  BY DEF Body
<1>5. McuBlocks(d) = IF Len(d.scan) = 1 THEN <<At(1, d.voff + 1)>> ELSE FoldLeft(Add, none, list)
  BY DEF McuBlocks
<1>6. ASSUME NEW k \in 1 .. n PROVE list[k] = k /\ [y \in 1 .. VSamp[d.scan[k][1]] |-> At(k, y)] \in Seq(T)
  <2>1. VSamp[d.scan[k][1]] \in 1 .. 4
    BY <1>1, VSampNat DEF Scanned
  <2>2. \A y \in 1 .. VSamp[d.scan[k][1]] : At(k, y) \in T
    BY <1>1, <2>1
  <2>3. list[k] = k
    BY <1>1
  <2> HIDE DEF At, T
  <2> QED
    BY <2>1, <2>2, <2>3
<1>0. none \in Seq(T)
  OBVIOUS
<1> HIDE DEF At, T, Add, list, none
<1>4. \A it : Folds(it) <=> IsIteration(it, "blocks", d, list, n, none)
  <2>1. \A it : [s \in SUBSET (1 .. n) |-> IF s = {} THEN none ELSE Add(it[s \ {Max(s)}], list[Max(s)])]
               = [s \in SUBSET (1 .. n) |->
                    IF s = {} THEN none ELSE Body("blocks", d, it[s \ {Max(s)}], list[Max(s)])]
    BY <1>3, Zenon
  <2> QED
    BY <2>1 DEF IsIteration
<1> HIDE DEF Folds
<1>7. IsIteration(iter, "blocks", d, list, n, none)
  BY <1>4, IterationExists
<1> HIDE DEF iter
<1>8. PICK after : Turns(after, "blocks", d, list, n, none) /\ after[n] = iter[1 .. n]
  BY <1>7, IterationTurns
<1> DEFINE P == {j \in 0 .. n : after[j] \in Seq(T)}
<1>9. 0 \in P
  BY <1>0, <1>1, <1>8 DEF Turns
<1>10. ASSUME NEW j \in 1 .. n, j - 1 \in P PROVE j \in P
  <2>1. after[j] = Add(after[j - 1], list[j]) /\ after[j - 1] \in Seq(T)
    BY <1>3, <1>8, <1>10 DEF Turns
  <2>2. list[j] = j /\ [y \in 1 .. VSamp[d.scan[j][1]] |-> At(j, y)] \in Seq(T)
    BY <1>6
  <2>3. after[j] \in Seq(T)
    <3> DEFINE blocks == [y \in 1 .. VSamp[d.scan[j][1]] |-> At(j, y)]
    <3>1. after[j] = after[j - 1] \o blocks
      BY <2>1, <2>2 DEF Add
    <3>2. blocks \in Seq(T)
      BY <2>2
    <3> HIDE DEF blocks
    <3> QED
      BY <2>1, <3>1, <3>2
  <2> QED
    BY <1>1, <2>3
<1> HIDE DEF P
<1>11. \A j \in 0 .. n : j \in P
  BY <1>1, <1>9, <1>10, LoopInduction
<1>12. after[n] \in Seq(T)
  BY <1>1, <1>11 DEF P
<1>13. CASE Len(d.scan) = 1
  <2>1. \A b : DOMAIN <<b>> = 1 .. 1
    OBVIOUS
  <2> QED
    BY <1>5, <1>13, <2>1
<1>14. CASE Len(d.scan) # 1
  <2>1. McuBlocks(d) \in Seq(T)
    BY <1>2, <1>5, <1>8, <1>12, <1>14
  <2> QED
    BY <2>1
<1> QED
  BY <1>13, <1>14

LEMMA ZeroedWorks ==
  ASSUME NEW d, Working(d), Scanned(d)
  PROVE  Works(d, Zeroed(d))
<1> DEFINE list == McuBlocks(d)
<1>1. PICK m \in Nat : DOMAIN list = 1 .. m
  BY McuBlocksList
<1> DEFINE Folds(it) == it = [s \in SUBSET (1 .. m) |->
                                IF s = {} THEN d.coefs ELSE WithZero(it[s \ {Max(s)}], list[Max(s)])]
           iter == CHOOSE it : Folds(it)
<1> HIDE DEF list
<1>2. FoldLeft(WithZero, d.coefs, list) = iter[1 .. m]
  BY <1>1 DEF FoldLeft, MapThenFoldSet
<1>3. \A w, b : Body("zero", d, w, b) = WithZero(w, b)
  BY DEF Body
<1>4. \A it : Folds(it) <=> IsIteration(it, "zero", d, list, m, d.coefs)
  BY <1>3 DEF IsIteration
<1> HIDE DEF Folds
<1>5. IsIteration(iter, "zero", d, list, m, d.coefs)
  BY <1>4, IterationExists
<1> HIDE DEF iter
<1>6. PICK after : Turns(after, "zero", d, list, m, d.coefs) /\ after[m] = iter[1 .. m]
  BY <1>5, IterationTurns
<1> DEFINE P == {j \in 0 .. m : DOMAIN after[j] = DOMAIN d.coefs}
<1>7. 0 \in P
  BY <1>6 DEF Turns
<1>8. ASSUME NEW j \in 1 .. m, j - 1 \in P PROVE j \in P
  <2>1. after[j] = WithZero(after[j - 1], list[j])
    BY <1>3, <1>6 DEF Turns
  <2> QED
    BY <1>8, <2>1 DEF WithZero
<1> HIDE DEF P
<1>9. \A j \in 0 .. m : j \in P
  BY <1>7, <1>8, LoopInduction
<1>10. DOMAIN after[m] = DOMAIN d.coefs
  BY <1>9 DEF P
<1> DEFINE e == Zeroed(d)
<1>11. Changes(d, e, {"coefs"}) /\ e.coefs = after[m]
  BY <1>2, <1>6 DEF Changes, Zeroed, Working, Object, Fields, list
<1> HIDE DEF e
<1>12. Works(d, e)
  BY <1>10, <1>11, WorksArrays
<1> QED
  BY <1>12 DEF e

LEMMA SegmentOutcome ==
  ASSUME NEW d, Working(d), d.pos > 1
  PROVE  Segment(d).st \in {"ok", "susp", "error"}
<1> DEFINE emptied == [d EXCEPT !.buf = <<>>]
           r == ReadRestartMarker(emptied)
<1>1. /\ DOMAIN emptied = Fields /\ emptied.words = d.words /\ emptied.pos = d.pos
      /\ emptied.loaded = d.loaded /\ emptied.save = d.save
  BY DEF Working, Object, Fields
<1> HIDE DEF emptied
<1>2. Reading(emptied)
  BY <1>1 DEF Reading, Working, Object, Stream, StreamEnd, Begun
<1>3. r.st \in {"ok", "susp", "error"}
  BY <1>2, ReadRestartMarkerReads DEF Reads
<1>4. Changes(emptied, r, {"st", "unread", "pos", "nextRestart"})
  BY ReadRestartMarkerChanges
<1>5. DOMAIN r = Fields
  BY <1>1, <1>4 DEF Changes
<1>6. ProcessRestart(d) = IF r.st = "ok" THEN [NewSegment(r) EXCEPT !.insufficient = @ /\ r.unread # 0] ELSE r
  BY DEF ProcessRestart, Then, emptied
<1> HIDE DEF r
<1>7. [NewSegment(r) EXCEPT !.insufficient = @ /\ r.unread # 0].st = r.st
  BY <1>5 DEF NewSegment, Fields
<1>8. Ok(d).st = "ok"
  BY DEF Ok, Working, Object, Fields
<1> QED
  BY <1>3, <1>6, <1>7, <1>8 DEF Segment

\* A decoder makes w of the state r that its segment begins in.
LEMMA DecodedWorks ==
  ASSUME NEW d, Working(d), d.pos > 1, NEW w, Works(Segment(d), w), NEW e,
         e = IF Segment(d).st = "ok" THEN McuDecoded(Segment(d), w) ELSE Segment(d)
  PROVE  Works(d, e) /\ e.st \in {"ok", "susp", "error"}
<1> DEFINE r == Segment(d)
<1>1. Works(d, r) /\ r.st \in {"ok", "susp", "error"}
  BY SegmentWorks, SegmentOutcome
<1> HIDE DEF r
<1>2. Works(d, McuDecoded(r, w))
  BY <1>1, McuDecodedWorks, WorksAfter DEF Works, r
<1>3. McuDecoded(r, w).st \in {"susp", r.st}
  <2>1. DOMAIN r = Fields
    BY <1>1 DEF Works, Working, Object
  <2>2. CASE w.st # "ok"
    BY <2>1, <2>2 DEF McuDecoded, Suspend, Fields
  <2>3. CASE w.st = "ok"
    BY <2>1, <2>3 DEF McuDecoded, Fields
  <2> QED
    BY <2>2, <2>3
<1> QED
  BY <1>1, <1>2, <1>3 DEF r

\* One MCU of the scan, by whichever decoder.
LEMMA DecodeMcuWorks ==
  ASSUME NEW d, Working(d), d.pos > 1, Scanned(d)
  PROVE  Works(d, DecodeMcu(d)) /\ DecodeMcu(d).st \in {"ok", "susp", "error"}
<1> DEFINE r == Segment(d)
           list == McuBlocks(r)
           b == list[1]
           From(w) == IF r.insufficient /\ ~DcRefining(r) THEN r ELSE w
           Made(w) == IF r.st = "ok" THEN McuDecoded(r, From(w)) ELSE r
           Good(e) == Works(d, e) /\ e.st \in {"ok", "susp", "error"}
<1>1. Works(d, r)
  BY SegmentWorks
<1>2. Scanned(r)
  <2>1. Changes(d, r, McuFields \ {"coefs"})
    BY SegmentChanges
  <2> HIDE DEF r
  <2>2. r.scan = d.scan
    BY <2>1 DEF Changes, Working, Object, Fields, McuFields
  <2> QED
    BY <2>2 DEF Scanned
<1>3. PICK m \in Nat : DOMAIN list = 1 .. m
  BY <1>2, McuBlocksList
<1>4. ASSUME NEW w, Works(r, w) PROVE Good(Made(w))
  <2>1. Works(r, From(w))
    BY <1>1, <1>4, WorksRefl DEF Works
  <2> HIDE DEF From
  <2> QED
    BY <2>1, DecodedWorks DEF Made, r
<1>5. Working(r)
  BY <1>1 DEF Works
<1>6. DecodeMcuHuff(d) = Made(FoldLeft(HuffBlock, r, list))
  BY DEF DecodeMcuHuff, WithinSegment, Then, Segment
<1>7. DecodeMcuDcFirst(d) = Made(FoldLeft(DcFirstBlock, r, list))
  BY DEF DecodeMcuDcFirst, WithinSegment, Then, Segment
<1>8. DecodeMcuDcRefine(d) = Made(FoldLeft(DcRefineBlock, r, list))
  BY DEF DecodeMcuDcRefine, WithinSegment, Then, Segment
<1> DEFINE h == HuffDecode(r, 1)
           first == IF r.eobrun > 0 THEN [r EXCEPT !.eobrun = @ - 1]
                    ELSE IF h.st = "ok" THEN AcFirst(h, b) ELSE h
<1>9. DecodeMcuAcFirst(d) = Made(first)
  BY DEF DecodeMcuAcFirst, WithinSegment, Then, Segment
<1> DEFINE refined == IF r.eobrun > 0 THEN EndOfBand(r, b, 1) ELSE RefineBand(r, b)
           undone == IF refined.st = "ok" THEN refined ELSE UndoNewlyNonzero(r, refined, b)
<1>10. DecodeMcuAcRefine(d) = Made(undone)
  BY DEF DecodeMcuAcRefine, WithinSegment, Then, Segment
<1> HIDE DEF r, list, Made, Good
<1>11. /\ Works(r, FoldLeft(HuffBlock, r, list)) /\ Works(r, FoldLeft(DcFirstBlock, r, list))
       /\ Works(r, FoldLeft(DcRefineBlock, r, list))
  BY <1>3, <1>5, HuffLoopWorks, DcFirstLoopWorks, DcRefineLoopWorks
<1>12. Works(r, first)
  <2> DEFINE shorter == [r EXCEPT !.eobrun = @ - 1]
             run == [h EXCEPT !.eobrun = h.val - EobBase - 1]
             coef == [h EXCEPT !.coefs[b[2]][b[3]][b[4]][2] = h.val * 2^h.Al]
  <2>1. Changes(r, shorter, {"eobrun"})
    BY DEF Changes
  <2>2. Works(r, h)
    BY <1>5, HuffDecodeWorks
  <2>3. Changes(h, run, {"eobrun"})
    BY DEF Changes
  <2>4. first \in {shorter, h, run, coef}
    BY DEF AcFirst
  <2> HIDE DEF first, h, shorter, run
  <2>5. Works(r, shorter) /\ Works(h, run)
    BY <1>5, <2>1, <2>2, <2>3, WorksSame DEF Works
  <2>6. Works(h, coef)
    BY <2>2, WithAcWorks DEF Works
  <2> HIDE DEF coef
  <2> QED
    BY <1>5, <2>2, <2>4, <2>5, <2>6, WorksAfter
<1>13. Works(r, undone)
  <2>1. Works(r, refined)
    BY <1>5, EndOfBandWorks, RefineBandWorks
  <2> HIDE DEF refined
  <2>2. Works(refined, UndoNewlyNonzero(r, refined, b))
    BY <2>1, UndoNewlyNonzeroWorks DEF Works
  <2> QED
    BY <1>5, <2>1, <2>2, WorksAfter
<1> HIDE DEF first, undone
<1>14. DecodeMcu(d) \in {DecodeMcuHuff(d), DecodeMcuDcFirst(d), DecodeMcuDcRefine(d), DecodeMcuAcFirst(d),
                         DecodeMcuAcRefine(d)}
  BY DEF DecodeMcu, DecodeMcuPhuff
<1>15. Good(DecodeMcu(d))
  BY <1>4, <1>6, <1>7, <1>8, <1>9, <1>10, <1>11, <1>12, <1>13, <1>14
<1> QED
  BY <1>15 DEF Good

(***************************************************************************)
(* The controllers: where the input and the output are in the image.       *)
(***************************************************************************)

LEMMA MaxVBound == MaxV \in 1 .. 4 /\ \A ci \in DOMAIN VSamp : VSamp[ci] <= MaxV
<1> DEFINE S == {VSamp[i] : i \in DOMAIN VSamp}
<1>1. S \in SUBSET (0 .. 4) /\ \A k \in S : k >= 1
  BY VSampNat
<1>2. S # {}
  <2>1. 1 \in DOMAIN VSamp
    BY GeometryAssumption
  <2> QED
    BY <2>1
<1>3. \A ci \in DOMAIN VSamp : VSamp[ci] \in S
  OBVIOUS
<1>4. MaxV = Max(S)
  BY DEF MaxV
<1> HIDE DEF S
<1>5. Max(S) \in S /\ \A k \in S : k <= Max(S)
  BY <1>1, <1>2, MaxMember
<1> DEFINE most == Max(S)
<1> HIDE DEF most
<1>6. most \in 0 .. 4 /\ most >= 1
  BY <1>1, <1>5 DEF most
<1>7. \A ci \in DOMAIN VSamp : VSamp[ci] <= most
  BY <1>3, <1>5 DEF most
<1> QED
  BY <1>4, <1>6, <1>7 DEF most

LEMMA TotalRowsNat == TotalRows \in Nat \ {0}
<1>1. \A m \in 1 .. 4 : (Height + m - 1) \div m \in Nat \ {0}
  <2>1. Height \in Nat /\ Height >= 1
    BY GeometryAssumption
  <2> SUFFICES ASSUME NEW m \in 1 .. 4 PROVE (Height + m - 1) \div m \in Nat \ {0}
    OBVIOUS
  <2>2. CASE m = 1
    BY <2>1, <2>2
  <2>3. CASE m = 2
    BY <2>1, <2>3
  <2>4. CASE m = 3
    BY <2>1, <2>4
  <2>5. CASE m = 4
    BY <2>1, <2>5
  <2> QED
    BY <2>2, <2>3, <2>4, <2>5
<1> QED
  BY <1>1, MaxVBound DEF TotalRows, RoundUp

LEMMA LastRowsBound ==
  ASSUME NEW ci \in DOMAIN VSamp
  PROVE  LastRows(ci) \in 0 .. MaxV
<1> DEFINE v == VSamp[ci]
           rows == BlockRows(ci)
<1>1. v \in 1 .. 4 /\ v <= MaxV /\ MaxV \in 1 .. 4
  BY VSampNat, MaxVBound
<1>2. \A x \in Int, m \in 1 .. 4 : x \div m \in Int
  OBVIOUS
<1>3. rows \in Int
  <2>1. Height * v + MaxV - 1 \in Int
    BY <1>1, GeometryAssumption
  <2> QED
    BY <1>1, <1>2, <2>1 DEF BlockRows, RoundUp
<1> HIDE DEF v, rows
<1>4. \A x \in Int, m \in 1 .. 4 : x % m \in 0 .. m
  OBVIOUS
<1>5. rows % v \in 0 .. v
  BY <1>1, <1>3, <1>4
<1>6. LastRows(ci) \in {v, rows % v}
  BY DEF LastRows, v, rows
<1> QED
  BY <1>1, <1>5, <1>6

Places(d) ==
  /\ d.inputRow \in 0 .. TotalRows /\ d.outputRow \in 0 .. TotalRows /\ d.scanline \in 0 .. TotalRows
  /\ d.ctr \in 0 .. Cols - 1 /\ d.voff \in 0 .. MaxV - 1 /\ d.rowsPer \in 0 .. MaxV

LEMMA StartImcuRowPlaces ==
  ASSUME NEW d, Object(d), Scanned(d)
  PROVE  LET e == StartImcuRow(d)
         IN /\ Changes(d, e, {"rowsPer", "ctr", "voff"})
            /\ e.ctr \in 0 .. Cols - 1 /\ e.voff \in 0 .. MaxV - 1 /\ e.rowsPer \in 0 .. MaxV
<1> DEFINE e == StartImcuRow(d)
           ci == d.scan[1][1]
<1>1. Changes(d, e, {"rowsPer", "ctr", "voff"}) /\ e.ctr = 0 /\ e.voff = 0
      /\ e.rowsPer \in {1, VSamp[ci], LastRows(ci)}
  BY DEF Changes, StartImcuRow, Object, Fields
<1> HIDE DEF e
<1>2. ci \in DOMAIN VSamp
  BY DEF Scanned
<1> HIDE DEF ci
<1>3. 1 \in 0 .. MaxV /\ VSamp[ci] \in 0 .. MaxV /\ LastRows(ci) \in 0 .. MaxV
      /\ 0 \in 0 .. Cols - 1 /\ 0 \in 0 .. MaxV - 1
  BY <1>2, VSampNat, MaxVBound, LastRowsBound, GeometryAssumption
<1> QED
  BY <1>1, <1>3 DEF e

\* What a turn of the coefficient controller does to the places: it stays in the
\* row, or it begins the next row, or it has ended the scan.
LEMMA NextMcuPlaces ==
  ASSUME NEW d, Object(d), Places(d), Scanned(d), NEW advance \in {0, 1},
         d.inputRow < TotalRows, d.outputRow + advance <= TotalRows
  PROVE  LET e == NextMcu(d, advance)
         IN /\ Places(e) /\ Changes(d, e, RowFields) /\ e.st \in {"again", "row", "scan"}
            /\ e.st = "again" => /\ e.inputRow = d.inputRow /\ e.outputRow = d.outputRow
                                 /\ e.consume = d.consume
            /\ e.st # "again" => e.inputRow = d.inputRow + 1 /\ e.outputRow = d.outputRow + advance
            /\ e.st = "row" => e.inputRow < TotalRows /\ e.consume = d.consume
            /\ e.st = "scan" => e.inputRow = TotalRows /\ e.consume = "markers"
<1> DEFINE Good(e) ==
             /\ Places(e) /\ e.st \in {"again", "row", "scan"}
             /\ e.st = "again" => /\ e.inputRow = d.inputRow /\ e.outputRow = d.outputRow
                                  /\ e.consume = d.consume
             /\ e.st # "again" => e.inputRow = d.inputRow + 1 /\ e.outputRow = d.outputRow + advance
             /\ e.st = "row" => e.inputRow < TotalRows /\ e.consume = d.consume
             /\ e.st = "scan" => e.inputRow = TotalRows /\ e.consume = "markers"
           row == [d EXCEPT !.inputRow = @ + 1, !.outputRow = @ + advance]
           next == [d EXCEPT !.ctr = @ + 1, !.st = "again"]
           down == [d EXCEPT !.ctr = 0, !.voff = @ + 1, !.st = "again"]
           begun == [StartImcuRow(row) EXCEPT !.st = "row"]
           ended == [FinishInputPass([row EXCEPT !.ctr = 0]) EXCEPT !.st = "scan"]
<1>0. Cols \in Nat \ {0} /\ MaxV \in 1 .. 4 /\ TotalRows \in Nat \ {0}
  BY GeometryAssumption, MaxVBound, TotalRowsNat
<1>1. NextMcu(d, advance) =
        IF d.ctr + 1 < Cols THEN next ELSE IF d.voff + 1 < d.rowsPer THEN down
        ELSE IF row.inputRow < TotalRows THEN begun ELSE ended
  BY DEF NextMcu
<1>2. ASSUME d.ctr + 1 < Cols PROVE Good(next)
  <2>1. Changes(d, next, {"ctr", "st"}) /\ next.ctr = d.ctr + 1 /\ next.st = "again"
    BY DEF Changes, Object, Fields
  <2> HIDE DEF next
  <2>2. /\ next.inputRow = d.inputRow /\ next.outputRow = d.outputRow /\ next.scanline = d.scanline
        /\ next.voff = d.voff /\ next.rowsPer = d.rowsPer /\ next.consume = d.consume
    BY <2>1 DEF Changes, Object, Fields
  <2> QED
    BY <1>0, <1>2, <2>1, <2>2 DEF Places
<1>3. ASSUME d.voff + 1 < d.rowsPer PROVE Good(down)
  <2>1. Changes(d, down, {"ctr", "voff", "st"}) /\ down.ctr = 0 /\ down.voff = d.voff + 1 /\ down.st = "again"
    BY DEF Changes, Object, Fields
  <2> HIDE DEF down
  <2>2. /\ down.inputRow = d.inputRow /\ down.outputRow = d.outputRow /\ down.scanline = d.scanline
        /\ down.rowsPer = d.rowsPer /\ down.consume = d.consume
    BY <2>1 DEF Changes, Object, Fields
  <2> QED
    BY <1>0, <1>3, <2>1, <2>2 DEF Places
<1>4. /\ Object(row) /\ row.inputRow = d.inputRow + 1 /\ row.outputRow = d.outputRow + advance
      /\ row.scanline = d.scanline /\ row.ctr = d.ctr /\ row.voff = d.voff /\ row.rowsPer = d.rowsPer
      /\ row.scan = d.scan /\ row.consume = d.consume
  BY DEF Object, Fields
<1> HIDE DEF row
<1>5. ASSUME row.inputRow < TotalRows PROVE Good(begun)
  <2> DEFINE s == StartImcuRow(row)
  <2>1. Scanned(row)
    BY <1>4 DEF Scanned
  <2>2. /\ Changes(row, s, {"rowsPer", "ctr", "voff"})
        /\ s.ctr \in 0 .. Cols - 1 /\ s.voff \in 0 .. MaxV - 1 /\ s.rowsPer \in 0 .. MaxV
    BY <1>4, <2>1, StartImcuRowPlaces
  <2> HIDE DEF s
  <2>3. /\ Object(s) /\ s.inputRow = row.inputRow /\ s.outputRow = row.outputRow /\ s.scanline = row.scanline
        /\ s.consume = row.consume
    BY <1>4, <2>2 DEF Changes, Object, Fields
  <2>4. begun = [s EXCEPT !.st = "row"]
    BY DEF s
  <2> HIDE DEF begun
  <2>5. Changes(s, begun, {"st"}) /\ begun.st = "row"
    BY <2>3, <2>4 DEF Changes, Object, Fields
  <2>6. /\ begun.inputRow = s.inputRow /\ begun.outputRow = s.outputRow /\ begun.scanline = s.scanline
        /\ begun.consume = s.consume /\ begun.ctr = s.ctr /\ begun.voff = s.voff /\ begun.rowsPer = s.rowsPer
    BY <2>3, <2>5 DEF Changes, Object, Fields
  <2> QED
    BY <1>0, <1>4, <1>5, <2>2, <2>3, <2>5, <2>6 DEF Places
<1>6. ASSUME ~(row.inputRow < TotalRows) PROVE Good(ended)
  <2>1. Changes(row, ended, {"ctr", "consume", "st"}) /\ ended.ctr = 0 /\ ended.consume = "markers"
        /\ ended.st = "scan"
    BY <1>4 DEF Changes, FinishInputPass, Object, Fields
  <2> HIDE DEF ended
  <2>2. /\ ended.inputRow = row.inputRow /\ ended.outputRow = row.outputRow /\ ended.scanline = row.scanline
        /\ ended.voff = row.voff /\ ended.rowsPer = row.rowsPer
    BY <1>4, <2>1 DEF Changes, Object, Fields
  <2> QED
    BY <1>0, <1>4, <1>6, <2>1, <2>2 DEF Places
<1> HIDE DEF Good, next, down, begun, ended
<1>7. Good(NextMcu(d, advance))
  BY <1>1, <1>2, <1>3, <1>5, <1>6
<1> QED
  BY <1>7, NextMcuChanges DEF Good

LEMMA StartPassEntropyBuffer ==
  ASSUME NEW d, Object(d), Buffer(d), d.st = "ok"
  PROVE  LET e == StartPassEntropy(d) IN Buffer(e) /\ e.st \in {"ok", "error"}
<1> DEFINE Good(e) == e.buf \in {d.buf, <<>>} /\ e.st \in {"ok", "error"}
           Begins(e) == [NewSegment(DeriveTables(e)) EXCEPT !.buf = <<>>, !.insufficient = FALSE]
<1>1. \A e : DOMAIN e = Fields /\ e.buf = d.buf /\ e.st = "ok" => Good(Fail(e)) /\ Good(Begins(e))
  BY DEF NewSegment, DeriveTables, Fail, Fields
<1>2. DOMAIN d = Fields
  BY DEF Object
<1>3. Good(StartPassHuff(d))
  BY <1>1, <1>2 DEF StartPassHuff
<1>4. Good(StartPassPhuff(d))
  <2>1. \A bits : LET known == [d EXCEPT !.coefBits = bits]
                  IN DOMAIN known = Fields /\ known.buf = d.buf /\ known.st = "ok"
    BY <1>2 DEF Fields
  <2> HIDE DEF Good, Begins
  <2>2. \A bits : /\ Good(Fail(d)) /\ Good(Fail([d EXCEPT !.coefBits = bits]))
                  /\ Good(Begins([d EXCEPT !.coefBits = bits]))
    BY <1>1, <1>2, <2>1
  <2> QED
    BY <2>2 DEF StartPassPhuff, Begins
<1>5. Good(StartPassEntropy(d))
  BY <1>3, <1>4 DEF StartPassEntropy
<1>6. <<>> \in Seq(Nat) /\ Len(<<>>) <= Depth
  BY GeometryAssumption
<1> QED
  BY <1>5, <1>6 DEF Buffer

\* A new scan begins in the first row, or nothing but an error has happened.
LEMMA StartInputPassPlaces ==
  ASSUME NEW d, Object(d), Buffer(d), Places(d), Scanned(d)
  PROVE  LET e == StartInputPass(d)
         IN /\ Changes(d, e, PassFields) /\ Buffer(e) /\ Places(e) /\ e.st \in {"ok", "error"}
            /\ e.outputRow = d.outputRow
            /\ e.st = "ok" => e.inputRow = 0 /\ e.consume = IF d.fullBuffer THEN "data" ELSE "dummy"
            /\ e.st = "error" => e.inputRow = d.inputRow /\ e.consume = d.consume
<1> DEFINE l == LatchQuantTables(d)
           t == IF l.st = "ok" THEN StartPassEntropy(l) ELSE l
           first == [t EXCEPT !.inputRow = 0]
           s == StartImcuRow(first)
           e == [s EXCEPT !.consume = IF s.fullBuffer THEN "data" ELSE "dummy"]
<1>1. Changes(d, l, {"st", "latched"}) /\ l.st \in {"ok", "error"}
  BY LatchQuantTablesChanges DEF LatchQuantTables, Fail, Ok, Object, Fields
<1> HIDE DEF l
<1>2. Changes(d, t, EntropyFields \cup {"latched"}) /\ Buffer(t) /\ t.st \in {"ok", "error"}
  <2>1. Changes(d, l, EntropyFields \cup {"latched"})
    BY <1>1, ChangesMore DEF EntropyFields
  <2>2. Object(l) /\ Buffer(l)
    <3>1. l.buf = d.buf
      BY <1>1 DEF Changes, Object, Fields
    <3> QED
      BY <1>1, <3>1, ChangesObject DEF Buffer
  <2>3. CASE l.st = "ok"
    <3>1. Changes(l, t, EntropyFields \cup {"latched"})
      BY <2>3, StartPassEntropyChanges, ChangesMore
    <3>2. Buffer(t) /\ t.st \in {"ok", "error"}
      BY <2>2, <2>3, StartPassEntropyBuffer
    <3> QED
      BY <2>1, <3>1, <3>2, ChangesAfter
  <2>4. CASE l.st # "ok"
    BY <1>1, <2>1, <2>2, <2>4
  <2> QED
    BY <2>3, <2>4
<1>3. StartInputPass(d) =
        IF t.st = "ok" THEN [CoefStartInputPass(t) EXCEPT !.consume = IF t.fullBuffer THEN "data" ELSE "dummy"] ELSE t
  BY DEF StartInputPass, Then, l
<1> HIDE DEF t
<1>4. /\ Object(t) /\ t.inputRow = d.inputRow /\ t.outputRow = d.outputRow /\ t.scanline = d.scanline
      /\ t.ctr = d.ctr /\ t.voff = d.voff /\ t.rowsPer = d.rowsPer /\ t.scan = d.scan
      /\ t.consume = d.consume /\ t.fullBuffer = d.fullBuffer
  BY <1>2 DEF Changes, EntropyFields, Object, Fields
<1>5. Changes(d, t, PassFields) /\ Places(t)
  BY <1>2, <1>4, ChangesMore DEF Places, PassFields
<1>6. /\ Changes(t, first, {"inputRow"}) /\ first.inputRow = 0 /\ Object(first)
      /\ first.scan = t.scan /\ first.outputRow = t.outputRow /\ first.scanline = t.scanline
      /\ first.fullBuffer = t.fullBuffer /\ first.buf = t.buf /\ first.st = t.st
  BY <1>4 DEF Changes, Object, Fields
<1>7. CoefStartInputPass(t) = s
  BY DEF CoefStartInputPass
<1> HIDE DEF first
<1>8. Scanned(first)
  BY <1>4, <1>6 DEF Scanned
<1>9. /\ Changes(first, s, {"rowsPer", "ctr", "voff"})
      /\ s.ctr \in 0 .. Cols - 1 /\ s.voff \in 0 .. MaxV - 1 /\ s.rowsPer \in 0 .. MaxV
  BY <1>6, <1>8, StartImcuRowPlaces
<1> HIDE DEF s
<1>10. /\ Object(s) /\ s.inputRow = 0 /\ s.outputRow = t.outputRow /\ s.scanline = t.scanline
       /\ s.fullBuffer = t.fullBuffer /\ s.buf = t.buf /\ s.st = t.st
  BY <1>6, <1>9 DEF Changes, Object, Fields
<1>11. /\ Changes(s, e, {"consume"}) /\ e.consume = IF t.fullBuffer THEN "data" ELSE "dummy"
  BY <1>10 DEF Changes, Object, Fields
<1>12. StartInputPass(d) = IF t.st = "ok" THEN e ELSE t
  BY <1>3, <1>7, <1>10
<1> HIDE DEF e
<1>13. /\ e.inputRow = 0 /\ e.outputRow = t.outputRow /\ e.scanline = t.scanline
       /\ e.ctr = s.ctr /\ e.voff = s.voff /\ e.rowsPer = s.rowsPer /\ e.buf = t.buf /\ e.st = t.st
  BY <1>10, <1>11 DEF Changes, Object, Fields
<1>14. Places(e) /\ Buffer(e)
  BY <1>2, <1>5, <1>9, <1>13, TotalRowsNat DEF Places, Buffer
<1> QED
  BY <1>2, <1>4, <1>5, <1>11, <1>12, <1>13, <1>14, StartInputPassChanges

\* Behind the header: reading the frame header has left what the scans need.
Running(d) ==
  /\ Reader(d) /\ Buffer(d) /\ Places(d)
  /\ d.pos > 1 /\ ~d.inheaders /\ d.consume \in ConsumeMethods
  /\ d.sawSOF /\ NumComps(d) <= MaxComponents
  /\ d.consume # "markers" => ScanOfFrame(d) /\ d.inputRow < TotalRows

LEMMA FrameScanned ==
  ASSUME NEW d, Components(d), NumComps(d) <= MaxComponents, ScanOfFrame(d)
  PROVE  Scanned(d)
<1>1. DOMAIN d.comps.info = 1 .. Len(d.comps.info) /\ Len(d.comps.info) \in Nat
  BY DEF Components
<1>2. DOMAIN VSamp = 1 .. Len(VSamp) /\ Len(VSamp) \in Nat
  BY GeometryAssumption
<1>3. DOMAIN d.comps.info \subseteq DOMAIN VSamp
  BY <1>1, <1>2 DEF NumComps, MaxComponents
<1> QED
  BY <1>3 DEF ScanOfFrame, Scanned

\* Consuming input: a one-pass image that is not being decoded stays where it is.
Runs(d, e) ==
  /\ Running(e) /\ Changes(d, e, ConsumeFields) /\ DOMAIN e.coefs = DOMAIN d.coefs
  /\ e.st \in {"again", "row", "scan", "sos", "eoi", "susp", "error"}
  /\ e.outputRow = d.outputRow /\ e.multi = d.multi
  /\ (d.consume = "data" => d.fullBuffer) => (e.consume = "data" => e.fullBuffer)
  /\ (~d.fullBuffer /\ ~d.multi /\ d.consume # "data") => e.inputRow = d.inputRow /\ e.consume = d.consume

LEMMA RunningMcu ==
  ASSUME NEW d, Running(d), NEW e, Changes(d, e, McuFields), Works(d, e)
  PROVE  /\ Running(e) /\ e.outputRow = d.outputRow /\ e.inputRow = d.inputRow /\ e.consume = d.consume
         /\ e.multi = d.multi /\ e.fullBuffer = d.fullBuffer
<1>1. /\ e.comps = d.comps /\ e.cur = d.cur /\ e.image = d.image /\ e.sawSOF = d.sawSOF /\ e.scan = d.scan
      /\ e.inheaders = d.inheaders /\ e.consume = d.consume /\ e.multi = d.multi
      /\ e.fullBuffer = d.fullBuffer
  BY ZenonT(40) DEF Changes, McuFields, Running, Reader, Reading, Object, Fields
<1>2. /\ e.inputRow = d.inputRow /\ e.outputRow = d.outputRow /\ e.scanline = d.scanline
      /\ e.ctr = d.ctr /\ e.voff = d.voff /\ e.rowsPer = d.rowsPer
  BY DEF Changes, McuFields, Running, Reader, Reading, Object, Fields
<1>3. Object(e) /\ Stream(e) /\ Buffer(e) /\ e.pos > 1 /\ Begun(e)
  BY DEF Works, Working, Advances, Running, Reader, Reading, Stream, Begun
<1>4. Components(e) /\ Saving(e) /\ Places(e)
  BY <1>1, <1>2 DEF Running, Reader, Components, Saving, Places
<1>5. NumComps(e) = NumComps(d) /\ (ScanOfFrame(d) => ScanOfFrame(e))
  BY <1>1 DEF NumComps, ScanOfFrame
<1> QED
  BY <1>1, <1>2, <1>3, <1>4, <1>5 DEF Running, Reader, Reading

LEMMA DecodeMcuRuns ==
  ASSUME NEW d, Running(d), d.consume # "markers"
  PROVE  LET e == DecodeMcu(d)
         IN /\ Running(e) /\ Changes(d, e, McuFields) /\ e.st \in {"ok", "susp", "error"}
            /\ DOMAIN e.coefs = DOMAIN d.coefs
            /\ e.outputRow = d.outputRow /\ e.inputRow = d.inputRow /\ e.consume = d.consume
            /\ e.multi = d.multi /\ e.fullBuffer = d.fullBuffer
<1>1. Working(d) /\ Scanned(d) /\ d.pos > 1
  BY FrameScanned DEF Running, Reader, Reading, Working
<1>2. Works(d, DecodeMcu(d)) /\ DecodeMcu(d).st \in {"ok", "susp", "error"}
  BY <1>1, DecodeMcuWorks
<1> QED
  BY <1>2, DecodeMcuChanges, RunningMcu DEF Works

LEMMA NextMcuRuns ==
  ASSUME NEW d, Running(d), d.consume # "markers", NEW advance \in {0, 1}, d.outputRow + advance <= TotalRows
  PROVE  LET e == NextMcu(d, advance)
         IN /\ Running(e) /\ Changes(d, e, RowFields) /\ e.st \in {"again", "row", "scan"}
            /\ e.st = "again" => /\ e.inputRow = d.inputRow /\ e.outputRow = d.outputRow
                                 /\ e.consume = d.consume
            /\ e.st # "again" => e.inputRow = d.inputRow + 1 /\ e.outputRow = d.outputRow + advance
            /\ e.st = "row" => e.inputRow < TotalRows /\ e.consume = d.consume
            /\ e.st = "scan" => e.inputRow = TotalRows /\ e.consume = "markers"
<1> DEFINE e == NextMcu(d, advance)
<1>1. Object(d) /\ Places(d) /\ Scanned(d) /\ d.inputRow < TotalRows
  BY FrameScanned DEF Running, Reader, Reading
<1>2. /\ Places(e) /\ Changes(d, e, RowFields) /\ e.st \in {"again", "row", "scan"}
      /\ e.st = "again" => e.inputRow = d.inputRow /\ e.outputRow = d.outputRow /\ e.consume = d.consume
      /\ e.st # "again" => e.inputRow = d.inputRow + 1 /\ e.outputRow = d.outputRow + advance
      /\ e.st = "row" => e.inputRow < TotalRows /\ e.consume = d.consume
      /\ e.st = "scan" => e.inputRow = TotalRows /\ e.consume = "markers"
  BY <1>1, NextMcuPlaces
<1> HIDE DEF e
<1>3. /\ e.comps = d.comps /\ e.cur = d.cur /\ e.image = d.image /\ e.sawSOF = d.sawSOF /\ e.scan = d.scan
      /\ e.inheaders = d.inheaders /\ e.words = d.words /\ e.pos = d.pos /\ e.loaded = d.loaded
      /\ e.save = d.save /\ e.unread = d.unread /\ e.buf = d.buf /\ Object(e)
  BY <1>1, <1>2 DEF Changes, RowFields, Object, Fields
<1>4. Reading(e) /\ Buffer(e) /\ e.pos > 1
  BY <1>3 DEF Running, Reader, Reading, Stream, StreamEnd, Begun, Buffer
<1>5. Components(e) /\ Saving(e) /\ NumComps(e) = NumComps(d) /\ (ScanOfFrame(d) => ScanOfFrame(e))
  BY <1>3 DEF Running, Reader, Components, Saving, NumComps, ScanOfFrame
<1>6. e.consume \in ConsumeMethods /\ (e.consume # "markers" => ScanOfFrame(e) /\ e.inputRow < TotalRows)
  BY <1>1, <1>2, <1>5 DEF Running, ConsumeMethods
<1>7. Running(e)
  BY <1>2, <1>3, <1>4, <1>5, <1>6 DEF Running, Reader
<1> QED
  BY <1>2, <1>7 DEF e

LEMMA ConsumeDataRuns ==
  ASSUME NEW d, Running(d), d.consume = "data"
  PROVE  Runs(d, ConsumeData(d))
<1> DEFINE m == DecodeMcu(d)
           n == NextMcu(m, 0)
<1>1. /\ Running(m) /\ Changes(d, m, McuFields) /\ m.st \in {"ok", "susp", "error"}
      /\ DOMAIN m.coefs = DOMAIN d.coefs
      /\ m.outputRow = d.outputRow /\ m.inputRow = d.inputRow /\ m.consume = d.consume
      /\ m.multi = d.multi /\ m.fullBuffer = d.fullBuffer
  BY DecodeMcuRuns
<1>2. ConsumeData(d) = IF m.st = "ok" THEN n ELSE m
  BY DEF ConsumeData, Then
<1> HIDE DEF m
<1>3. m.outputRow + 0 <= TotalRows /\ m.outputRow + 0 = m.outputRow
  BY <1>1, TotalRowsNat DEF Running, Places
<1>4. /\ Running(n) /\ Changes(m, n, RowFields) /\ n.st \in {"again", "row", "scan"}
      /\ n.st = "again" => /\ n.inputRow = m.inputRow /\ n.outputRow = m.outputRow
                           /\ n.consume = m.consume
      /\ n.st # "again" => n.inputRow = m.inputRow + 1 /\ n.outputRow = m.outputRow + 0
      /\ n.st = "row" => n.inputRow < TotalRows /\ n.consume = m.consume
      /\ n.st = "scan" => n.inputRow = TotalRows /\ n.consume = "markers"
  BY <1>1, <1>3, NextMcuRuns
<1> HIDE DEF n
<1>5. /\ n.outputRow = d.outputRow /\ n.consume \in {d.consume, "markers"}
      /\ n.coefs = m.coefs /\ n.multi = d.multi /\ n.fullBuffer = d.fullBuffer
  BY <1>1, <1>3, <1>4 DEF Changes, RowFields, Running, Reader, Reading, Object, Fields
<1>6. Changes(d, m, ConsumeFields) /\ Changes(m, n, ConsumeFields)
  BY <1>1, <1>4, ChangesMore DEF ConsumeFields, PassFields
<1>7. Changes(d, n, ConsumeFields)
  BY <1>6, ChangesAfter
<1> QED
  BY <1>1, <1>2, <1>4, <1>5, <1>6, <1>7 DEF Runs

\* What Running is about.
RunningFields ==
  {"words", "pos", "loaded", "save", "unread", "comps", "cur", "image", "sawSOF", "scan", "inheaders", "consume",
   "buf", "inputRow", "outputRow", "scanline", "ctr", "voff", "rowsPer"}

LEMMA RunningSame ==
  ASSUME NEW d, Running(d), NEW e, NEW F, Changes(d, e, F), F \cap RunningFields = {}
  PROVE  Running(e) /\ e.inputRow = d.inputRow /\ e.outputRow = d.outputRow /\ e.consume = d.consume
<1>0. DOMAIN e = Fields /\ \A f \in RunningFields : e[f] = d[f]
  BY DEF Changes, RunningFields, Running, Reader, Reading, Object, Fields
<1>1. /\ e.comps = d.comps /\ e.cur = d.cur /\ e.image = d.image /\ e.sawSOF = d.sawSOF /\ e.scan = d.scan
      /\ e.inheaders = d.inheaders /\ e.words = d.words /\ e.pos = d.pos /\ e.loaded = d.loaded
      /\ e.save = d.save /\ e.unread = d.unread /\ e.buf = d.buf /\ Object(e)
  BY <1>0 DEF RunningFields, Object
<1>2. /\ e.inputRow = d.inputRow /\ e.outputRow = d.outputRow /\ e.scanline = d.scanline
      /\ e.ctr = d.ctr /\ e.voff = d.voff /\ e.rowsPer = d.rowsPer /\ e.consume = d.consume
  BY <1>0 DEF RunningFields
<1>3. Reading(e) /\ Buffer(e) /\ Places(e)
  BY <1>1, <1>2 DEF Running, Reader, Reading, Stream, StreamEnd, Begun, Buffer, Places
<1>4. Components(e) /\ Saving(e) /\ NumComps(e) = NumComps(d) /\ (ScanOfFrame(d) => ScanOfFrame(e))
  BY <1>1 DEF Running, Reader, Components, Saving, NumComps, ScanOfFrame
<1> QED
  BY <1>1, <1>2, <1>3, <1>4 DEF Running, Reader

LEMMA RunsSame ==
  ASSUME NEW d, NEW r, Runs(d, r), NEW e, NEW F, Changes(r, e, F),
         F \cap (RunningFields \cup {"multi", "fullBuffer", "coefs"}) = {}, F \subseteq ConsumeFields,
         e.st \in {"again", "row", "scan", "sos", "eoi", "susp", "error"}
  PROVE  Runs(d, e)
<1>1. Running(e) /\ e.inputRow = r.inputRow /\ e.outputRow = r.outputRow /\ e.consume = r.consume
  BY RunningSame DEF Runs
<1>2. e.multi = r.multi /\ e.fullBuffer = r.fullBuffer /\ e.coefs = r.coefs
  BY DEF Changes, Runs, Running, Reader, Reading, Object, Fields
<1>3. Changes(d, e, ConsumeFields)
  <2>1. Changes(r, e, ConsumeFields)
    BY ChangesMore
  <2> QED
    BY <2>1, ChangesAfter DEF Runs
<1> QED
  BY <1>1, <1>2, <1>3 DEF Runs

LEMMA RunsRefl ==
  ASSUME NEW d, Running(d), d.st \in {"again", "row", "scan", "sos", "eoi", "susp", "error"}
  PROVE  Runs(d, d)
BY DEF Runs, Changes

\* A marker behind the header.
LEMMA ReadMarkersRuns ==
  ASSUME NEW d, Running(d), d.consume = "markers"
  PROVE  LET e == ReadMarkers(d)
         IN /\ Runs(d, e) /\ e.consume = "markers" /\ e.inputRow = d.inputRow
            /\ e.st = "sos" => ScanOfFrame(e)
<1> DEFINE e == ReadMarkers(d)
<1>1. /\ ReadsMarker(d, e) /\ e.st \in {"again", "sos", "eoi", "susp", "error"}
      /\ e.st = "sos" => e.sawSOF /\ ScanOfFrame(e)
  BY ReadMarkersReads DEF Running
<1>2. Changes(d, e, MarkerFields)
  BY ReadMarkersChanges
<1> HIDE DEF e
<1>3. /\ e.inheaders = d.inheaders /\ e.consume = d.consume /\ e.buf = d.buf
      /\ e.multi = d.multi /\ e.coefs = d.coefs /\ e.fullBuffer = d.fullBuffer
      /\ e.inputRow = d.inputRow /\ e.outputRow = d.outputRow /\ e.scanline = d.scanline
      /\ e.ctr = d.ctr /\ e.voff = d.voff /\ e.rowsPer = d.rowsPer
  BY <1>2 DEF Changes, MarkerFields, Running, Reader, Reading, Object, Fields
<1>4. e.pos \in Nat /\ d.pos <= e.pos /\ d.pos > 1 /\ d.pos \in Nat
  BY <1>1 DEF ReadsMarker, Advances, Running, Reader, Reading, Stream
<1>5. e.pos > 1
  BY <1>4
<1>6. e.sawSOF /\ NumComps(e) = NumComps(d) /\ NumComps(d) <= MaxComponents
  BY <1>1 DEF ReadsMarker, SameFrame, NumComps, Running
<1>7. Running(e)
  BY <1>1, <1>3, <1>5, <1>6 DEF ReadsMarker, Running, Buffer, Places
<1>8. Changes(d, e, ConsumeFields)
  BY <1>2, ChangesMore DEF ConsumeFields
<1>9. Runs(d, e)
  BY <1>1, <1>3, <1>7, <1>8 DEF Runs
<1> QED
  BY <1>1, <1>3, <1>9 DEF e

LEMMA StartInputPassRuns ==
  ASSUME NEW d, Running(d), ScanOfFrame(d), d.consume = "markers"
  PROVE  LET e == StartInputPass(d)
         IN /\ Running(e) /\ Changes(d, e, PassFields) /\ e.st \in {"ok", "error"}
            /\ e.outputRow = d.outputRow
            /\ e.st = "ok" => e.inputRow = 0 /\ e.consume = IF d.fullBuffer THEN "data" ELSE "dummy"
            /\ e.st = "error" => e.inputRow = d.inputRow /\ e.consume = d.consume
<1> DEFINE e == StartInputPass(d)
<1>1. Object(d) /\ Buffer(d) /\ Places(d) /\ Scanned(d)
  BY FrameScanned DEF Running, Reader, Reading
<1>2. /\ Changes(d, e, PassFields) /\ Buffer(e) /\ Places(e) /\ e.st \in {"ok", "error"}
      /\ e.outputRow = d.outputRow
      /\ e.st = "ok" => e.inputRow = 0 /\ e.consume = IF d.fullBuffer THEN "data" ELSE "dummy"
      /\ e.st = "error" => e.inputRow = d.inputRow /\ e.consume = d.consume
  BY <1>1, StartInputPassPlaces
<1> HIDE DEF e
<1>3. /\ e.comps = d.comps /\ e.cur = d.cur /\ e.image = d.image /\ e.sawSOF = d.sawSOF /\ e.scan = d.scan
      /\ e.inheaders = d.inheaders /\ e.words = d.words /\ e.pos = d.pos /\ e.loaded = d.loaded
      /\ e.save = d.save /\ e.unread = d.unread /\ Object(e)
  BY <1>1, <1>2 DEF Changes, PassFields, EntropyFields, RowFields, Object, Fields
<1>4. Reading(e) /\ e.pos > 1
  BY <1>3 DEF Running, Reader, Reading, Stream, StreamEnd, Begun
<1>5. Components(e) /\ Saving(e) /\ NumComps(e) = NumComps(d) /\ ScanOfFrame(e)
  BY <1>3 DEF Running, Reader, Components, Saving, NumComps, ScanOfFrame
<1>6. e.consume \in ConsumeMethods /\ (e.consume # "markers" => e.inputRow < TotalRows)
  BY <1>2, TotalRowsNat DEF Running, ConsumeMethods
<1>7. Running(e)
  BY <1>2, <1>3, <1>4, <1>5, <1>6 DEF Running, Reader
<1> QED
  BY <1>2, <1>7 DEF e

LEMMA ConsumeMarkersRuns ==
  ASSUME NEW d, Running(d), d.consume = "markers"
  PROVE  Runs(d, ConsumeMarkers(d))
<1> DEFINE r == ReadMarkers(d)
           ended == [d EXCEPT !.st = "eoi"]
           o == Ok(r)
           s == StartInputPass(o)
           t == IF s.st = "ok" THEN [s EXCEPT !.st = "sos"] ELSE s
<1>1. /\ Runs(d, r) /\ r.consume = "markers" /\ r.inputRow = d.inputRow
      /\ r.st = "sos" => ScanOfFrame(r)
  BY ReadMarkersRuns
<1> HIDE DEF r
<1>2. Running(r) /\ ~r.inheaders /\ Object(r)
  BY <1>1 DEF Runs, Running, Reader, Reading
<1>3. ConsumeMarkers(d) = IF d.eoi THEN ended ELSE MarkersRead(r)
  BY DEF ConsumeMarkers, r
<1>4. Runs(d, ended)
  <2>1. Changes(d, ended, {"st"}) /\ ended.st = "eoi"
    BY DEF Changes, Running, Reader, Reading, Object, Fields
  <2> HIDE DEF ended
  <2>2. Running(ended) /\ ended.inputRow = d.inputRow /\ ended.outputRow = d.outputRow /\ ended.consume = d.consume
    BY <2>1, RunningSame DEF RunningFields
  <2>3. ended.multi = d.multi /\ ended.coefs = d.coefs /\ Changes(d, ended, ConsumeFields)
    BY <2>1 DEF Changes, ConsumeFields, MarkerFields, Running, Reader, Reading, Object, Fields
  <2> QED
    BY <2>1, <2>2, <2>3 DEF Runs
<1>5. Runs(d, EoiReached(r))
  <2> DEFINE e == EoiReached(r)
  <2>1. Changes(r, e, {"eoi", "outputScan"}) /\ e.st = r.st
    BY <1>2 DEF Changes, EoiReached, Object, Fields
  <2> HIDE DEF e
  <2>2. Runs(d, e)
    BY <1>1, <2>1, RunsSame DEF RunningFields, ConsumeFields, Runs
  <2> QED
    BY <2>2 DEF e
<1>6. Runs(d, Fail(r))
  <2> DEFINE e == Fail(r)
  <2>1. Changes(r, e, {"st"}) /\ e.st = "error"
    BY <1>2 DEF Changes, Fail, Object, Fields
  <2> HIDE DEF e
  <2>2. Runs(d, e)
    BY <1>1, <2>1, RunsSame DEF RunningFields, ConsumeFields, MarkerFields
  <2> QED
    BY <2>2 DEF e
<1>7. ASSUME r.st = "sos", r.multi PROVE Runs(d, t)
  <2>1. Changes(r, o, {"st"})
    BY OutcomeChanges
  <2> HIDE DEF o
  <2>2. Running(o) /\ o.inputRow = r.inputRow /\ o.outputRow = r.outputRow /\ o.consume = r.consume
    BY <1>2, <2>1, RunningSame DEF RunningFields
  <2>3. o.fullBuffer = r.fullBuffer /\ ScanOfFrame(o)
    BY <1>1, <1>2, <1>7, <2>1 DEF Changes, Object, Fields, ScanOfFrame
  <2>4. /\ Running(s) /\ Changes(o, s, PassFields) /\ s.st \in {"ok", "error"}
        /\ s.outputRow = o.outputRow
        /\ s.st = "ok" => s.inputRow = 0 /\ s.consume = IF o.fullBuffer THEN "data" ELSE "dummy"
        /\ s.st = "error" => s.inputRow = o.inputRow /\ s.consume = o.consume
    BY <1>1, <2>2, <2>3, StartInputPassRuns
  <2> HIDE DEF s
  <2>5. Changes(r, s, PassFields)
    <3>1. Changes(r, o, PassFields)
      BY <2>1, ChangesMore DEF PassFields, EntropyFields
    <3> QED
      BY <2>4, <3>1, ChangesAfter
  <2>6. Changes(s, t, {"st"}) /\ t.st \in {"sos", "error"}
    BY <2>4 DEF Changes, Running, Reader, Reading, Object, Fields
  <2> HIDE DEF t
  <2>7. Running(t) /\ t.outputRow = s.outputRow /\ t.consume = s.consume
    BY <2>4, <2>6, RunningSame DEF RunningFields
  <2>8. Changes(r, t, PassFields)
    <3>1. Changes(s, t, PassFields)
      BY <2>6, ChangesMore DEF PassFields, EntropyFields
    <3> QED
      BY <2>5, <3>1, ChangesAfter
  <2>9. t.multi = r.multi /\ t.coefs = r.coefs /\ t.fullBuffer = r.fullBuffer
    BY <1>2, <2>8 DEF Changes, PassFields, EntropyFields, RowFields, Object, Fields
  <2>10. Changes(d, t, ConsumeFields)
    <3>1. Changes(r, t, ConsumeFields)
      BY <2>8, ChangesMore DEF ConsumeFields
    <3> QED
      BY <1>1, <3>1, ChangesAfter DEF Runs
  <2>11. r.multi = d.multi /\ r.outputRow = d.outputRow /\ DOMAIN r.coefs = DOMAIN d.coefs
    BY <1>1 DEF Runs
  <2>12. t.consume = "data" => t.fullBuffer
    BY <1>1, <2>2, <2>3, <2>4, <2>7, <2>9
  <2> QED
    BY <1>7, <2>2, <2>4, <2>6, <2>7, <2>9, <2>10, <2>11, <2>12 DEF Runs
<1>8. SosReached(r) = IF ~r.multi THEN Fail(r) ELSE t
  BY <1>2 DEF SosReached, Then
<1> HIDE DEF t, ended
<1>9. Runs(d, MarkersRead(r))
  BY <1>1, <1>5, <1>6, <1>7, <1>8 DEF MarkersRead
<1> QED
  BY <1>3, <1>4, <1>9

LEMMA ConsumeRuns ==
  ASSUME NEW d, Running(d)
  PROVE  Runs(d, Consume(d))
<1>1. Runs(d, DummyConsumeData(d))
  <2> DEFINE e == Suspend(d)
  <2>1. Changes(d, e, {"st"}) /\ e.st = "susp"
    BY DEF Suspend, Changes, Running, Reader, Reading, Object, Fields
  <2> HIDE DEF e
  <2>2. Running(e) /\ e.inputRow = d.inputRow /\ e.outputRow = d.outputRow /\ e.consume = d.consume
    BY <2>1, RunningSame DEF RunningFields
  <2>3. e.multi = d.multi /\ e.coefs = d.coefs /\ e.fullBuffer = d.fullBuffer /\ Changes(d, e, ConsumeFields)
    BY <2>1 DEF Changes, ConsumeFields, MarkerFields, Running, Reader, Reading, Object, Fields
  <2>4. Runs(d, e)
    BY <2>1, <2>2, <2>3 DEF Runs
  <2> QED
    BY <2>4 DEF DummyConsumeData, e
<1>2. CASE d.consume = "markers"
  BY <1>2, ConsumeMarkersRuns DEF Consume
<1>3. CASE d.consume = "data"
  BY <1>3, ConsumeDataRuns DEF Consume
<1>4. CASE d.consume = "dummy"
  BY <1>1, <1>4 DEF Consume
<1> QED
  BY <1>2, <1>3, <1>4 DEF Running, ConsumeMethods

(***************************************************************************)
(* The API: what holds of the object between two steps of its calls.       *)
(***************************************************************************)

Passive  == {"start", "inheader"}
Buffered == {"bufimage", "bufpost", "rdcoefs"}
Output   == {"prescan", "scanning"}
Active   == {"preload"} \cup Output \cup Buffered

Typed(d) ==
  /\ Object(d) /\ Stream(d) /\ Buffer(d) /\ Places(d)
  /\ d.gstate \in GlobalStates /\ d.consume \in ConsumeMethods /\ d.st \in Outcomes
  /\ d.image \in 1 .. MaxImages + 1
  /\ d.gstate = "start" /\ d.pos = 1 => d.image <= MaxImages
  /\ d.dummy => d.gstate = "prescan"

\* While the header is read.
Heading(d) == Reader(d) /\ d.consume = "markers" /\ d.inheaders /\ (d.eoi => d.pos > 1)

\* Once a pass has been set up: an image that is decoded in one pass reads its scan as
\* it is put out, row by row; every other one has the coefficient arrays.
Passing(d) ==
  /\ DOMAIN d.coefs # {}
  /\ d.consume = "data" => d.fullBuffer
  /\ d.gstate \in Buffered => d.buffered
  /\ d.multi \/ d.buffered => d.fullBuffer
  /\ ~d.fullBuffer /\ d.gstate = "preload" => d.inputRow = 0 /\ d.consume = "dummy"
  /\ ~d.fullBuffer /\ d.gstate # "preload" =>
       /\ d.inputRow = d.outputRow
       /\ d.outputRow < TotalRows => d.consume = "dummy"

\* While rows are put out, the controllers and the application agree on the row;
\* those of a dummy pass have gone to the post-processing buffer.
Putting(d) ==
  /\ FromPost(d) \/ d.outputRow = d.scanline
  /\ d.dummy => (\E V : d.post \in Seq(V)) /\ Len(d.post) = d.scanline

Sound(d) ==
  /\ Typed(d)
  /\ d.gstate = "inheader" => Heading(d)
  /\ d.gstate = "ready" => d.consume = "markers" /\ ScanOfFrame(d)
  /\ d.gstate \notin Passive => Running(d)
  /\ d.gstate # "start" => d.image <= MaxImages
  /\ d.gstate \in Active => Passing(d)
  /\ d.gstate \in Output => Putting(d)

\* What Sound is about, besides the outcome.
SoundFields ==
  RunningFields \cup {"gstate", "eoi", "dummy", "multi", "buffered", "fullBuffer", "coefs", "post"}

LEMMA SoundSame ==
  ASSUME NEW d, Sound(d), NEW e, NEW F, Changes(d, e, F), F \cap SoundFields = {}, e.st \in Outcomes
  PROVE  Sound(e)
<1>0. DOMAIN e = Fields /\ \A f \in SoundFields : e[f] = d[f]
  BY DEF Changes, SoundFields, RunningFields, Sound, Typed, Object, Fields
<1>1. /\ e.comps = d.comps /\ e.cur = d.cur /\ e.image = d.image /\ e.sawSOF = d.sawSOF /\ e.scan = d.scan
      /\ e.inheaders = d.inheaders /\ e.words = d.words /\ e.pos = d.pos /\ e.loaded = d.loaded
      /\ e.save = d.save /\ e.unread = d.unread /\ e.buf = d.buf
  BY <1>0 DEF SoundFields, RunningFields
<1>2. /\ e.inputRow = d.inputRow /\ e.outputRow = d.outputRow /\ e.scanline = d.scanline
      /\ e.ctr = d.ctr /\ e.voff = d.voff /\ e.rowsPer = d.rowsPer /\ e.consume = d.consume
  BY <1>0 DEF SoundFields, RunningFields
<1>3. /\ e.gstate = d.gstate /\ e.eoi = d.eoi /\ e.dummy = d.dummy /\ e.multi = d.multi
      /\ e.buffered = d.buffered /\ e.fullBuffer = d.fullBuffer /\ e.coefs = d.coefs /\ e.post = d.post
  BY <1>0 DEF SoundFields
<1>4. Object(e) /\ Stream(e) /\ Buffer(e) /\ Places(e)
  BY <1>0, <1>1, <1>2 DEF Sound, Typed, Object, Stream, StreamEnd, Buffer, Places
<1>5. Typed(e)
  BY <1>1, <1>2, <1>3, <1>4 DEF Sound, Typed
<1>6. Heading(d) => Heading(e)
  BY <1>1, <1>2, <1>3, <1>4 DEF Heading, Reader, Reading, Begun, Components, Saving
<1>7. Running(d) => Running(e)
  <2>1. F \cap RunningFields = {}
    BY DEF SoundFields
  <2> QED
    BY <2>1, RunningSame
<1>8. (ScanOfFrame(d) => ScanOfFrame(e)) /\ (Passing(d) => Passing(e)) /\ (Putting(d) => Putting(e))
  BY <1>1, <1>2, <1>3 DEF ScanOfFrame, Passing, Putting, FromPost
<1> QED
  BY <1>1, <1>2, <1>3, <1>5, <1>6, <1>7, <1>8 DEF Sound

\* Consuming input behind the header leaves the API where it is.
LEMMA SoundRuns ==
  ASSUME NEW d, Sound(d), d.gstate \notin Passive, d.gstate # "ready", NEW e, Runs(d, e)
  PROVE  /\ Sound(e) /\ e.gstate = d.gstate /\ e.scanline = d.scanline /\ e.row = d.row
         /\ e.buffered = d.buffered /\ e.dummy = d.dummy /\ e.post = d.post /\ e.multi = d.multi
         /\ e.fullBuffer = d.fullBuffer /\ e.outputRow = d.outputRow
<1>1. /\ e.image = d.image /\ e.gstate = d.gstate /\ e.dummy = d.dummy /\ e.scanline = d.scanline
      /\ e.buffered = d.buffered /\ e.fullBuffer = d.fullBuffer /\ e.post = d.post /\ e.row = d.row
  BY DEF Runs, Changes, ConsumeFields, MarkerFields, McuFields, PassFields, EntropyFields, RowFields, Sound, Typed,
         Object, Fields
<1>2. /\ Running(e) /\ DOMAIN e.coefs = DOMAIN d.coefs /\ e.outputRow = d.outputRow /\ e.multi = d.multi
      /\ (d.consume = "data" => d.fullBuffer) => (e.consume = "data" => e.fullBuffer)
      /\ (~d.fullBuffer /\ ~d.multi /\ d.consume # "data") => e.inputRow = d.inputRow /\ e.consume = d.consume
      /\ e.st \in Outcomes
  BY DEF Runs, Outcomes
<1>3. Typed(e)
  BY <1>1, <1>2 DEF Sound, Typed, Running, Reader, Reading
<1>4. Passing(d) => Passing(e)
  BY <1>1, <1>2 DEF Passing
<1>5. Putting(d) => Putting(e)
  BY <1>1, <1>2 DEF Putting, FromPost
<1> QED
  BY <1>1, <1>2, <1>3, <1>4, <1>5 DEF Sound, Passive

LEMMA SoundOutcome ==
  ASSUME NEW d, Sound(d)
  PROVE  /\ Sound(Fail(d)) /\ Changes(d, Fail(d), {"st"}) /\ Fail(d).st = "error"
         /\ Sound(Ok(d)) /\ Changes(d, Ok(d), {"st"}) /\ Ok(d).st = "ok"
         /\ Sound(GoOn(d)) /\ Changes(d, GoOn(d), {"st"})
<1>1. /\ Changes(d, Fail(d), {"st"}) /\ Fail(d).st = "error" /\ Changes(d, Ok(d), {"st"}) /\ Ok(d).st = "ok"
      /\ Changes(d, GoOn(d), {"st"}) /\ GoOn(d).st \in {"susp", "error", "again"}
  BY DEF Changes, Fail, Ok, GoOn, Sound, Typed, Object, Fields
<1>2. {"st"} \cap SoundFields = {} /\ {"susp", "error", "again", "ok"} \subseteq Outcomes
  BY DEF SoundFields, RunningFields, Outcomes
<1> QED
  BY <1>1, <1>2, SoundSame

\* A marker of the header.
LEMMA ReadMarkersSound ==
  ASSUME NEW d, Sound(d), d.gstate = "inheader"
  PROVE  LET e == ReadMarkers(d)
         IN /\ Sound(e) /\ e.gstate = "inheader" /\ e.st \in {"again", "sos", "eoi", "susp", "error"}
            /\ e.row = d.row
            /\ e.st = "sos" => e.sawSOF /\ ScanOfFrame(e)
            /\ e.st \in {"sos", "eoi"} => e.pos > 1
<1> DEFINE e == ReadMarkers(d)
<1>0. Heading(d) /\ Object(d) /\ d.image <= MaxImages
  BY DEF Sound, Typed
<1>1. /\ ReadsMarker(d, e) /\ e.st \in {"again", "sos", "eoi", "susp", "error"}
      /\ e.st = "sos" => e.sawSOF /\ ScanOfFrame(e)
      /\ e.st \in {"sos", "eoi"} => e.pos > 1
  BY <1>0, ReadMarkersReads DEF Heading
<1>2. Changes(d, e, MarkerFields)
  BY ReadMarkersChanges
<1> HIDE DEF e
<1>3. /\ e.inheaders = d.inheaders /\ e.consume = d.consume /\ e.buf = d.buf /\ e.eoi = d.eoi /\ e.row = d.row
      /\ e.gstate = d.gstate /\ e.image = d.image /\ e.dummy = d.dummy
      /\ e.inputRow = d.inputRow /\ e.outputRow = d.outputRow /\ e.scanline = d.scanline
      /\ e.ctr = d.ctr /\ e.voff = d.voff /\ e.rowsPer = d.rowsPer
  BY <1>0, <1>2 DEF Changes, MarkerFields, Object, Fields
<1>4. Heading(e)
  BY <1>0, <1>1, <1>3 DEF Heading, ReadsMarker, Advances, Reader, Reading, Stream
<1>5. Typed(e)
  BY <1>1, <1>3 DEF Sound, Typed, ReadsMarker, Reader, Reading, Buffer, Places, Outcomes
<1>6. Sound(e)
  BY <1>0, <1>3, <1>4, <1>5 DEF Sound, Passive, Active, Output, Buffered
<1> QED
  BY <1>1, <1>3, <1>6 DEF e

\* The first SOS ends the header.
LEMMA HeaderEnds ==
  ASSUME NEW d, Sound(d), d.gstate = "inheader", d.st = "sos", d.sawSOF, ScanOfFrame(d), d.pos > 1
  PROVE  LET e == HeaderRead(InitialSetup(d)) IN Sound(e) /\ e.row = d.row /\ e.st \in {"sos", "error"}
<1> DEFINE s == InitialSetup(d)
           e == [DefaultDecompressParms(s) EXCEPT !.gstate = "ready"]
<1>0. Heading(d) /\ Object(d) /\ Buffer(d) /\ Places(d) /\ d.image <= MaxImages
  BY DEF Sound, Typed
<1>1. CASE NumComps(d) > MaxComponents
  <2>1. HeaderRead(s) = Fail(d)
    BY <1>0, <1>1 DEF HeaderRead, InitialSetup, Fail, Object, Fields
  <2>2. Fail(d).row = d.row
    BY <1>0 DEF Fail, Object, Fields
  <2> QED
    BY <2>1, <2>2, SoundOutcome
<1>2. CASE ~(NumComps(d) > MaxComponents)
  <2>1. Changes(d, s, {"latched", "multi", "inheaders"}) /\ s.inheaders = FALSE
    BY <1>0, <1>2 DEF Changes, InitialSetup, Object, Fields
  <2> HIDE DEF s
  <2>2. /\ Object(s) /\ s.st = "sos"
        /\ \A f \in Fields \ {"latched", "multi", "inheaders"} : s[f] = d[f]
    <3>1. \A f \in Fields \ {"latched", "multi", "inheaders"} : s[f] = d[f]
      BY <1>0, <2>1 DEF Changes, Object
    <3>2. s.st = d.st
      BY <3>1 DEF Fields
    <3> QED
      BY <1>0, <2>1, <3>1, <3>2 DEF Changes, Object
  <2>3. HeaderRead(s) = e
    BY <2>2 DEF HeaderRead
  <2>4. Changes(s, e, {"gstate", "buffered", "quantize", "colormap"}) /\ e.gstate = "ready"
    BY <2>2 DEF Changes, DefaultDecompressParms, Object, Fields
  <2> HIDE DEF e
  <2> DEFINE kept == Fields \ {"latched", "multi", "inheaders", "gstate", "buffered", "quantize", "colormap"}
  <2>12. Object(e) /\ \A f \in kept : e[f] = d[f]
    <3>1. \A f \in kept : f \in Fields /\ f \notin {"latched", "multi", "inheaders"}
                         /\ f \notin {"gstate", "buffered", "quantize", "colormap"}
      OBVIOUS
    <3> HIDE DEF kept
    <3> QED
      BY <2>2, <2>4, <3>1 DEF Changes, Object
  <2>5. /\ e.comps = d.comps /\ e.cur = d.cur /\ e.image = d.image /\ e.sawSOF = d.sawSOF /\ e.scan = d.scan
        /\ e.words = d.words /\ e.pos = d.pos /\ e.loaded = d.loaded
        /\ e.save = d.save /\ e.unread = d.unread /\ e.buf = d.buf /\ Object(e)
        /\ e.st = d.st /\ e.dummy = d.dummy /\ e.row = d.row
    <3> DEFINE same == {"comps", "cur", "image", "sawSOF", "scan", "words", "pos", "loaded", "save", "unread", "buf",
                        "st", "dummy", "row"}
    <3>1. same \subseteq kept
      BY DEF Fields
    <3> HIDE DEF kept
    <3>2. \A f \in same : e[f] = d[f]
      BY <2>12, <3>1
    <3> QED
      BY <2>12, <3>2
  <2>6. /\ e.inputRow = d.inputRow /\ e.outputRow = d.outputRow /\ e.scanline = d.scanline
        /\ e.ctr = d.ctr /\ e.voff = d.voff /\ e.rowsPer = d.rowsPer /\ e.consume = d.consume
        /\ e.inheaders = FALSE
    <3>1. e.inheaders = s.inheaders
      BY <2>2, <2>4 DEF Changes, Object, Fields
    <3> QED
      BY <2>1, <2>12, <3>1 DEF Object, Fields
  <2>7. Reader(e) /\ Buffer(e) /\ Places(e) /\ ScanOfFrame(e) /\ NumComps(e) = NumComps(d)
    BY <1>0, <2>5, <2>6, ZenonT(40) DEF Heading, Reader, Reading, Stream, StreamEnd, Begun, Components, Saving, Buffer, Places,
                            ScanOfFrame, NumComps
  <2>8. NumComps(d) <= MaxComponents
    BY <1>0, <1>2, GeometryAssumption DEF Heading, Reader, Components, NumComps, MaxComponents
  <2>9. Running(e)
    BY <1>0, <2>5, <2>6, <2>7, <2>8 DEF Heading, Running, ConsumeMethods
  <2>10. Typed(e)
    BY <2>4, <2>5, <2>6, <2>7 DEF Sound, Typed, GlobalStates, Reader, Reading
  <2>11. Sound(e)
    BY <1>0, <2>4, <2>5, <2>6, <2>7, <2>9, <2>10 DEF Sound, Heading, Passive, Active, Output, Buffered
  <2> QED
    BY <2>3, <2>5, <2>11 DEF s
<1> QED
  BY <1>1, <1>2

LEMMA ConsumeHeaderSound ==
  ASSUME NEW d, Sound(d), d.gstate = "inheader"
  PROVE  LET e == HeaderRead(Consume(d))
         IN /\ Sound(e) /\ e.row = d.row /\ e.gstate \in {"inheader", "ready"}
            /\ e.st = "eoi" => e.pos > 1
<1> DEFINE r == ReadMarkers(d)
           ended == [d EXCEPT !.st = "eoi"]
           Good(e) == /\ Sound(e) /\ e.row = d.row /\ e.gstate \in {"inheader", "ready"}
                      /\ e.st = "eoi" => e.pos > 1
<1>0. Heading(d) /\ Object(d)
  BY DEF Sound, Typed
<1>1. /\ Sound(r) /\ r.gstate = "inheader" /\ r.st \in {"again", "sos", "eoi", "susp", "error"}
      /\ r.row = d.row
      /\ r.st = "sos" => r.sawSOF /\ ScanOfFrame(r)
      /\ r.st \in {"sos", "eoi"} => r.pos > 1
  BY ReadMarkersSound
<1> HIDE DEF r
<1>2. Consume(d) = IF d.eoi THEN ended ELSE MarkersRead(r)
  BY <1>0 DEF Consume, ConsumeMarkers, Heading, r
<1>3. r.inheaders /\ Object(r) /\ Heading(r)
  BY <1>1 DEF Sound, Typed, Heading
<1>4. ASSUME d.eoi PROVE Good(HeaderRead(ended))
  <2>1. Changes(d, ended, {"st"}) /\ ended.st = "eoi"
    BY <1>0 DEF Changes, Object, Fields
  <2>2. HeaderRead(ended) = ended
    BY <2>1 DEF HeaderRead
  <2> HIDE DEF ended
  <2>3. Sound(ended)
    BY <2>1, SoundSame DEF SoundFields, RunningFields, Outcomes
  <2>4. ended.row = d.row /\ ended.gstate = d.gstate /\ ended.pos = d.pos
    BY <1>0, <2>1 DEF Changes, Object, Fields
  <2> QED
    BY <1>0, <1>4, <2>2, <2>3, <2>4 DEF Heading
<1>5. ASSUME r.st = "sos" PROVE Good(HeaderRead(MarkersRead(r)))
  <2> DEFINE e == HeaderRead(InitialSetup(r))
  <2>1. MarkersRead(r) = InitialSetup(r)
    BY <1>3, <1>5 DEF MarkersRead, SosReached
  <2>2. Sound(e) /\ e.row = r.row /\ e.st \in {"sos", "error"}
    BY <1>1, <1>5, HeaderEnds
  <2>3. e.gstate \in {"inheader", "ready"}
    <3>1. Changes(r, InitialSetup(r), {"st", "latched", "multi", "inheaders"})
      BY DEF Changes, InitialSetup, Fail
    <3> DEFINE s == InitialSetup(r)
    <3>2. DOMAIN s = Fields /\ s.gstate = "inheader"
      BY <1>1, <1>3, <3>1 DEF Changes, Object, Fields
    <3> HIDE DEF s
    <3>3. HeaderRead(s).gstate \in {"inheader", "ready"}
      BY <3>2 DEF HeaderRead, DefaultDecompressParms, Fields
    <3> QED
      BY <3>3 DEF s
  <2> HIDE DEF e
  <2> QED
    BY <1>1, <2>1, <2>2, <2>3 DEF e
<1>6. ASSUME r.st = "eoi" PROVE Good(HeaderRead(MarkersRead(r)))
  <2> DEFINE e == [r EXCEPT !.eoi = TRUE]
  <2>1. MarkersRead(r) = IF r.sawSOF THEN Fail(r) ELSE e
    BY <1>3, <1>6 DEF MarkersRead, EoiReached
  <2>2. Good(HeaderRead(Fail(r)))
    <3>1. /\ HeaderRead(Fail(r)) = Fail(r) /\ Fail(r).row = r.row /\ Fail(r).gstate = r.gstate
          /\ Fail(r).st = "error"
      BY <1>3 DEF HeaderRead, Fail, Object, Fields
    <3> QED
      BY <1>1, <3>1, SoundOutcome
  <2>3. Changes(r, e, {"eoi"}) /\ e.eoi = TRUE
    BY <1>3 DEF Changes, Object, Fields
  <2> HIDE DEF e
  <2>4. /\ e.comps = r.comps /\ e.cur = r.cur /\ e.image = r.image /\ e.sawSOF = r.sawSOF
        /\ e.words = r.words /\ e.pos = r.pos /\ e.loaded = r.loaded
        /\ e.save = r.save /\ e.unread = r.unread /\ e.buf = r.buf /\ Object(e)
        /\ e.st = r.st /\ e.dummy = r.dummy /\ e.row = r.row /\ e.gstate = r.gstate
    BY <1>3, <2>3 DEF Changes, Object, Fields
  <2>5. /\ e.inputRow = r.inputRow /\ e.outputRow = r.outputRow /\ e.scanline = r.scanline
        /\ e.ctr = r.ctr /\ e.voff = r.voff /\ e.rowsPer = r.rowsPer /\ e.consume = r.consume
        /\ e.inheaders = r.inheaders
    BY <1>3, <2>3, ZenonT(40) DEF Changes, Object, Fields
  <2>6. Reader(e) /\ Buffer(e) /\ Places(e)
    BY <1>1, <1>3, <2>4, <2>5 DEF Sound, Typed, Heading, Reader, Reading, Stream, StreamEnd, Begun, Components,
                                  Saving, Buffer, Places
  <2>7. Heading(e)
    BY <1>1, <1>3, <1>6, <2>4, <2>5, <2>6 DEF Heading
  <2>8. Typed(e)
    BY <1>1, <2>4, <2>5, <2>6 DEF Sound, Typed, Reader, Reading
  <2>9. Sound(e)
    BY <1>1, <2>4, <2>7, <2>8 DEF Sound, Passive, Active, Output, Buffered
  <2>10. HeaderRead(e) = e
    BY <1>6, <2>4 DEF HeaderRead
  <2>11. Good(HeaderRead(e))
    BY <1>1, <1>6, <2>4, <2>9, <2>10
  <2> QED
    BY <2>1, <2>2, <2>11
<1>7. ASSUME r.st \in {"again", "susp", "error"} PROVE Good(HeaderRead(MarkersRead(r)))
  <2>1. HeaderRead(MarkersRead(r)) = r
    BY <1>7 DEF HeaderRead, MarkersRead
  <2> QED
    BY <1>1, <1>7, <2>1
<1> HIDE DEF Good, ended
<1>8. Good(HeaderRead(Consume(d)))
  BY <1>1, <1>2, <1>4, <1>5, <1>6, <1>7
<1> QED
  BY <1>8 DEF Good

\* jpeg_abort leaves an object that can read another datastream.
LEMMA AbortSound ==
  ASSUME NEW d, Sound(d), d.gstate # "start"
  PROVE  LET e == JpegAbort(d)
         IN /\ e.gstate = "start" /\ e.row = <<>> /\ e.st = d.st /\ e.image = d.image + 1 /\ e.pos = d.pos
            /\ Typed([e EXCEPT !.pos = 2]) /\ Object(e)
            /\ d.pos > 1 => Sound(e)
<1> DEFINE e == JpegAbort(d)
           moved == [e EXCEPT !.pos = 2]
           kept == {"words", "pos", "loaded", "save", "inputRow", "outputRow", "scanline", "consume", "st"}
<1>0. Typed(d) /\ DOMAIN d = Fields /\ d.image <= MaxImages
  BY DEF Sound, Typed, Object
<1>1. /\ DOMAIN e = Fields /\ e.gstate = "start" /\ e.row = <<>> /\ e.image = d.image + 1
      /\ e.buf = <<>> /\ e.dummy = FALSE /\ e.ctr = 0 /\ e.voff = 0 /\ e.rowsPer = 0
  BY <1>0, ZenonT(40) DEF JpegAbort, Fields
<1>2. \A f \in kept : e[f] = d[f]
  <2> DEFINE gone == {"image", "gstate", "saved", "coefs", "latched", "latch", "derived", "buf", "lastDc", "eobrun",
                      "togo", "insufficient", "post", "fullBuffer", "smooth", "dummy", "ctr", "voff", "rowsPer", "row"}
  <2>1. Changes(d, e, gone)
    BY DEF Changes, JpegAbort
  <2>2. kept \subseteq Fields \ gone
    BY DEF Fields
  <2> HIDE DEF gone, kept, e
  <2> QED
    BY <1>0, <2>1, <2>2 DEF Changes
<1> HIDE DEF e
<1>3. /\ e.words = d.words /\ e.pos = d.pos /\ e.loaded = d.loaded /\ e.save = d.save
      /\ e.inputRow = d.inputRow /\ e.outputRow = d.outputRow /\ e.scanline = d.scanline
      /\ e.consume = d.consume /\ e.st = d.st
  BY <1>2
<1>4. 0 \in 0 .. Cols - 1 /\ 0 \in 0 .. MaxV - 1 /\ 0 \in 0 .. MaxV
  BY MaxVBound, GeometryAssumption
<1>5. Stream(e) /\ Buffer(e) /\ Places(e)
  <2>1. <<>> \in Seq(Nat) /\ Len(<<>>) <= Depth
    BY GeometryAssumption
  <2>2. Stream(e) /\ Places(e)
    BY <1>0, <1>1, <1>3, <1>4 DEF Typed, Stream, StreamEnd, Places
  <2> QED
    BY <1>1, <2>1, <2>2 DEF Buffer
<1>6. e.image \in 1 .. MaxImages + 1
  BY <1>0, <1>1, ImagesAssumption DEF Typed
<1>7. "start" \in GlobalStates
  BY DEF GlobalStates
<1>8. d.pos > 1 => Typed(e)
  BY <1>0, <1>1, <1>3, <1>5, <1>6, <1>7 DEF Typed, Object
<1>9. d.pos > 1 => Sound(e)
  BY <1>1, <1>8 DEF Sound, Passive, Active, Output, Buffered
<1>10. Typed(moved)
  <2>1. Changes(e, moved, {"pos"}) /\ moved.pos = 2
    BY <1>1 DEF Changes, Fields
  <2> HIDE DEF moved
  <2>2. /\ DOMAIN moved = Fields /\ moved.gstate = "start" /\ moved.image = e.image /\ moved.buf = e.buf
        /\ moved.dummy = FALSE /\ moved.ctr = e.ctr /\ moved.voff = e.voff /\ moved.rowsPer = e.rowsPer
    BY <1>1, <2>1 DEF Changes, Fields
  <2>3. /\ moved.words = e.words /\ moved.loaded = e.loaded /\ moved.save = e.save
        /\ moved.inputRow = e.inputRow /\ moved.outputRow = e.outputRow /\ moved.scanline = e.scanline
        /\ moved.consume = e.consume /\ moved.st = e.st
    BY <1>1, <2>1 DEF Changes, Fields
  <2>4. Stream(moved) /\ Buffer(moved) /\ Places(moved)
    BY <1>5, <2>1, <2>2, <2>3 DEF Stream, StreamEnd, Buffer, Places
  <2> QED
    BY <1>0, <1>3, <1>6, <1>7, <2>1, <2>2, <2>3, <2>4 DEF Typed, Object
<1> QED
  BY <1>1, <1>3, <1>9, <1>10 DEF Object, e

\* The header of a datastream begins.
LEMMA ResetSound ==
  ASSUME NEW d, Sound(d), d.gstate = "start", d.image <= MaxImages
  PROVE  LET e == [ResetInputController(d) EXCEPT !.gstate = "inheader"]
         IN Sound(e) /\ e.gstate = "inheader" /\ e.row = d.row
<1> DEFINE e == [ResetInputController(d) EXCEPT !.gstate = "inheader"]
           kept == {"words", "pos", "loaded", "save", "inputRow", "outputRow", "scanline", "st", "ctr", "voff",
                    "rowsPer", "buf", "image", "row", "dummy"}
<1>0. Typed(d) /\ DOMAIN d = Fields
  BY DEF Sound, Typed, Object
<1>1. /\ DOMAIN e = Fields /\ e.gstate = "inheader" /\ e.comps = NoComps /\ e.cur = NoMarker /\ e.unread = 0
      /\ e.sawSOF = FALSE /\ e.consume = "markers" /\ e.eoi = FALSE /\ e.inheaders = TRUE
  BY <1>0, ZenonT(40) DEF ResetInputController, ResetMarkerReader, Fields
<1>2. \A f \in kept : e[f] = d[f]
  <2> DEFINE gone == {"consume", "eoi", "inheaders", "multi", "inputScan", "comps", "unread", "sawSOI", "sawSOF", "cur",
                      "gstate", "coefBits"}
  <2>1. Changes(d, e, gone)
    BY DEF Changes, ResetInputController, ResetMarkerReader
  <2>2. kept \subseteq Fields \ gone
    BY DEF Fields
  <2> HIDE DEF gone, kept, e
  <2> QED
    BY <1>0, <2>1, <2>2 DEF Changes
<1> HIDE DEF e
<1>3. /\ e.words = d.words /\ e.pos = d.pos /\ e.loaded = d.loaded /\ e.save = d.save
      /\ e.inputRow = d.inputRow /\ e.outputRow = d.outputRow /\ e.scanline = d.scanline /\ e.st = d.st
  BY <1>2
<1>4. /\ e.ctr = d.ctr /\ e.voff = d.voff /\ e.rowsPer = d.rowsPer /\ e.buf = d.buf /\ e.image = d.image
      /\ e.row = d.row /\ e.dummy = d.dummy
  BY <1>2
<1>5. Object(e) /\ Stream(e) /\ Buffer(e) /\ Places(e)
  BY <1>0, <1>1, <1>3, <1>4 DEF Typed, Object, Stream, StreamEnd, Buffer, Places
<1>6. Components(e)
  <2>1. <<>> \in Seq(Nat)
    OBVIOUS
  <2>2. DOMAIN NoComps = {"image", "info"} /\ NoComps.info \in Seq(Nat)
    BY <2>1 DEF NoComps
  <2> QED
    BY <1>1, <2>2 DEF Components
<1>7. Heading(e)
  BY <1>1, <1>5, <1>6 DEF Heading, Reader, Reading, Begun, Saving
<1>8. Typed(e)
  BY <1>0, <1>1, <1>3, <1>4, <1>5 DEF Typed, GlobalStates, ConsumeMethods
<1>9. Sound(e)
  BY <1>1, <1>4, <1>7, <1>8 DEF Sound, Passive, Active, Output, Buffered
<1> QED
  BY <1>1, <1>4, <1>9 DEF e

\* One turn of a call: what the caller gets, and that it has not given up the image
\* when it goes on.
Turned(d, e) ==
  /\ Sound(e)
  /\ e.row = <<>> \/ (d.gstate = "scanning" /\ e.gstate = "scanning" /\ e.scanline = d.scanline + 1)
  /\ d.gstate = "scanning" /\ e.gstate = "scanning" => d.scanline <= e.scanline
  /\ e.st = "again" => e.gstate # "start"

LEMMA TurnedSame ==
  ASSUME NEW d, Sound(d), d.row = <<>>, NEW e, Sound(e), e.row = d.row, e.gstate = d.gstate, e.scanline = d.scanline,
         e.gstate # "start" \/ e.st # "again"
  PROVE  Turned(d, e)
BY DEF Turned, Sound, Typed, Places

LEMMA TurnedFail ==
  ASSUME NEW d, Sound(d), d.row = <<>>
  PROVE  Turned(d, Fail(d))
<1>1. Fail(d).row = d.row /\ Fail(d).gstate = d.gstate /\ Fail(d).scanline = d.scanline /\ Fail(d).st = "error"
  BY DEF Fail, Sound, Typed, Object, Fields
<1> QED
  BY <1>1, SoundOutcome, TurnedSame

LEMMA ConsumeInputTurned ==
  ASSUME NEW d, Sound(d), d.row = <<>>, d.gstate = "start" => d.image <= MaxImages
  PROVE  LET e == ConsumeInput(d)
         IN /\ Turned(d, e)
            /\ d.gstate \in Passive => e.gstate # "start" /\ e.row = <<>> /\ (e.st = "eoi" => e.pos > 1)
<1> DEFINE Good(e) == Turned(d, e) /\ e.gstate # "start" /\ e.row = <<>> /\ (e.st = "eoi" => e.pos > 1)
           begun == [ResetInputController(d) EXCEPT !.gstate = "inheader"]
<1>1. CASE d.gstate = "start"
  <2>1. Sound(begun) /\ begun.gstate = "inheader" /\ begun.row = d.row
    BY <1>1, ResetSound
  <2>2. ConsumeInput(d) = HeaderRead(Consume(begun))
    BY <1>1 DEF ConsumeInput
  <2> HIDE DEF begun
  <2>3. Good(ConsumeInput(d))
    BY <1>1, <2>1, <2>2, ConsumeHeaderSound DEF Turned
  <2> QED
    BY <2>3
<1>2. CASE d.gstate = "inheader"
  <2>1. ConsumeInput(d) = HeaderRead(Consume(d))
    BY <1>2 DEF ConsumeInput
  <2>2. Good(ConsumeInput(d))
    BY <1>2, <2>1, ConsumeHeaderSound DEF Turned
  <2> QED
    BY <2>2
<1>3. CASE d.gstate = "ready"
  <2> DEFINE e == [d EXCEPT !.st = "sos"]
  <2>1. ConsumeInput(d) = e
    BY <1>3 DEF ConsumeInput
  <2>2. Changes(d, e, {"st"}) /\ e.st = "sos" /\ e.row = d.row /\ e.gstate = d.gstate /\ e.scanline = d.scanline
    BY DEF Changes, Sound, Typed, Object, Fields
  <2> HIDE DEF e
  <2>3. Sound(e)
    BY <2>2, SoundSame DEF SoundFields, RunningFields, Outcomes
  <2> QED
    BY <1>3, <2>1, <2>2, <2>3, TurnedSame DEF Passive
<1>4. CASE d.gstate = "rdcoefs"
  BY <1>4, TurnedFail DEF ConsumeInput, Passive
<1>5. CASE d.gstate \notin {"start", "inheader", "ready", "rdcoefs"}
  <2> DEFINE e == Consume(d)
  <2>1. ConsumeInput(d) = e
    BY <1>5 DEF ConsumeInput
  <2>2. Runs(d, e)
    BY <1>5, ConsumeRuns DEF Sound, Passive
  <2> HIDE DEF e
  <2>3. Sound(e) /\ e.gstate = d.gstate /\ e.scanline = d.scanline /\ e.row = d.row
    BY <1>5, <2>2, SoundRuns DEF Passive
  <2> QED
    BY <1>5, <2>1, <2>3, TurnedSame DEF Passive
<1> QED
  BY <1>1, <1>2, <1>3, <1>4, <1>5

LEMMA ReadHeaderTurned ==
  ASSUME NEW d, Sound(d), d.row = <<>>, d.gstate = "start" => d.image <= MaxImages
  PROVE  Turned(d, ReadHeader(d))
<1> DEFINE r == ConsumeInput(d)
           a == JpegAbort(r)
           ended == [a EXCEPT !.st = "eoi"]
<1>1. CASE d.gstate \notin {"start", "inheader"}
  BY <1>1, TurnedFail DEF ReadHeader
<1>2. CASE d.gstate \in {"start", "inheader"}
  <2>1. ReadHeader(d) = IF r.st = "eoi" THEN ended ELSE r
    BY <1>2 DEF ReadHeader, HeaderOrTables
  <2>2. Turned(d, r) /\ r.gstate # "start" /\ (r.st = "eoi" => r.pos > 1)
    BY <1>2, ConsumeInputTurned DEF Passive
  <2> HIDE DEF r
  <2>3. ASSUME r.st = "eoi" PROVE Turned(d, ended)
    <3>1. Sound(a) /\ a.gstate = "start" /\ a.row = <<>> /\ Object(a)
      BY <2>2, <2>3, AbortSound DEF Turned
    <3> HIDE DEF a
    <3>2. Changes(a, ended, {"st"}) /\ ended.st = "eoi" /\ ended.row = a.row /\ ended.gstate = a.gstate
      BY <3>1 DEF Changes, Object, Fields
    <3> HIDE DEF ended
    <3>3. Sound(ended)
      BY <3>1, <3>2, SoundSame DEF SoundFields, RunningFields, Outcomes
    <3> QED
      BY <3>1, <3>2, <3>3 DEF Turned
  <2> HIDE DEF ended
  <2> QED
    BY <2>1, <2>2, <2>3
<1> QED
  BY <1>1, <1>2

LEMMA RunsGoOn ==
  ASSUME NEW d, NEW r, Runs(d, r)
  PROVE  Runs(d, GoOn(r)) /\ GoOn(r).st \in {"again", "susp", "error"} /\ Changes(r, GoOn(r), {"st"})
<1> DEFINE e == GoOn(r)
<1>1. Changes(r, e, {"st"}) /\ e.st \in {"again", "susp", "error"}
  BY DEF GoOn, Changes, Runs, Running, Reader, Reading, Object, Fields
<1> HIDE DEF e
<1>2. Runs(d, e)
  BY <1>1, RunsSame DEF RunningFields, ConsumeFields, MarkerFields
<1> QED
  BY <1>1, <1>2 DEF e

\* One turn of the output side: no row, or the next one.
Puts(d, e) ==
  /\ Running(e) /\ Changes(d, e, OutputFields) /\ DOMAIN e.coefs = DOMAIN d.coefs /\ e.multi = d.multi
  /\ e.st \in {"again", "row", "scan", "susp", "error"}
  /\ e.consume = "data" => e.fullBuffer
  /\ e.st \notin {"row", "scan"} => e.outputRow = d.outputRow /\ e.row = d.row
  /\ e.st \in {"row", "scan"} => e.outputRow = d.outputRow + 1
  /\ ~d.fullBuffer => e.inputRow = e.outputRow /\ (e.outputRow < TotalRows => e.consume = "dummy")

\* What DecompressOnepass and Delivered make of the row.
Given(d, row) == [d EXCEPT !.row = row]

LEMMA OnepassPuts ==
  ASSUME NEW d, Running(d), ~d.fullBuffer, d.consume = "dummy", d.inputRow = d.outputRow
  PROVE  Puts(d, DecompressOnepass(d))
<1> DEFINE z == Zeroed(d)
           m == DecodeMcu(z)
           n == NextMcu(m, 1)
           e == DeliverRow(n)
<1>1. Working(d) /\ Scanned(d) /\ d.inputRow < TotalRows
  BY FrameScanned DEF Running, Reader, Reading, Working
<1>2. Changes(d, z, {"coefs"}) /\ Works(d, z)
  BY <1>1, ZeroedWorks DEF Changes, Zeroed
<1> HIDE DEF z
<1>3. Changes(d, z, McuFields)
  BY <1>2, ChangesMore DEF McuFields
<1>4. /\ Running(z) /\ z.outputRow = d.outputRow /\ z.inputRow = d.inputRow /\ z.consume = d.consume
      /\ z.multi = d.multi /\ z.fullBuffer = d.fullBuffer /\ DOMAIN z.coefs = DOMAIN d.coefs
  BY <1>2, <1>3, RunningMcu DEF Works
<1>5. /\ Running(m) /\ Changes(z, m, McuFields) /\ m.st \in {"ok", "susp", "error"}
      /\ DOMAIN m.coefs = DOMAIN z.coefs
      /\ m.outputRow = z.outputRow /\ m.inputRow = z.inputRow /\ m.consume = z.consume
      /\ m.multi = z.multi /\ m.fullBuffer = z.fullBuffer
  BY <1>4, DecodeMcuRuns
<1>6. DecompressOnepass(d) = IF m.st = "ok" THEN e ELSE m
  BY DEF DecompressOnepass, Then, z
<1> HIDE DEF m
<1>7. Changes(d, m, McuFields) /\ m.row = d.row
  <2>1. Changes(d, m, McuFields)
    BY <1>3, <1>5, ChangesAfter
  <2> QED
    BY <2>1 DEF Changes, McuFields, Running, Reader, Reading, Object, Fields
<1>8. Changes(d, m, OutputFields)
  BY <1>7, ChangesMore DEF OutputFields, ConsumeFields
<1>9. ASSUME m.st # "ok" PROVE Puts(d, m)
  BY <1>4, <1>5, <1>7, <1>8, <1>9 DEF Puts
<1>10. ASSUME m.st = "ok" PROVE Puts(d, e)
  <2>1. m.outputRow + 1 <= TotalRows
    BY <1>1, <1>4, <1>5, TotalRowsNat DEF Running, Places
  <2>2. /\ Running(n) /\ Changes(m, n, RowFields) /\ n.st \in {"again", "row", "scan"}
        /\ n.st = "again" => /\ n.inputRow = m.inputRow /\ n.outputRow = m.outputRow
                             /\ n.consume = m.consume
        /\ n.st # "again" => n.inputRow = m.inputRow + 1 /\ n.outputRow = m.outputRow + 1
        /\ n.st = "row" => n.inputRow < TotalRows /\ n.consume = m.consume
        /\ n.st = "scan" => n.inputRow = TotalRows /\ n.consume = "markers"
    BY <1>4, <1>5, <2>1, NextMcuRuns
  <2> HIDE DEF n
  <2>3. \E row : e = IF n.st = "again" THEN n ELSE Given(n, row)
    BY DEF DeliverRow, Given
  <2>4. PICK row : e = IF n.st = "again" THEN n ELSE Given(n, row)
    BY <2>3
  <2> HIDE DEF e
  <2>5. Changes(n, e, {"row"}) /\ (n.st = "again" => e = n)
    BY <2>4 DEF Given, Changes
  <2>6. Running(e) /\ e.inputRow = n.inputRow /\ e.outputRow = n.outputRow /\ e.consume = n.consume
    BY <2>2, <2>5, RunningSame DEF RunningFields
  <2>7. /\ e.st = n.st /\ e.multi = n.multi /\ e.fullBuffer = n.fullBuffer /\ e.coefs = n.coefs
        /\ n.multi = m.multi /\ n.fullBuffer = m.fullBuffer /\ n.coefs = m.coefs /\ n.row = m.row
    BY <1>5, <2>2, <2>5 DEF Changes, RowFields, Running, Reader, Reading, Object, Fields
  <2>8. Changes(d, e, OutputFields)
    <3>1. Changes(m, n, OutputFields) /\ Changes(n, e, OutputFields)
      BY <2>2, <2>5, ChangesMore DEF OutputFields, ConsumeFields, PassFields
    <3>2. Changes(d, n, OutputFields)
      BY <1>8, <3>1, ChangesAfter
    <3> QED
      BY <3>1, <3>2, ChangesAfter
  <2>9. e.consume # "data"
    BY <1>4, <1>5, <2>2, <2>6
  <2>10. ASSUME n.st = "again" PROVE e = n /\ e.outputRow = d.outputRow /\ e.inputRow = d.inputRow /\ e.consume = "dummy"
                                     /\ e.row = d.row
    BY <1>4, <1>5, <1>7, <2>2, <2>5, <2>7, <2>10
  <2>11. ASSUME n.st # "again" PROVE e.outputRow = d.outputRow + 1 /\ e.inputRow = e.outputRow
                                      /\ (e.outputRow < TotalRows => e.consume = "dummy")
    BY <1>4, <1>5, <2>2, <2>6, <2>11, TotalRowsNat
  <2> QED
    BY <1>4, <1>5, <2>2, <2>6, <2>7, <2>8, <2>9, <2>10, <2>11 DEF Puts
<1> QED
  BY <1>6, <1>9, <1>10

LEMMA DeliveredPuts ==
  ASSUME NEW d, Running(d), d.fullBuffer, d.outputRow < TotalRows, NEW row
  PROVE  Puts(d, Delivered(d, row))
<1> DEFINE e == Delivered(d, row)
<1>0. DOMAIN d = Fields /\ Object(d)
  BY DEF Running, Reader, Reading, Object
<1>1. Changes(d, e, {"row", "outputRow", "st"}) /\ e.outputRow = d.outputRow + 1 /\ e.st \in {"row", "scan"}
  BY <1>0 DEF Changes, Delivered, Fields
<1> HIDE DEF e
<1>2. /\ e.comps = d.comps /\ e.cur = d.cur /\ e.image = d.image /\ e.sawSOF = d.sawSOF /\ e.scan = d.scan
      /\ e.inheaders = d.inheaders /\ e.words = d.words /\ e.pos = d.pos /\ e.loaded = d.loaded
      /\ e.save = d.save /\ e.unread = d.unread /\ e.buf = d.buf /\ Object(e)
  BY <1>0, <1>1 DEF Changes, Object, Fields
<1>3. /\ e.inputRow = d.inputRow /\ e.scanline = d.scanline /\ e.ctr = d.ctr /\ e.voff = d.voff
      /\ e.rowsPer = d.rowsPer /\ e.consume = d.consume /\ e.multi = d.multi /\ e.coefs = d.coefs
      /\ e.fullBuffer = d.fullBuffer
  BY <1>0, <1>1, ZenonT(40) DEF Changes, Object, Fields
<1>4. e.outputRow \in 0 .. TotalRows
  BY <1>1, TotalRowsNat DEF Running, Places
<1>5. Reading(e) /\ Buffer(e) /\ Places(e)
  BY <1>2, <1>3, <1>4 DEF Running, Reader, Reading, Stream, StreamEnd, Begun, Buffer, Places
<1>6. Components(e) /\ Saving(e) /\ NumComps(e) = NumComps(d) /\ (ScanOfFrame(d) => ScanOfFrame(e))
  BY <1>2 DEF Running, Reader, Components, Saving, NumComps, ScanOfFrame
<1>7. Running(e)
  BY <1>2, <1>3, <1>5, <1>6 DEF Running, Reader
<1>8. Changes(d, e, OutputFields)
  BY <1>1, ChangesMore DEF OutputFields, ConsumeFields, PassFields, RowFields
<1> QED
  BY <1>1, <1>3, <1>7, <1>8 DEF Puts, e

LEMMA DecompressPuts ==
  ASSUME NEW d, Running(d), Passing(d), d.gstate \in Output, d.outputRow < TotalRows
  PROVE  Puts(d, Decompress(d))
<1> DEFINE r == Consume(d)
<1>1. CASE ~d.fullBuffer
  <2>1. d.inputRow = d.outputRow /\ d.consume = "dummy"
    BY <1>1 DEF Passing, Output
  <2> QED
    BY <1>1, <2>1, OnepassPuts DEF Decompress
<1>2. CASE d.fullBuffer
  <2>1. Puts(d, GoOn(r))
    <3> DEFINE e == GoOn(r)
    <3>1. Runs(d, e) /\ e.st \in {"again", "susp", "error"}
      BY ConsumeRuns, RunsGoOn
    <3> HIDE DEF e
    <3>2. Changes(d, e, OutputFields)
      BY <3>1, ChangesMore DEF Runs, OutputFields
    <3>3. e.row = d.row /\ e.fullBuffer = d.fullBuffer
      BY <3>1 DEF Runs, Changes, ConsumeFields, MarkerFields, McuFields, PassFields, EntropyFields, RowFields,
                  Running, Reader, Reading, Object, Fields
    <3>4. Puts(d, e)
      BY <1>2, <3>1, <3>2, <3>3 DEF Puts, Runs
    <3> QED
      BY <3>4 DEF e
  <2>2. Puts(d, Delivered(d, EmitRows(d, d.outputRow, LAMBDA ci, y, x : PlainAc(d, ci, y, x))))
    BY <1>2, DeliveredPuts
  <2>3. Puts(d, Delivered(d, EmitRows(d, d.outputRow, LAMBDA ci, y, x : SmoothAc(d, ci, y, x))))
    BY <1>2, DeliveredPuts
  <2> QED
    BY <1>2, <2>1, <2>2, <2>3 DEF Decompress, DecompressSmoothData, DecompressData
<1> QED
  BY <1>1, <1>2

LEMMA RunningRows ==
  ASSUME NEW d, Running(d), NEW e, NEW F, Changes(d, e, F), F \cap (RunningFields \ {"scanline", "outputRow"}) = {},
         e.scanline \in 0 .. TotalRows, e.outputRow \in 0 .. TotalRows
  PROVE  Running(e) /\ e.inputRow = d.inputRow /\ e.consume = d.consume
<1> DEFINE kept == RunningFields \ {"scanline", "outputRow"}
<1>0. DOMAIN e = Fields /\ \A f \in kept : e[f] = d[f]
  BY DEF Changes, RunningFields, Running, Reader, Reading, Object, Fields
<1>1. /\ e.comps = d.comps /\ e.cur = d.cur /\ e.image = d.image /\ e.sawSOF = d.sawSOF /\ e.scan = d.scan
      /\ e.inheaders = d.inheaders /\ e.words = d.words /\ e.pos = d.pos /\ e.loaded = d.loaded
      /\ e.save = d.save /\ e.unread = d.unread /\ e.buf = d.buf /\ Object(e)
  BY <1>0 DEF RunningFields, Object
<1>2. /\ e.inputRow = d.inputRow /\ e.ctr = d.ctr /\ e.voff = d.voff /\ e.rowsPer = d.rowsPer
      /\ e.consume = d.consume
  BY <1>0 DEF RunningFields
<1>3. Reading(e) /\ Buffer(e) /\ Places(e)
  BY <1>1, <1>2 DEF Running, Reader, Reading, Stream, StreamEnd, Begun, Buffer, Places
<1>4. Components(e) /\ Saving(e) /\ NumComps(e) = NumComps(d) /\ (ScanOfFrame(d) => ScanOfFrame(e))
  BY <1>1 DEF Running, Reader, Components, Saving, NumComps, ScanOfFrame
<1> QED
  BY <1>1, <1>2, <1>3, <1>4 DEF Running, Reader

\* An object whose rows are put out.
Delivering(e, image) ==
  /\ Running(e) /\ Passing(e) /\ Putting(e)
  /\ e.gstate \in Output /\ e.st \in Outcomes /\ e.image = image
  /\ e.dummy => e.gstate = "prescan"

LEMMA DeliveringSound ==
  ASSUME NEW image \in 1 .. MaxImages, NEW e, Delivering(e, image)
  PROVE  Sound(e)
<1>1. image <= MaxImages /\ image \in 1 .. MaxImages + 1
  BY ImagesAssumption
<1>2. e.gstate \in {"prescan", "scanning"}
  BY DEF Delivering, Output
<1>3. Typed(e)
  BY <1>1, <1>2 DEF Delivering, Typed, GlobalStates, Running, Reader, Reading
<1> QED
  BY <1>1, <1>2, <1>3 DEF Delivering, Sound, Passive, Active, Output, Buffered

LEMMA RowGotSound ==
  ASSUME NEW d, Sound(d), d.gstate \in Output, d.scanline < TotalRows, ~FromPost(d), NEW r, Puts(d, r)
  PROVE  LET e == RowGot(r)
         IN /\ Sound(e) /\ e.gstate = d.gstate /\ e.dummy = d.dummy
            /\ (e.scanline = d.scanline /\ e.row = d.row) \/ e.scanline = d.scanline + 1
<1> DEFINE e == RowGot(r)
<1>0. /\ Running(d) /\ Passing(d) /\ Putting(d) /\ d.image \in 1 .. MaxImages
      /\ d.dummy => d.gstate = "prescan"
  BY ImagesAssumption DEF Sound, Typed, Passive, Active, Output
<1>1. /\ r.gstate = d.gstate /\ r.dummy = d.dummy /\ r.scanline = d.scanline /\ r.post = d.post
      /\ r.buffered = d.buffered /\ r.fullBuffer = d.fullBuffer /\ r.image = d.image
  BY <1>0 DEF Puts, Changes, OutputFields, ConsumeFields, MarkerFields, McuFields, PassFields, EntropyFields, RowFields,
              Running, Reader, Reading, Object, Fields
<1>2. Passing(r)
  BY <1>0, <1>1 DEF Puts, Passing, Output
<1>3. CASE r.st \notin {"row", "scan"}
  <2>1. e = r
    BY <1>3 DEF RowGot
  <2>2. r.outputRow = d.outputRow /\ r.row = d.row
    BY <1>3 DEF Puts
  <2>3. Putting(r)
    BY <1>0, <1>1, <2>2 DEF Putting, FromPost
  <2>4. Delivering(r, d.image)
    BY <1>0, <1>1, <1>2, <2>3 DEF Delivering, Puts, Outcomes
  <2> QED
    BY <1>0, <1>1, <2>1, <2>2, <2>4, DeliveringSound
<1>4. CASE r.st \in {"row", "scan"}
  <2>0. DOMAIN r = Fields /\ Running(r)
    BY DEF Puts, Running, Reader, Reading, Object
  <2>1. /\ Changes(r, e, {"scanline", "post"}) /\ e.scanline = r.scanline + 1
        /\ e.post = IF r.dummy THEN Append(r.post, r.row) ELSE r.post
    BY <1>4, <2>0 DEF RowGot, Changes, Fields
  <2> HIDE DEF e
  <2>2. /\ r.outputRow = d.outputRow + 1 /\ d.outputRow = d.scanline
        /\ e.scanline \in 0 .. TotalRows /\ e.scanline = d.scanline + 1
    BY <1>0, <1>1, <1>4, <2>1, TotalRowsNat DEF Puts, Putting, Running, Places
  <2>3. e.outputRow = r.outputRow
    BY <2>0, <2>1 DEF Changes, Fields
  <2>4. Running(e) /\ e.inputRow = r.inputRow /\ e.consume = r.consume
    BY <2>0, <2>1, <2>2, <2>3, RunningRows DEF RunningFields
  <2>5. /\ e.gstate = r.gstate /\ e.dummy = r.dummy /\ e.buffered = r.buffered /\ e.multi = r.multi
        /\ e.fullBuffer = r.fullBuffer /\ e.image = r.image /\ e.st = r.st /\ e.coefs = r.coefs
    BY <2>0, <2>1 DEF Changes, Fields
  <2>6. Passing(e)
    BY <1>2, <2>3, <2>4, <2>5 DEF Passing
  <2>7. Putting(e)
    <3>1. e.outputRow = e.scanline
      BY <2>2, <2>3
    <3>2. ASSUME d.dummy PROVE (\E V : e.post \in Seq(V)) /\ Len(e.post) = e.scanline
      <4>1. PICK V : d.post \in Seq(V)
        BY <1>0, <3>2 DEF Putting
      <4>2. e.post = Append(d.post, r.row) /\ d.post \in Seq(V \cup {r.row})
        BY <1>1, <2>1, <3>2, <4>1
      <4>3. e.post \in Seq(V \cup {r.row}) /\ Len(e.post) = Len(d.post) + 1
        BY <4>2
      <4> QED
        BY <1>0, <2>2, <3>2, <4>3 DEF Putting
    <3> QED
      BY <1>1, <2>5, <3>1, <3>2 DEF Putting
  <2>8. Delivering(e, d.image)
    BY <1>0, <1>1, <1>4, <2>4, <2>5, <2>6, <2>7 DEF Delivering, Outcomes
  <2> QED
    BY <1>0, <1>1, <2>2, <2>5, <2>8, DeliveringSound DEF e
<1> QED
  BY <1>3, <1>4

LEMMA ProcessDataSound ==
  ASSUME NEW d, Sound(d), d.gstate \in Output, d.scanline < TotalRows
  PROVE  LET e == ProcessData(d)
         IN /\ Sound(e) /\ e.gstate = d.gstate /\ e.dummy = d.dummy
            /\ (e.scanline = d.scanline /\ e.row = d.row) \/ e.scanline = d.scanline + 1
<1> DEFINE e == ProcessData(d)
<1>0. /\ Running(d) /\ Passing(d) /\ Putting(d) /\ d.image \in 1 .. MaxImages
      /\ d.dummy => d.gstate = "prescan"
  BY ImagesAssumption DEF Sound, Typed, Passive, Active, Output
<1>1. CASE ~FromPost(d)
  <2>1. d.outputRow < TotalRows
    BY <1>0, <1>1 DEF Putting
  <2>2. Puts(d, Decompress(d))
    BY <1>0, <2>1, DecompressPuts
  <2>3. ProcessData(d) = RowGot(Decompress(d))
    BY <1>1 DEF ProcessData
  <2> QED
    BY <1>1, <2>2, <2>3, RowGotSound
<1>2. CASE FromPost(d)
  <2>0. DOMAIN d = Fields
    BY <1>0 DEF Running, Reader, Reading, Object
  <2>1. Changes(d, e, {"row", "scanline", "st"}) /\ e.scanline = d.scanline + 1 /\ e.st = "row"
    BY <1>2, <2>0 DEF ProcessData, Changes, Fields
  <2> HIDE DEF e
  <2>2. /\ e.outputRow = d.outputRow /\ e.gstate = d.gstate /\ e.dummy = d.dummy /\ e.buffered = d.buffered
        /\ e.multi = d.multi /\ e.fullBuffer = d.fullBuffer /\ e.image = d.image /\ e.coefs = d.coefs
        /\ e.post = d.post
    BY <2>0, <2>1 DEF Changes, Fields
  <2>3. e.scanline \in 0 .. TotalRows /\ e.outputRow \in 0 .. TotalRows
    BY <1>0, <2>1, <2>2, TotalRowsNat DEF Running, Places
  <2>4. Running(e) /\ e.inputRow = d.inputRow /\ e.consume = d.consume
    BY <1>0, <2>1, <2>3, RunningRows DEF RunningFields
  <2>5. Passing(e) /\ Putting(e)
    BY <1>0, <1>2, <2>2, <2>4 DEF Passing, Putting, FromPost
  <2>6. Delivering(e, d.image)
    BY <1>0, <2>1, <2>2, <2>4, <2>5 DEF Delivering, Outcomes
  <2> QED
    BY <1>0, <2>1, <2>2, <2>6, DeliveringSound DEF e
<1> QED
  BY <1>1, <1>2

LEMMA ReadScanlinesTurned ==
  ASSUME NEW d, Sound(d), d.row = <<>>
  PROVE  Turned(d, ReadScanlines(d))
<1>1. CASE d.gstate # "scanning"
  BY <1>1, TurnedFail DEF ReadScanlines
<1>2. CASE d.gstate = "scanning" /\ d.scanline >= TotalRows
  <2>1. Ok(d).row = d.row /\ Ok(d).gstate = d.gstate /\ Ok(d).scanline = d.scanline /\ Ok(d).st = "ok"
    BY DEF Ok, Sound, Typed, Object, Fields
  <2>2. Turned(d, Ok(d))
    BY <2>1, SoundOutcome, TurnedSame
  <2> QED
    BY <1>2, <2>2 DEF ReadScanlines
<1>3. CASE d.gstate = "scanning" /\ ~(d.scanline >= TotalRows)
  <2> DEFINE e == ProcessData(d)
  <2>1. d.scanline < TotalRows /\ d.scanline \in Nat
    BY <1>3, TotalRowsNat DEF Sound, Typed, Places
  <2>2. /\ Sound(e) /\ e.gstate = d.gstate
        /\ (e.scanline = d.scanline /\ e.row = d.row) \/ e.scanline = d.scanline + 1
    BY <1>3, <2>1, ProcessDataSound DEF Output
  <2>3. ReadScanlines(d) = e
    BY <1>3 DEF ReadScanlines
  <2> HIDE DEF e
  <2>4. Turned(d, e)
    BY <1>3, <2>1, <2>2 DEF Turned
  <2> QED
    BY <2>3, <2>4
<1> QED
  BY <1>1, <1>2, <1>3

LEMMA DummyTurnSound ==
  ASSUME NEW d, Sound(d), d.gstate = "prescan", d.row = <<>>
  PROVE  LET e == DummyTurn(d)
         IN Sound(e) /\ e.gstate \in Output /\ e.row = <<>>
<1>0. /\ Running(d) /\ Passing(d) /\ Putting(d) /\ d.image \in 1 .. MaxImages /\ DOMAIN d = Fields
  BY ImagesAssumption DEF Sound, Typed, Passive, Active, Output, Object
<1>1. CASE ~d.dummy
  <2> DEFINE e == [d EXCEPT !.gstate = "scanning", !.st = "ok"]
  <2>1. DummyTurn(d) = e
    BY <1>1 DEF DummyTurn
  <2>2. Changes(d, e, {"gstate", "st"}) /\ e.gstate = "scanning" /\ e.st = "ok"
    BY <1>0 DEF Changes, Fields
  <2> HIDE DEF e
  <2>3. /\ Running(e) /\ e.inputRow = d.inputRow /\ e.outputRow = d.outputRow /\ e.consume = d.consume
    BY <1>0, <2>2, RunningSame DEF RunningFields
  <2>4. /\ e.dummy = d.dummy /\ e.buffered = d.buffered /\ e.multi = d.multi /\ e.fullBuffer = d.fullBuffer
        /\ e.image = d.image /\ e.coefs = d.coefs /\ e.post = d.post /\ e.scanline = d.scanline /\ e.row = d.row
    BY <1>0, <2>2 DEF Changes, Fields
  <2>5. Passing(e) /\ Putting(e)
    BY <1>0, <1>1, <2>2, <2>3, <2>4 DEF Passing, Putting, FromPost, Buffered
  <2>6. Delivering(e, d.image)
    BY <1>1, <2>2, <2>3, <2>4, <2>5 DEF Delivering, Outcomes, Output
  <2> QED
    BY <1>0, <2>1, <2>2, <2>4, <2>6, DeliveringSound DEF Output
<1>2. CASE d.dummy /\ d.scanline < TotalRows
  <2> DEFINE p == ProcessData(d)
             q == [p EXCEPT !.row = <<>>]
             e == GoOn(q)
  <2>1. DummyTurn(d) = e
    BY <1>2 DEF DummyTurn
  <2>2. Sound(p) /\ p.gstate = "prescan"
    BY <1>2, ProcessDataSound DEF Output
  <2> HIDE DEF p
  <2>3. DOMAIN p = Fields /\ p.st \in Outcomes
    BY <2>2 DEF Sound, Typed, Object
  <2>4. Changes(p, q, {"row"}) /\ q.row = <<>> /\ q.st = p.st /\ q.gstate = p.gstate
    BY <2>3 DEF Changes, Fields
  <2> HIDE DEF q
  <2>5. Sound(q)
    BY <2>2, <2>3, <2>4, SoundSame DEF SoundFields, RunningFields
  <2>6. Sound(e) /\ Changes(q, e, {"st"})
    BY <2>5, SoundOutcome
  <2>7. e.row = q.row /\ e.gstate = q.gstate
    BY <2>3, <2>4, <2>6 DEF Changes, Fields
  <2> QED
    BY <2>1, <2>2, <2>4, <2>6, <2>7 DEF Output
<1>3. CASE d.dummy /\ ~(d.scanline < TotalRows)
  <2> DEFINE f == FinishOutputPass(d)
             p == PrepareForOutputPass(f)
             e == [p EXCEPT !.scanline = 0, !.st = "again"]
  <2>1. DummyTurn(d) = e
    BY <1>3 DEF DummyTurn
  <2>2. Changes(d, f, {"colormap"}) /\ f.dummy = d.dummy
    BY <1>0 DEF Changes, FinishOutputPass, Fields
  <2> HIDE DEF f
  <2>3. p = [f EXCEPT !.dummy = FALSE]
    BY <1>3, <2>2 DEF PrepareForOutputPass
  <2>4. Changes(f, e, {"dummy", "scanline", "st"}) /\ e.dummy = FALSE /\ e.scanline = 0 /\ e.st = "again"
    BY <1>0, <2>2, <2>3 DEF Changes, Fields
  <2> HIDE DEF e
  <2>5. Changes(d, e, {"colormap", "dummy", "scanline", "st"})
    BY <1>0, <2>2, <2>4 DEF Changes
  <2>6. /\ e.outputRow = d.outputRow /\ e.gstate = d.gstate /\ e.buffered = d.buffered
        /\ e.multi = d.multi /\ e.fullBuffer = d.fullBuffer /\ e.image = d.image /\ e.coefs = d.coefs
        /\ e.post = d.post /\ e.row = d.row
    BY <1>0, <2>5 DEF Changes, Fields
  <2>7. e.scanline \in 0 .. TotalRows /\ e.outputRow \in 0 .. TotalRows
    BY <1>0, <2>4, <2>6, TotalRowsNat DEF Running, Places
  <2>8. Running(e) /\ e.inputRow = d.inputRow /\ e.consume = d.consume
    BY <1>0, <2>5, <2>7, RunningRows DEF RunningFields
  <2>9. e.post # <<>>
    <3>1. Len(d.post) = d.scanline /\ d.scanline # 0
      BY <1>0, <1>3, TotalRowsNat DEF Putting, Running, Places
    <3> QED
      BY <2>6, <3>1
  <2>10. Passing(e) /\ Putting(e)
    BY <1>0, <2>4, <2>6, <2>8, <2>9 DEF Passing, Putting, FromPost
  <2>11. Delivering(e, d.image)
    BY <2>4, <2>6, <2>8, <2>10 DEF Delivering, Outcomes, Output
  <2> QED
    BY <1>0, <2>1, <2>6, <2>11, DeliveringSound DEF Output
<1> QED
  BY <1>1, <1>2, <1>3

LEMMA OutputPassSound ==
  ASSUME NEW d, Sound(d), d.gstate \in {"preload", "bufimage", "prescan"}, d.row = <<>>
  PROVE  LET e == OutputPassSetup(d)
         IN Sound(e) /\ e.gstate \in Output /\ e.row = <<>>
<1>1. CASE d.gstate = "prescan"
  <2>1. OutputPassSetup(d) = DummyTurn(d)
    BY <1>1 DEF OutputPassSetup
  <2> QED
    BY <1>1, <2>1, DummyTurnSound
<1>2. CASE d.gstate \in {"preload", "bufimage"}
  <2> DEFINE p == PrepareForOutputPass(d)
             e == [p EXCEPT !.scanline = 0, !.gstate = "prescan"]
             F == {"smooth", "latch", "outputRow", "dummy", "post", "scanline", "gstate"}
  <2>0. /\ Running(d) /\ Passing(d) /\ d.image \in 1 .. MaxImages /\ DOMAIN d = Fields /\ ~d.dummy
        /\ d.st \in Outcomes
    BY <1>2, ImagesAssumption DEF Sound, Typed, Passive, Active, Buffered, Object
  <2>1. OutputPassSetup(d) = DummyTurn(e)
    BY <1>2 DEF OutputPassSetup
  <2>2. Changes(d, e, F) /\ e.scanline = 0 /\ e.gstate = "prescan" /\ e.outputRow = 0 /\ e.post = <<>>
    <3>1. Changes(d, CoefStartOutputPass(d), {"smooth", "latch", "outputRow"}) /\ CoefStartOutputPass(d).outputRow = 0
      BY <2>0 DEF Changes, CoefStartOutputPass, Fields
    <3> DEFINE s == CoefStartOutputPass(d)
    <3>2. p = [s EXCEPT !.dummy = d.quantize /\ ~d.colormap, !.post = <<>>]
      BY <2>0 DEF PrepareForOutputPass
    <3> HIDE DEF s
    <3>3. DOMAIN s = Fields
      BY <2>0, <3>1 DEF Changes, s
    <3>4. Changes(s, e, F) /\ e.scanline = 0 /\ e.gstate = "prescan" /\ e.outputRow = s.outputRow /\ e.post = <<>>
      BY <3>2, <3>3, ZenonT(40) DEF Changes, Fields
    <3> HIDE DEF e
    <3>5. Changes(d, s, F)
      BY <3>1, ChangesMore DEF s
    <3> QED
      BY <3>1, <3>4, <3>5, ChangesAfter DEF s
  <2> HIDE DEF e
  <2>3. /\ e.buffered = d.buffered /\ e.multi = d.multi /\ e.fullBuffer = d.fullBuffer /\ e.image = d.image
        /\ e.coefs = d.coefs /\ e.row = d.row /\ e.st = d.st
    BY <2>0, <2>2 DEF Changes, Fields
  <2>4. Running(e) /\ e.inputRow = d.inputRow /\ e.consume = d.consume
    BY <2>0, <2>2, RunningRows, TotalRowsNat DEF RunningFields
  <2>5. Passing(e)
    BY <1>2, <2>0, <2>2, <2>3, <2>4 DEF Passing, Buffered
  <2>6. Putting(e)
    <3>1. <<>> \in Seq({}) /\ Len(<<>>) = 0
      OBVIOUS
    <3> QED
      BY <2>2, <3>1 DEF Putting
  <2>7. Delivering(e, d.image)
    BY <2>0, <2>2, <2>3, <2>4, <2>5, <2>6 DEF Delivering, Output
  <2>8. Sound(e)
    BY <2>0, <2>7, DeliveringSound
  <2> QED
    BY <2>1, <2>2, <2>3, <2>8, DummyTurnSound
<1> QED
  BY <1>1, <1>2

LEMMA OutputPassTurned ==
  ASSUME NEW d, d.gstate # "scanning", NEW e, Sound(e), e.gstate # "start", e.row = <<>>
  PROVE  Turned(d, e)
BY DEF Turned

LEMMA StartOutputTurned ==
  ASSUME NEW d, Sound(d), d.row = <<>>, NEW n
  PROVE  Turned(d, StartOutput(d, n))
<1>1. CASE d.gstate \notin {"bufimage", "prescan"}
  BY <1>1, TurnedFail DEF StartOutput
<1>2. CASE d.gstate \in {"bufimage", "prescan"}
  <2>1. PICK scan : StartOutput(d, n) = OutputPassSetup([d EXCEPT !.outputScan = scan])
    BY <1>2 DEF StartOutput
  <2> DEFINE o == [d EXCEPT !.outputScan = scan]
  <2>2. Changes(d, o, {"outputScan"}) /\ o.gstate = d.gstate /\ o.row = d.row /\ o.st = d.st
    BY DEF Changes, Sound, Typed, Object, Fields
  <2> HIDE DEF o
  <2>3. Sound(o)
    BY <2>2, SoundSame DEF Sound, Typed, SoundFields, RunningFields
  <2> DEFINE e == OutputPassSetup(o)
  <2>4. Sound(e) /\ e.gstate \in Output /\ e.row = <<>>
    BY <1>2, <2>2, <2>3, OutputPassSound
  <2>5. StartOutput(d, n) = e
    BY <2>1 DEF o
  <2> HIDE DEF e
  <2>6. Turned(d, e)
    BY <1>2, <2>4, OutputPassTurned DEF Output
  <2> QED
    BY <2>5, <2>6
<1> QED
  BY <1>1, <1>2

\* The modules are there and the first input pass has begun.
Selects(s) ==
  /\ Running(s) /\ s.image \in 1 .. MaxImages /\ ~s.dummy /\ DOMAIN s.coefs # {}
  /\ s.consume = "data" => s.fullBuffer
  /\ s.multi \/ s.buffered => s.fullBuffer
  /\ ~s.fullBuffer => s.inputRow = 0 /\ s.consume = "dummy"

LEMMA SelectsSound ==
  ASSUME NEW s, Selects(s), NEW e, Changes(s, e, {"gstate", "st"}), e.gstate \in {"preload"} \cup Buffered,
         e.gstate \in Buffered => s.buffered, e.st \in Outcomes
  PROVE  Sound(e) /\ e.row = s.row
<1>0. DOMAIN s = Fields
  BY DEF Selects, Running, Reader, Reading, Object
<1>1. /\ e.dummy = s.dummy /\ e.buffered = s.buffered /\ e.multi = s.multi /\ e.fullBuffer = s.fullBuffer
      /\ e.image = s.image /\ e.coefs = s.coefs /\ e.row = s.row
  BY <1>0 DEF Changes, Fields
<1>2. Running(e) /\ e.inputRow = s.inputRow /\ e.consume = s.consume /\ e.outputRow = s.outputRow
  BY RunningSame DEF Selects, RunningFields
<1>3. Passing(e)
  BY <1>1, <1>2 DEF Selects, Passing, Buffered
<1>4. Typed(e)
  BY <1>1, <1>2, ImagesAssumption DEF Selects, Typed, Running, Reader, Reading, GlobalStates, Buffered
<1> QED
  BY <1>1, <1>2, <1>3, <1>4, ImagesAssumption DEF Selects, Sound, Passive, Active, Output, Buffered

LEMMA SelectionSelects ==
  ASSUME NEW d, Sound(d), d.gstate = "ready", d.row = <<>>,
         NEW o, Changes(d, o, {"coefBits", "fullBuffer", "coefs", "latch", "dummy", "buffered"}),
         DOMAIN o.coefs # {}, ~o.dummy, d.multi \/ o.buffered => o.fullBuffer
  PROVE  LET s == StartInputPass(o)
         IN /\ s.st \in {"ok", "error"} /\ s.row = <<>> /\ s.gstate = "ready" /\ s.buffered = o.buffered
            /\ s.st = "error" => Sound(s)
            /\ s.st = "ok" => Selects(s)
<1> DEFINE s == StartInputPass(o)
<1>0. /\ Running(d) /\ DOMAIN d = Fields /\ d.image \in 1 .. MaxImages /\ d.consume = "markers" /\ ScanOfFrame(d)
  BY ImagesAssumption DEF Sound, Typed, Passive, Object
<1>1. Running(o) /\ o.consume = d.consume
  BY <1>0, RunningSame DEF RunningFields
<1>2. /\ o.comps = d.comps /\ o.scan = d.scan /\ o.multi = d.multi /\ o.image = d.image /\ o.gstate = d.gstate
      /\ o.row = d.row /\ DOMAIN o = Fields
  BY <1>0 DEF Changes, Fields
<1>3. ScanOfFrame(o)
  BY <1>0, <1>2 DEF ScanOfFrame
<1>4. /\ Running(s) /\ Changes(o, s, PassFields) /\ s.st \in {"ok", "error"}
      /\ s.st = "ok" => s.inputRow = 0 /\ s.consume = IF o.fullBuffer THEN "data" ELSE "dummy"
      /\ s.st = "error" => s.inputRow = o.inputRow /\ s.consume = o.consume
  BY <1>0, <1>1, <1>3, StartInputPassRuns
<1> HIDE DEF s
<1>5. /\ s.comps = o.comps /\ s.scan = o.scan /\ s.multi = o.multi /\ s.image = o.image /\ s.gstate = o.gstate
      /\ s.row = o.row /\ s.dummy = o.dummy /\ s.buffered = o.buffered /\ s.fullBuffer = o.fullBuffer
      /\ s.coefs = o.coefs
  BY <1>2, <1>4 DEF Changes, PassFields, EntropyFields, RowFields, Fields
<1>6. ASSUME s.st = "error" PROVE Sound(s)
  <2>1. ScanOfFrame(s) /\ s.consume = "markers"
    BY <1>0, <1>1, <1>3, <1>4, <1>5, <1>6 DEF ScanOfFrame
  <2>2. Typed(s)
    BY <1>0, <1>2, <1>4, <1>5, <2>1, ImagesAssumption
       DEF Typed, Running, Reader, Reading, GlobalStates, ConsumeMethods, Outcomes
  <2> QED
    BY <1>0, <1>2, <1>4, <1>5, <2>1, <2>2, ImagesAssumption DEF Sound, Passive, Active, Output, Buffered
<1>7. ASSUME s.st = "ok" PROVE Selects(s)
  BY <1>0, <1>2, <1>4, <1>5, <1>7 DEF Selects
<1> QED
  BY <1>2, <1>4, <1>5, <1>6, <1>7 DEF s

LEMMA CoefControllerInitialized ==
  ASSUME NEW d, Sound(d), d.gstate = "ready", NEW full,
         NEW i, Changes(d, i, {"coefBits", "buffered"})
  PROVE  LET o == InitCoefController(i, full)
         IN /\ Changes(i, o, {"fullBuffer", "coefs", "latch"}) /\ o.fullBuffer = full
            /\ DOMAIN o.coefs # {}
<1> DEFINE o == InitCoefController(i, full)
<1>0. DOMAIN d = Fields /\ Components(d) /\ d.sawSOF
  BY DEF Sound, Typed, Object, Passive, Running, Reader
<1>1. DOMAIN i = Fields /\ i.comps = d.comps
  BY <1>0 DEF Changes, Fields
<1>2. /\ Changes(i, o, {"fullBuffer", "coefs", "latch"}) /\ o.fullBuffer = full
      /\ o.coefs = ZeroImage(NumComps(d))
  BY <1>1 DEF InitCoefController, Changes, Fields, NumComps
<1>3. NumComps(d) \in Nat \ {0}
  <2>1. d.comps.info \in Seq(Nat) /\ d.comps.info # <<>>
    BY <1>0 DEF Components
  <2> QED
    BY <2>1 DEF NumComps
<1>4. DOMAIN o.coefs = 1 .. NumComps(d)
  BY <1>2 DEF ZeroImage
<1>5. 1 \in DOMAIN o.coefs
  BY <1>3, <1>4
<1> QED
  BY <1>2, <1>5

\* What jpeg_start_decompress and jpeg_read_coefficients make of the selection.
Entered(m, state, outcome) == [m EXCEPT !.gstate = state, !.st = outcome]

LEMMA EnteredTurned ==
  ASSUME NEW d, Sound(d), d.gstate = "ready", d.row = <<>>,
         NEW s, Selects(s), s.row = <<>>, NEW state \in {"preload"} \cup Buffered, NEW outcome \in Outcomes,
         state \in Buffered => s.buffered
  PROVE  Turned(d, Entered(s, state, outcome))
<1> DEFINE e == Entered(s, state, outcome)
<1>1. Changes(s, e, {"gstate", "st"}) /\ e.gstate = state /\ e.st = outcome
  BY DEF Changes, Entered, Selects, Running, Reader, Reading, Object, Fields
<1> HIDE DEF e
<1>2. Sound(e) /\ e.row = <<>> /\ e.gstate # "start"
  BY <1>1, SelectsSound DEF Buffered
<1>3. Turned(d, e)
  BY <1>2, OutputPassTurned
<1> QED
  BY <1>3 DEF e

LEMMA SelectionFailed ==
  ASSUME NEW d, Sound(d), d.gstate = "ready", NEW s, Sound(s), s.row = <<>>, s.gstate = "ready"
  PROVE  Turned(d, s)
BY OutputPassTurned

LEMMA SelectedTurned ==
  ASSUME NEW d, Sound(d), d.gstate = "ready", d.row = <<>>
  PROVE  Turned(d, Then(MasterSelection(d), Selected))
<1> DEFINE i == InitEntropy(d)
           k == InitCoefController(i, d.multi \/ d.buffered)
           o == [k EXCEPT !.dummy = FALSE]
           s == StartInputPass(o)
<1>0. DOMAIN d = Fields
  BY DEF Sound, Typed, Object
<1>1. Changes(d, i, {"coefBits", "buffered"})
  BY DEF Changes, InitEntropy
<1> HIDE DEF i
<1>2. Changes(i, k, {"fullBuffer", "coefs", "latch"}) /\ k.fullBuffer = (d.multi \/ d.buffered) /\ DOMAIN k.coefs # {}
  BY <1>1, CoefControllerInitialized
<1>3. i.buffered = d.buffered
  BY <1>0 DEF InitEntropy, Fields, i
<1> HIDE DEF k
<1>4. Changes(k, o, {"dummy"}) /\ o.dummy = FALSE
  BY <1>0, <1>1, <1>2 DEF Changes, Fields
<1> HIDE DEF o
<1>5. Changes(d, o, {"coefBits", "fullBuffer", "coefs", "latch", "dummy", "buffered"})
  BY <1>1, <1>2, <1>4 DEF Changes
<1>6. o.fullBuffer = k.fullBuffer /\ o.coefs = k.coefs /\ o.buffered = d.buffered
  BY <1>0, <1>1, <1>2, <1>3, <1>4 DEF Changes, Fields
<1>7. /\ s.st \in {"ok", "error"} /\ s.row = <<>> /\ s.gstate = "ready" /\ s.buffered = o.buffered
      /\ s.st = "error" => Sound(s)
      /\ s.st = "ok" => Selects(s)
  <2>1. d.multi \/ o.buffered => o.fullBuffer
    BY <1>2, <1>6
  <2> QED
    BY <1>2, <1>4, <1>5, <1>6, <2>1, SelectionSelects
<1>8. MasterSelection(d) = s
  BY DEF MasterSelection, o, k, i
<1> HIDE DEF s
<1>9. ASSUME s.st = "ok" PROVE Turned(d, Selected(s))
  <2>1. CASE s.buffered
    <3>1. Selected(s) = Entered(s, "bufimage", "ok")
      BY <2>1 DEF Selected, Entered
    <3> QED
      BY <1>7, <1>9, <2>1, <3>1, EnteredTurned DEF Buffered, Outcomes
  <2>2. CASE ~s.buffered
    <3>1. Selected(s) = Entered(s, "preload", "again")
      BY <2>2 DEF Selected, Entered
    <3> QED
      BY <1>7, <1>9, <3>1, EnteredTurned DEF Buffered, Outcomes
  <2> QED
    BY <2>1, <2>2
<1>10. ASSUME s.st = "error" PROVE Turned(d, s)
  BY <1>7, <1>10, SelectionFailed
<1> QED
  BY <1>7, <1>8, <1>9, <1>10 DEF Then

LEMMA PreloadTurned ==
  ASSUME NEW d, Sound(d), d.gstate = "preload", d.row = <<>>
  PROVE  Turned(d, Preload(IF d.multi THEN Consume(d) ELSE d))
<1> DEFINE r == IF d.multi THEN Consume(d) ELSE d
<1>1. Sound(r) /\ r.gstate = "preload" /\ r.row = <<>> /\ r.scanline = d.scanline
  BY ConsumeRuns, SoundRuns DEF Sound, Passive
<1> HIDE DEF r
<1>2. CASE ~r.multi \/ r.st = "eoi"
  <2> DEFINE o == [r EXCEPT !.outputScan = r.inputScan]
             e == OutputPassSetup(o)
  <2>1. Changes(r, o, {"outputScan"}) /\ o.gstate = r.gstate /\ o.row = r.row /\ o.st = r.st
    BY <1>1 DEF Changes, Sound, Typed, Object, Fields
  <2> HIDE DEF o
  <2>2. Sound(o)
    BY <1>1, <2>1, SoundSame DEF Sound, Typed, SoundFields, RunningFields
  <2>3. Sound(e) /\ e.gstate \in Output /\ e.row = <<>>
    BY <1>1, <2>1, <2>2, OutputPassSound
  <2>4. Preload(r) = e
    BY <1>2 DEF Preload, o
  <2> HIDE DEF e
  <2>5. Turned(d, e)
    BY <2>3, OutputPassTurned DEF Output
  <2> QED
    BY <2>4, <2>5 DEF r
<1>3. CASE ~(~r.multi \/ r.st = "eoi")
  <2>1. Preload(r) = GoOn(r)
    BY <1>3 DEF Preload
  <2>2. Sound(GoOn(r)) /\ Changes(r, GoOn(r), {"st"})
    BY <1>1, SoundOutcome
  <2>3. GoOn(r).gstate = "preload" /\ GoOn(r).row = <<>>
    BY <1>1, <2>2 DEF Changes, Sound, Typed, Object, Fields
  <2>4. Turned(d, GoOn(r))
    BY <2>2, <2>3, OutputPassTurned
  <2> QED
    BY <2>1, <2>4 DEF r
<1> QED
  BY <1>2, <1>3

LEMMA StartDecompressTurned ==
  ASSUME NEW d, Sound(d), d.row = <<>>
  PROVE  Turned(d, StartDecompress(d))
<1>1. CASE d.gstate = "ready"
  BY <1>1, SelectedTurned DEF StartDecompress
<1>2. CASE d.gstate = "preload"
  BY <1>2, PreloadTurned DEF StartDecompress
<1>3. CASE d.gstate = "prescan"
  <2> DEFINE e == OutputPassSetup(d)
  <2>1. Sound(e) /\ e.gstate \in Output /\ e.row = <<>>
    BY <1>3, OutputPassSound
  <2>2. StartDecompress(d) = e
    BY <1>3 DEF StartDecompress
  <2> HIDE DEF e
  <2> QED
    BY <1>3, <2>1, <2>2, OutputPassTurned DEF Output
<1>4. CASE d.gstate \notin {"ready", "preload", "prescan"}
  BY <1>4, TurnedFail DEF StartDecompress
<1> QED
  BY <1>1, <1>2, <1>3, <1>4

LEMMA ReadOnTurned ==
  ASSUME NEW d, Sound(d), d.row = <<>>, d.gstate \notin Passive, d.gstate # "ready"
  PROVE  /\ Sound(ReadOn(d)) /\ ReadOn(d).gstate = d.gstate /\ ReadOn(d).row = <<>>
         /\ ReadOn(d).scanline = d.scanline /\ Turned(d, ReadOn(d))
<1> DEFINE e == ReadOn(d)
<1>1. Runs(d, e)
  BY ConsumeRuns, RunsGoOn DEF ReadOn, Sound
<1> HIDE DEF e
<1>2. Sound(e) /\ e.gstate = d.gstate /\ e.scanline = d.scanline /\ e.row = d.row
  BY <1>1, SoundRuns
<1>3. Turned(d, e)
  BY <1>2, TurnedSame DEF Passive
<1> QED
  BY <1>2, <1>3 DEF e

LEMMA ReadCoefficientsTurned ==
  ASSUME NEW d, Sound(d), d.row = <<>>
  PROVE  Turned(d, ReadCoefficients(d))
<1>1. CASE d.gstate = "ready"
  <2> DEFINE i == [InitEntropy(d) EXCEPT !.buffered = TRUE]
             o == InitCoefController(i, TRUE)
             s == StartInputPass(o)
  <2>0. DOMAIN d = Fields /\ ~d.dummy
    BY <1>1 DEF Sound, Typed, Object
  <2>1. Changes(d, i, {"coefBits", "buffered"}) /\ i.buffered = TRUE
    BY <2>0 DEF Changes, InitEntropy, Fields
  <2> HIDE DEF i
  <2>2. Changes(i, o, {"fullBuffer", "coefs", "latch"}) /\ o.fullBuffer = TRUE /\ DOMAIN o.coefs # {}
    BY <1>1, <2>1, CoefControllerInitialized
  <2> HIDE DEF o
  <2>3. Changes(d, o, {"coefBits", "fullBuffer", "coefs", "latch", "dummy", "buffered"})
    BY <2>1, <2>2 DEF Changes
  <2>4. o.buffered = TRUE /\ o.dummy = d.dummy
    BY <2>0, <2>1, <2>2 DEF Changes, Fields
  <2>5. /\ s.st \in {"ok", "error"} /\ s.row = <<>> /\ s.gstate = "ready" /\ s.buffered = o.buffered
        /\ s.st = "error" => Sound(s)
        /\ s.st = "ok" => Selects(s)
    BY <1>1, <2>0, <2>2, <2>3, <2>4, SelectionSelects
  <2>6. TransdecodeMasterSelection(d) = s
    BY DEF TransdecodeMasterSelection, o, i
  <2> HIDE DEF s
  <2>7. ReadCoefficients(d) = IF s.st = "ok" THEN Entered(s, "rdcoefs", "again") ELSE s
    BY <1>1, <2>6 DEF ReadCoefficients, Then, Entered
  <2>8. ASSUME s.st = "ok" PROVE Turned(d, Entered(s, "rdcoefs", "again"))
    BY <1>1, <2>4, <2>5, <2>8, EnteredTurned DEF Buffered, Outcomes
  <2>9. ASSUME s.st = "error" PROVE Turned(d, s)
    BY <1>1, <2>5, <2>9, SelectionFailed
  <2> QED
    BY <2>5, <2>7, <2>8, <2>9
<1>2. CASE d.gstate = "rdcoefs"
  <2> DEFINE r == Consume(d)
             e == [r EXCEPT !.gstate = "stopping"]
  <2>1. Runs(d, r)
    BY <1>2, ConsumeRuns DEF Sound, Passive
  <2> HIDE DEF r
  <2>2. Sound(r) /\ r.gstate = "rdcoefs" /\ r.row = <<>> /\ r.scanline = d.scanline
    BY <1>2, <2>1, SoundRuns DEF Passive
  <2>3. ReadCoefficients(d) = IF r.st = "eoi" THEN e ELSE GoOn(r)
    BY <1>2 DEF ReadCoefficients, CoefficientsRead, r
  <2>4. Turned(d, GoOn(r))
    <3>1. Sound(GoOn(r)) /\ Changes(r, GoOn(r), {"st"})
      BY <2>2, SoundOutcome
    <3>2. GoOn(r).gstate = "rdcoefs" /\ GoOn(r).row = <<>>
      BY <2>2, <3>1 DEF Changes, Sound, Typed, Object, Fields
    <3> QED
      BY <1>2, <3>1, <3>2, OutputPassTurned
  <2>5. Turned(d, e)
    <3>1. Changes(r, e, {"gstate"}) /\ e.gstate = "stopping"
      BY <2>2 DEF Changes, Sound, Typed, Object, Fields
    <3> HIDE DEF e
    <3>2. Running(e)
      BY <2>1, <3>1, RunningSame DEF Runs, RunningFields
    <3>3. e.image = r.image /\ e.dummy = r.dummy /\ e.st = r.st /\ e.row = r.row
      BY <2>2, <3>1 DEF Changes, Sound, Typed, Object, Fields
    <3>4. Typed(e)
      BY <2>2, <3>1, <3>2, <3>3 DEF Sound, Typed, Running, Reader, Reading, GlobalStates
    <3>5. Sound(e)
      BY <2>2, <3>1, <3>2, <3>3, <3>4 DEF Sound, Passive, Active, Output, Buffered
    <3> QED
      BY <1>2, <2>2, <3>1, <3>3, <3>5, OutputPassTurned
  <2> QED
    BY <2>3, <2>4, <2>5
<1>3. CASE d.gstate \notin {"ready", "rdcoefs"}
  <2>1. ASSUME d.gstate \in {"stopping", "bufimage"} PROVE Turned(d, Ok(d))
    <3>1. Ok(d).row = d.row /\ Ok(d).gstate = d.gstate /\ Ok(d).scanline = d.scanline /\ Ok(d).st = "ok"
      BY DEF Ok, Sound, Typed, Object, Fields
    <3> QED
      BY <3>1, SoundOutcome, TurnedSame
  <2> QED
    BY <1>3, <2>1, TurnedFail DEF ReadCoefficients
<1> QED
  BY <1>1, <1>2, <1>3

LEMMA LeftTurned ==
  ASSUME NEW d, NEW e, Sound(e), e.gstate \notin {"start", "scanning"}, e.row = <<>>
  PROVE  Turned(d, e)
BY DEF Turned

\* The image is finished, or the object is about to finish it.
LEMMA StoppingSound ==
  ASSUME NEW d, Sound(d), d.gstate \in {"scanning", "bufimage"}, NEW e, Changes(d, e, {"gstate"}), e.gstate = "stopping"
  PROVE  Sound(e) /\ e.row = d.row
<1>0. DOMAIN d = Fields /\ Running(d) /\ ~d.dummy /\ d.image \in 1 .. MaxImages /\ d.st \in Outcomes
  BY ImagesAssumption DEF Sound, Typed, Object, Passive
<1>1. Running(e)
  BY <1>0, RunningSame DEF RunningFields
<1>2. e.image = d.image /\ e.dummy = d.dummy /\ e.st = d.st /\ e.row = d.row
  BY <1>0 DEF Changes, Fields
<1>3. Typed(e)
  BY <1>0, <1>1, <1>2, ImagesAssumption DEF Typed, Running, Reader, Reading, GlobalStates
<1> QED
  BY <1>0, <1>1, <1>2, <1>3, ImagesAssumption DEF Sound, Passive, Active, Output, Buffered

LEMMA FinishDecompressTurned ==
  ASSUME NEW d, Sound(d), d.row = <<>>
  PROVE  Turned(d, FinishDecompress(d))
<1> DEFINE last == IF d.gstate \in {"scanning", "bufimage"} THEN [d EXCEPT !.gstate = "stopping"] ELSE d
           a == JpegAbort(last)
           e == [a EXCEPT !.st = "ok"]
           wrong == \/ d.gstate = "scanning" /\ (d.buffered \/ d.scanline < TotalRows)
                    \/ d.gstate \notin {"scanning", "bufimage", "stopping"}
<1>1. FinishDecompress(d) = IF wrong THEN Fail(d) ELSE IF ~last.eoi THEN ReadOn(last) ELSE e
  BY DEF FinishDecompress
<1>2. ASSUME wrong PROVE Turned(d, Fail(d))
  BY TurnedFail
<1>3. ASSUME ~wrong PROVE Sound(last) /\ last.gstate = "stopping" /\ last.row = <<>>
  <2>1. CASE d.gstate = "stopping"
    BY <2>1
  <2>2. CASE d.gstate \in {"scanning", "bufimage"}
    <3> DEFINE l == [d EXCEPT !.gstate = "stopping"]
    <3>1. Changes(d, l, {"gstate"}) /\ l.gstate = "stopping" /\ last = l
      BY <2>2 DEF Changes, Sound, Typed, Object, Fields
    <3> HIDE DEF l
    <3> QED
      BY <2>2, <3>1, StoppingSound
  <2> QED
    BY <1>3, <2>1, <2>2
<1> HIDE DEF last
<1>4. ASSUME ~wrong PROVE Turned(d, ReadOn(last))
  <2>1. Sound(ReadOn(last)) /\ ReadOn(last).gstate = "stopping" /\ ReadOn(last).row = <<>>
    BY <1>3, <1>4, ReadOnTurned DEF Passive
  <2> QED
    BY <2>1, LeftTurned
<1>5. ASSUME ~wrong PROVE Turned(d, e)
  <2>1. last.pos > 1
    BY <1>3, <1>5 DEF Sound, Passive, Running
  <2>2. Sound(a) /\ a.gstate = "start" /\ a.row = <<>> /\ Object(a)
    BY <1>3, <1>5, <2>1, AbortSound
  <2> HIDE DEF a
  <2>3. Changes(a, e, {"st"}) /\ e.st = "ok" /\ e.row = a.row /\ e.gstate = a.gstate
    BY <2>2 DEF Changes, Object, Fields
  <2> HIDE DEF e
  <2>4. Sound(e)
    BY <2>2, <2>3, SoundSame DEF SoundFields, RunningFields, Outcomes
  <2> QED
    BY <2>2, <2>3, <2>4 DEF Turned
<1> HIDE DEF e, wrong
<1> QED
  BY <1>1, <1>2, <1>4, <1>5

LEMMA FinishOutputTurned ==
  ASSUME NEW d, Sound(d), d.row = <<>>
  PROVE  Turned(d, FinishOutput(d))
<1> DEFINE last == IF d.gstate = "scanning" THEN [FinishOutputPass(d) EXCEPT !.gstate = "bufpost"] ELSE d
           e == [last EXCEPT !.gstate = "bufimage", !.st = "ok"]
           wrong == d.gstate \notin {"scanning", "bufpost"} \/ ~d.buffered
<1>1. FinishOutput(d) = IF wrong THEN Fail(d)
                        ELSE IF last.inputScan <= last.outputScan /\ ~last.eoi THEN ReadOn(last) ELSE e
  BY DEF FinishOutput
<1>2. ASSUME wrong PROVE Turned(d, Fail(d))
  BY TurnedFail
<1>3. ASSUME ~wrong PROVE Sound(last) /\ last.gstate = "bufpost" /\ last.row = <<>>
  <2>1. CASE d.gstate = "bufpost"
    BY <2>1
  <2>2. CASE d.gstate = "scanning"
    <3> DEFINE l == [FinishOutputPass(d) EXCEPT !.gstate = "bufpost"]
    <3>1. Running(d) /\ Passing(d) /\ d.image \in 1 .. MaxImages /\ DOMAIN d = Fields /\ ~d.dummy /\ d.st \in Outcomes
      BY <2>2, ImagesAssumption DEF Sound, Typed, Object, Passive, Active, Output
    <3>2. Changes(d, l, {"colormap", "gstate"}) /\ l.gstate = "bufpost" /\ last = l
      BY <2>2, <3>1 DEF Changes, FinishOutputPass, Fields
    <3> HIDE DEF l
    <3>3. Running(l) /\ l.inputRow = d.inputRow /\ l.outputRow = d.outputRow /\ l.consume = d.consume
      BY <3>1, <3>2, RunningSame DEF RunningFields
    <3>4. /\ l.image = d.image /\ l.dummy = d.dummy /\ l.st = d.st /\ l.row = d.row /\ l.coefs = d.coefs
          /\ l.buffered = d.buffered /\ l.fullBuffer = d.fullBuffer /\ l.multi = d.multi
      BY <3>1, <3>2 DEF Changes, Fields
    <3>5. Passing(l)
      BY <1>3, <3>1, <3>2, <3>3, <3>4 DEF Passing
    <3>6. Typed(l)
      BY <3>1, <3>2, <3>3, <3>4, ImagesAssumption DEF Typed, Running, Reader, Reading, GlobalStates
    <3>7. Sound(l)
      BY <3>1, <3>2, <3>3, <3>4, <3>5, <3>6, ImagesAssumption DEF Sound, Passive, Active, Output, Buffered
    <3> QED
      BY <3>2, <3>4, <3>7
  <2> QED
    BY <1>3, <2>1, <2>2
<1>4. ASSUME ~wrong PROVE last.buffered
  BY <1>3, <1>4 DEF Sound, Active, Buffered, Passing
<1> HIDE DEF last
<1>5. ASSUME ~wrong PROVE Turned(d, ReadOn(last))
  <2>1. Sound(ReadOn(last)) /\ ReadOn(last).gstate = "bufpost" /\ ReadOn(last).row = <<>>
    BY <1>3, <1>5, ReadOnTurned DEF Passive
  <2> QED
    BY <2>1, LeftTurned
<1>6. ASSUME ~wrong PROVE Turned(d, e)
  <2>1. /\ Running(last) /\ Passing(last) /\ last.image \in 1 .. MaxImages /\ DOMAIN last = Fields /\ ~last.dummy
        /\ last.st \in Outcomes
    BY <1>3, <1>6, ImagesAssumption DEF Sound, Typed, Object, Passive, Active, Buffered
  <2>2. Changes(last, e, {"gstate", "st"}) /\ e.gstate = "bufimage" /\ e.st = "ok"
    BY <2>1 DEF Changes, Fields
  <2> HIDE DEF e
  <2>3. Running(e) /\ e.inputRow = last.inputRow /\ e.outputRow = last.outputRow /\ e.consume = last.consume
    BY <2>1, <2>2, RunningSame DEF RunningFields
  <2>4. /\ e.image = last.image /\ e.dummy = last.dummy /\ e.row = last.row /\ e.coefs = last.coefs
        /\ e.buffered = last.buffered /\ e.fullBuffer = last.fullBuffer /\ e.multi = last.multi
    BY <2>1, <2>2 DEF Changes, Fields
  <2>5. Passing(e)
    BY <1>3, <1>4, <1>6, <2>1, <2>2, <2>3, <2>4 DEF Passing
  <2>6. Typed(e)
    BY <2>1, <2>2, <2>3, <2>4, ImagesAssumption DEF Typed, Running, Reader, Reading, GlobalStates, Outcomes
  <2>7. Sound(e)
    BY <2>1, <2>2, <2>3, <2>4, <2>5, <2>6, ImagesAssumption DEF Sound, Passive, Active, Output, Buffered
  <2> QED
    BY <1>3, <1>6, <2>2, <2>4, <2>7, LeftTurned
<1> HIDE DEF e, wrong
<1> QED
  BY <1>1, <1>2, <1>5, <1>6

(***************************************************************************)
(* The application.                                                        *)
(***************************************************************************)

\* Another word arrives.
LEMMA LoadSound ==
  ASSUME NEW d, Sound(d), NEW e, Changes(d, e, {"loaded"}), e.loaded \in 0 .. StreamEnd(d)
  PROVE  Sound(e) /\ e.gstate = d.gstate /\ e.row = d.row /\ e.pos = d.pos /\ e.scanline = d.scanline
<1> DEFINE F == Fields \ {"loaded"}
<1>0. DOMAIN e = Fields /\ \A f \in F : e[f] = d[f]
  BY DEF Changes, Sound, Typed, Object
<1>1. /\ e.comps = d.comps /\ e.cur = d.cur /\ e.image = d.image /\ e.sawSOF = d.sawSOF /\ e.scan = d.scan
      /\ e.inheaders = d.inheaders /\ e.words = d.words /\ e.pos = d.pos
      /\ e.save = d.save /\ e.unread = d.unread /\ e.buf = d.buf /\ e.st = d.st /\ e.row = d.row
  BY <1>0 DEF Fields
<1>2. /\ e.inputRow = d.inputRow /\ e.outputRow = d.outputRow /\ e.scanline = d.scanline
      /\ e.ctr = d.ctr /\ e.voff = d.voff /\ e.rowsPer = d.rowsPer /\ e.consume = d.consume
  BY <1>0 DEF Fields
<1>3. /\ e.gstate = d.gstate /\ e.eoi = d.eoi /\ e.dummy = d.dummy /\ e.multi = d.multi
      /\ e.buffered = d.buffered /\ e.fullBuffer = d.fullBuffer /\ e.coefs = d.coefs /\ e.post = d.post
  BY <1>0 DEF Fields
<1>4. Object(e) /\ Stream(e) /\ Buffer(e) /\ Places(e)
  BY <1>0, <1>1, <1>2 DEF Sound, Typed, Object, Stream, StreamEnd, Buffer, Places
<1>5. Typed(e)
  BY <1>1, <1>2, <1>3, <1>4 DEF Sound, Typed
<1>6. Reader(d) => Reader(e)
  BY <1>1, <1>4 DEF Reader, Reading, Begun, Components, Saving
<1>7. (ScanOfFrame(d) => ScanOfFrame(e)) /\ NumComps(e) = NumComps(d)
  BY <1>1 DEF ScanOfFrame, NumComps
<1>8. Heading(d) => Heading(e)
  BY <1>1, <1>2, <1>3, <1>6 DEF Heading
<1>9. Running(d) => Running(e)
  BY <1>1, <1>2, <1>4, <1>6, <1>7 DEF Running
<1>10. (Passing(d) => Passing(e)) /\ (Putting(d) => Putting(e))
  BY <1>2, <1>3 DEF Passing, Putting, FromPost
<1> QED
  BY <1>1, <1>2, <1>3, <1>5, <1>7, <1>8, <1>9, <1>10 DEF Sound

\* The object is given another datastream, all of it there.
LEMMA NewStreamSound ==
  ASSUME NEW b, Object(b), Buffer(b), Places(b), b.gstate = "start", b.consume \in ConsumeMethods, ~b.dummy,
         b.image \in 1 .. MaxImages, \A code \in DOMAIN b.save : b.save[code] \in Nat,
         NEW f \in NextFiles,
         NEW e, Changes(b, e, {"file", "words", "pos", "st", "loaded"}),
         e.words = Words[f], e.pos = 1, e.st = "ok", e.loaded = StreamEnd(e)
  PROVE  Sound(e) /\ e.gstate = "start" /\ e.row = b.row
<1>1. /\ e.gstate = b.gstate /\ e.consume = b.consume /\ e.dummy = b.dummy /\ e.image = b.image /\ e.save = b.save
      /\ e.buf = b.buf /\ e.row = b.row /\ Object(e)
  BY DEF Changes, Object, Fields
<1>2. /\ e.inputRow = b.inputRow /\ e.outputRow = b.outputRow /\ e.scanline = b.scanline
      /\ e.ctr = b.ctr /\ e.voff = b.voff /\ e.rowsPer = b.rowsPer
  BY DEF Changes, Object, Fields
<1>3. Words[f] \in Seq(Nat)
  BY DatastreamsAssumption
<1>4. Stream(e)
  BY <1>1, <1>3 DEF Stream, StreamEnd, Lookahead
<1>5. Buffer(e) /\ Places(e)
  BY <1>1, <1>2 DEF Buffer, Places
<1>6. Typed(e)
  BY <1>1, <1>4, <1>5, ImagesAssumption DEF Typed, GlobalStates, Outcomes
<1> QED
  BY <1>1, <1>6 DEF Sound, Passive, Active, Output, Buffered

\* A new object and its first datastream, all of it there or none.
Created(f, save, all) ==
  [CreateDecompress(f, save) EXCEPT !.loaded = IF all THEN StreamEnd(CreateDecompress(f, save)) ELSE 0]

LEMMA CreateSound ==
  ASSUME NEW f \in Files, NEW save \in SaveSettings, NEW all \in BOOLEAN
  PROVE  LET e == Created(f, save, all)
         IN Sound(e) /\ e.gstate = "start" /\ e.pos = 1 /\ e.row = <<>>
<1> DEFINE e == Created(f, save, all)
           d == CreateDecompress(f, save)
           saved == [code \in {k \in DOMAIN save : save[k] > 0} |->
                       IF code \in DOMAIN AppnLen THEN Max({save[code], AppnLen[code]}) ELSE save[code]]
<1>1. /\ DOMAIN d = Fields /\ d.words = Words[f] /\ d.pos = 1 /\ d.gstate = "start" /\ d.image = 1
      /\ d.save = saved /\ d.buf = <<>> /\ d.row = <<>> /\ d.st = "ok" /\ d.consume = "markers" /\ d.dummy = FALSE
  BY DEF CreateDecompress, SaveMarkers, Fields
<1>2. /\ d.inputRow = 0 /\ d.outputRow = 0 /\ d.scanline = 0 /\ d.ctr = 0 /\ d.voff = 0 /\ d.rowsPer = 0
  BY DEF CreateDecompress, SaveMarkers
<1> HIDE DEF d
<1>3. \A code \in DOMAIN saved : saved[code] \in Nat
  <2> SUFFICES ASSUME NEW code \in DOMAIN save PROVE (IF code \in DOMAIN AppnLen THEN Max({save[code], AppnLen[code]})
                                                        ELSE save[code]) \in Nat
    OBVIOUS
  <2>1. save[code] \in Nat
    BY SaveAssumption
  <2>2. ASSUME code \in DOMAIN AppnLen PROVE Max({save[code], AppnLen[code]}) \in Nat
    <3>1. AppnLen[code] \in Nat
      BY <2>2 DEF AppnLen
    <3> DEFINE least == AppnLen[code]
    <3> HIDE DEF least
    <3>2. Max({save[code], least}) = IF save[code] <= least THEN least ELSE save[code]
      BY <2>1, <3>1, MaxPair DEF least
    <3> QED
      BY <2>1, <3>1, <3>2 DEF least
  <2> QED
    BY <2>1, <2>2
<1> HIDE DEF saved
<1>4. Words[f] \in Seq(Nat)
  BY DatastreamsAssumption
<1>5. Changes(d, e, {"loaded"}) /\ e.loaded \in {0, StreamEnd(d)}
  BY <1>1 DEF Changes, Fields, Created, d
<1> HIDE DEF e
<1>6. /\ e.words = d.words /\ e.pos = d.pos /\ e.gstate = d.gstate /\ e.image = d.image /\ e.save = d.save
      /\ e.buf = d.buf /\ e.row = d.row /\ e.st = d.st /\ e.consume = d.consume /\ e.dummy = d.dummy /\ Object(e)
  BY <1>1, <1>5 DEF Changes, Object, Fields
<1>7. /\ e.inputRow = 0 /\ e.outputRow = 0 /\ e.scanline = 0 /\ e.ctr = 0 /\ e.voff = 0 /\ e.rowsPer = 0
  BY <1>1, <1>2, <1>5 DEF Changes, Fields
<1>8. StreamEnd(d) \in Nat /\ StreamEnd(e) = StreamEnd(d)
  BY <1>1, <1>4, <1>6 DEF StreamEnd, Lookahead
<1>9. Stream(e)
  BY <1>1, <1>3, <1>4, <1>5, <1>6, <1>8 DEF Stream
<1>10. Buffer(e) /\ Places(e)
  <2>1. <<>> \in Seq(Nat) /\ Len(<<>>) <= Depth
    BY GeometryAssumption
  <2>2. 0 \in 0 .. TotalRows /\ 0 \in 0 .. Cols - 1 /\ 0 \in 0 .. MaxV - 1 /\ 0 \in 0 .. MaxV
    BY MaxVBound, TotalRowsNat, GeometryAssumption
  <2> QED
    BY <1>1, <1>6, <1>7, <2>1, <2>2 DEF Buffer, Places
<1>11. Typed(e)
  BY <1>1, <1>6, <1>9, <1>10, ImagesAssumption DEF Typed, GlobalStates, ConsumeMethods, Outcomes
<1> QED
  BY <1>1, <1>6, <1>11 DEF Sound, Passive, Active, Output, Buffered, e

\* The inductive invariant: the object is sound, and the application has got no more
\* rows in this pass than the object has counted.
CallsSound ==
  /\ Sound(c) /\ c.row = <<>>
  /\ call \in Calls \cup {"none"}
  /\ call # "none" /\ c.gstate = "start" => c.pos = 1
  /\ \E V : shown \in Seq(V)
  /\ Len(shown) <= TotalRows
  /\ c.gstate = "scanning" => Len(shown) <= c.scanline

LEMMA CallMayStart ==
  ASSUME CallsSound, call # "none"
  PROVE  c.gstate = "start" => c.image <= MaxImages
BY DEF CallsSound, Sound, Typed

LEMMA TurnSound ==
  ASSUME CallsSound, NEW fn \in Calls, NEW d, Turned(c, d), Turn(fn, d)
  PROVE  CallsSound'
<1> DEFINE e == [d EXCEPT !.row = <<>>]
<1>1. Sound(d) /\ DOMAIN d = Fields
  BY DEF Turned, Sound, Typed, Object
<1>2. Changes(d, e, {"row"}) /\ e.row = <<>> /\ e.st = d.st /\ e.gstate = d.gstate /\ e.scanline = d.scanline
  BY <1>1 DEF Changes, Fields
<1>3. c' = e
  BY DEF Turn
<1> HIDE DEF e
<1>4. Sound(e)
  BY <1>1, <1>2, SoundSame DEF Sound, Typed, SoundFields, RunningFields
<1>5. call' \in Calls \cup {"none"} /\ (call' # "none" => e.gstate # "start")
  BY <1>2 DEF Turn, Turned
<1>6. PICK V : shown \in Seq(V)
  BY DEF CallsSound
<1>7. shown' = IF d.gstate = "scanning" /\ c.gstate # "scanning" THEN <<>>
               ELSE IF d.row # <<>> THEN Append(shown, d.row) ELSE shown
  BY DEF Turn
<1>8. d.scanline \in 0 .. TotalRows /\ TotalRows \in Nat /\ (c.gstate = "scanning" => c.scanline \in Nat)
  BY <1>1, TotalRowsNat DEF Sound, Typed, Places, CallsSound
<1>9. /\ \E W : shown' \in Seq(W)
      /\ Len(shown') <= TotalRows
      /\ e.gstate = "scanning" => Len(shown') <= e.scanline
  <2>1. CASE d.gstate = "scanning" /\ c.gstate # "scanning"
    <3>1. shown' = <<>> /\ <<>> \in Seq({}) /\ Len(<<>>) = 0
      BY <1>7, <2>1
    <3>2. Len(shown') = 0
      BY <3>1
    <3> QED
      BY <1>2, <1>8, <3>1, <3>2
  <2>2. CASE ~(d.gstate = "scanning" /\ c.gstate # "scanning") /\ d.row # <<>>
    <3>1. c.gstate = "scanning" /\ d.gstate = "scanning" /\ d.scanline = c.scanline + 1
      BY <2>2 DEF Turned
    <3>2. shown' = Append(shown, d.row) /\ shown \in Seq(V \cup {d.row})
      BY <1>6, <1>7, <2>2
    <3>3. shown' \in Seq(V \cup {d.row}) /\ Len(shown') = Len(shown) + 1 /\ Len(shown) \in Nat
      BY <3>2
    <3>4. Len(shown) <= c.scanline
      BY <3>1 DEF CallsSound
    <3> QED
      BY <1>2, <1>8, <3>1, <3>3, <3>4
  <2>3. CASE ~(d.gstate = "scanning" /\ c.gstate # "scanning") /\ d.row = <<>>
    <3>1. shown' = shown
      BY <1>7, <2>3
    <3>2. d.gstate = "scanning" => c.scanline \in Nat /\ c.scanline <= d.scanline /\ Len(shown) <= c.scanline
      BY <1>8, <2>3 DEF Turned, CallsSound
    <3>3. Len(shown) \in Nat /\ Len(shown) <= TotalRows
      BY <1>6 DEF CallsSound
    <3>4. e.gstate = "scanning" => Len(shown) <= e.scanline
      BY <1>2, <1>8, <3>2, <3>3
    <3> QED
      BY <1>6, <3>1, <3>3, <3>4
  <2> QED
    BY <2>1, <2>2, <2>3
<1> QED
  BY <1>2, <1>3, <1>4, <1>5, <1>9 DEF CallsSound

LEMMA LibStepSound ==
  ASSUME CallsSound, LibStep
  PROVE  CallsSound'
<1>0. Sound(c) /\ c.row = <<>>
  BY DEF CallsSound
<1>1. CASE ReadHeaderStep
  <2>1. Turned(c, ReadHeader(c))
    BY <1>0, <1>1, CallMayStart, ReadHeaderTurned DEF ReadHeaderStep, Turn
  <2> QED
    BY <1>1, <2>1, TurnSound DEF ReadHeaderStep, Calls
<1>2. CASE StartDecompressStep
  BY <1>0, <1>2, StartDecompressTurned, TurnSound DEF StartDecompressStep, Calls
<1>3. CASE ReadScanlinesStep
  BY <1>0, <1>3, ReadScanlinesTurned, TurnSound DEF ReadScanlinesStep, Calls
<1>4. CASE FinishDecompressStep
  BY <1>0, <1>4, FinishDecompressTurned, TurnSound DEF FinishDecompressStep, Calls
<1>5. CASE StartOutputStep
  <2>1. Turned(c, StartOutput(c, c.outputScan))
    BY <1>0, StartOutputTurned
  <2> QED
    BY <1>5, <2>1, TurnSound DEF StartOutputStep, Calls
<1>6. CASE FinishOutputStep
  BY <1>0, <1>6, FinishOutputTurned, TurnSound DEF FinishOutputStep, Calls
<1>7. CASE ConsumeInputStep
  <2>1. Turned(c, ConsumeInput(c))
    BY <1>0, <1>7, CallMayStart, ConsumeInputTurned DEF ConsumeInputStep, Turn
  <2> QED
    BY <1>7, <2>1, TurnSound DEF ConsumeInputStep, Calls
<1>8. CASE ReadCoefficientsStep
  BY <1>0, <1>8, ReadCoefficientsTurned, TurnSound DEF ReadCoefficientsStep, Calls
<1> QED
  BY <1>1, <1>2, <1>3, <1>4, <1>5, <1>6, <1>7, <1>8 DEF LibStep

LEMMA LoadKeeps ==
  ASSUME CallsSound, Load
  PROVE  CallsSound'
<1> DEFINE e == [c EXCEPT !.loaded = @ + 1]
           s == StreamEnd(c)
           w == c.pos + Window - 1
<1>1. Sound(c) /\ DOMAIN c = Fields /\ c.pos \in Nat /\ c.loaded \in Nat
  BY DEF CallsSound, Sound, Typed, Object, Stream
<1>2. s \in Nat /\ w \in Int
  BY <1>1, WindowAssumption DEF StreamEnd, Lookahead, Sound, Typed, Stream
<1>3. c.loaded < Min({s, w})
  BY DEF Load
<1>4. c.loaded + 1 <= s
  <2> HIDE DEF s, w
  <2>1. Min({s, w}) = IF s <= w THEN s ELSE w
    BY <1>2, MinPair
  <2> QED
    BY <1>1, <1>2, <1>3, <2>1
<1>5. Changes(c, e, {"loaded"}) /\ e.loaded \in 0 .. StreamEnd(c)
  BY <1>1, <1>2, <1>4 DEF Changes, Fields
<1> HIDE DEF e
<1>6. Sound(e) /\ e.gstate = c.gstate /\ e.row = c.row /\ e.pos = c.pos /\ e.scanline = c.scanline
  BY <1>1, <1>5, LoadSound
<1>7. c' = e /\ call' = call /\ shown' = shown
  BY DEF Load, e
<1> QED
  BY <1>6, <1>7 DEF CallsSound

LEMMA BeginKeeps ==
  ASSUME CallsSound, NEW fn \in Calls, Begin(fn)
  PROVE  CallsSound'
<1>1. Sound(c) /\ DOMAIN c = Fields /\ c.row = <<>>
  BY DEF CallsSound, Sound, Typed, Object
<1>2. call' = fn /\ shown' = shown /\ MayCall(fn)
  BY DEF Begin
<1>3. c.gstate = "start" => c.pos = 1
  BY <1>2 DEF MayCall, Calls
<1>4. ASSUME NEW e, c' = e, Sound(e), e.gstate = c.gstate, e.pos = c.pos, e.row = c.row, e.scanline = c.scanline
      PROVE  CallsSound'
  BY <1>2, <1>3, <1>4 DEF CallsSound
<1>5. CASE fn = "StartDecompress" /\ c.gstate = "ready"
  <2>1. PICK s \in Settings : c' = [c EXCEPT !.buffered = s.buffered, !.quantize = s.quantize]
    BY <1>5 DEF Begin
  <2> DEFINE e == [c EXCEPT !.buffered = s.buffered, !.quantize = s.quantize]
  <2>2. Changes(c, e, {"buffered", "quantize"})
    BY DEF Changes
  <2> HIDE DEF e
  <2>3. /\ e.gstate = c.gstate /\ e.pos = c.pos /\ e.row = c.row /\ e.scanline = c.scanline /\ e.consume = c.consume
        /\ e.comps = c.comps /\ e.scan = c.scan /\ e.image = c.image /\ e.dummy = c.dummy /\ e.st = c.st
    BY <1>1, <2>2 DEF Changes, Fields
  <2>4. Running(e)
    BY <1>1, <1>5, <2>2, RunningSame DEF Sound, Passive, RunningFields
  <2>5. ScanOfFrame(e)
    BY <1>1, <1>5, <2>3 DEF Sound, ScanOfFrame
  <2>6. Typed(e)
    BY <1>1, <1>5, <2>3, <2>4 DEF Sound, Typed, Running, Reader, Reading
  <2>7. Sound(e)
    BY <1>1, <1>5, <2>3, <2>4, <2>5, <2>6 DEF Sound, Passive, Active, Output, Buffered
  <2> QED
    BY <1>4, <2>1, <2>3, <2>7 DEF e
<1>6. CASE fn = "StartOutput"
  <2>1. PICK n \in ScanRequests : c' = [c EXCEPT !.outputScan = n]
    BY <1>6 DEF Begin
  <2> DEFINE e == [c EXCEPT !.outputScan = n]
  <2>2. Changes(c, e, {"outputScan"})
    BY DEF Changes
  <2> HIDE DEF e
  <2>3. /\ e.gstate = c.gstate /\ e.pos = c.pos /\ e.row = c.row /\ e.scanline = c.scanline /\ e.st = c.st
    BY <1>1, <2>2 DEF Changes, Fields
  <2>4. Sound(e)
    BY <1>1, <2>2, <2>3, SoundSame DEF Sound, Typed, SoundFields, RunningFields
  <2> QED
    BY <1>4, <2>1, <2>3, <2>4 DEF e
<1>7. CASE ~(fn = "StartDecompress" /\ c.gstate = "ready") /\ fn # "StartOutput"
  <2>1. c' = c
    BY <1>7 DEF Begin
  <2> QED
    BY <1>1, <1>4, <2>1
<1> QED
  BY <1>5, <1>6, <1>7

LEMMA NextImageKeeps ==
  ASSUME CallsSound, NextImage
  PROVE  CallsSound'
<1> DEFINE a == JpegAbort(c)
           b == IF c.gstate = "start" THEN c ELSE a
           moved == [a EXCEPT !.pos = 2]
<1>1. Sound(c) /\ c.row = <<>> /\ c.image \in 1 .. MaxImages + 1
  BY DEF CallsSound, Sound, Typed
<1>2. PICK f \in NextFiles : c' = [[b EXCEPT !.file = f, !.words = Words[f], !.pos = 1, !.st = "ok"] EXCEPT !.loaded =
                                     StreamEnd([b EXCEPT !.file = f, !.words = Words[f], !.pos = 1, !.st = "ok"])]
  BY DEF NextImage
<1>3. /\ Object(b) /\ Buffer(b) /\ Places(b) /\ b.gstate = "start" /\ b.consume \in ConsumeMethods /\ ~b.dummy
      /\ b.image \in 1 .. MaxImages /\ b.row = <<>>
      /\ \A code \in DOMAIN b.save : b.save[code] \in Nat
  <2>1. CASE c.gstate = "start"
    BY <1>1, <2>1 DEF NextImage, Sound, Typed, Stream
  <2>2. CASE c.gstate # "start"
    <3>1. a.gstate = "start" /\ a.row = <<>> /\ a.image = c.image + 1 /\ Typed(moved) /\ Object(a)
      BY <1>1, <2>2, AbortSound
    <3> HIDE DEF a
    <3>2. Changes(a, moved, {"pos"})
      BY <3>1 DEF Changes
    <3> HIDE DEF moved
    <3>3. /\ moved.buf = a.buf /\ moved.consume = a.consume /\ moved.dummy = a.dummy /\ moved.save = a.save
          /\ moved.inputRow = a.inputRow /\ moved.outputRow = a.outputRow /\ moved.scanline = a.scanline
          /\ moved.ctr = a.ctr /\ moved.voff = a.voff /\ moved.rowsPer = a.rowsPer /\ moved.gstate = a.gstate
      BY <3>1, <3>2 DEF Changes, Object, Fields
    <3>4. Buffer(a) /\ Places(a) /\ a.consume \in ConsumeMethods /\ ~a.dummy
      BY <3>1, <3>3 DEF Typed, Buffer, Places
    <3>5. \A code \in DOMAIN a.save : a.save[code] \in Nat
      BY <3>1, <3>3 DEF Typed, Stream
    <3>6. c.image < MaxImages
      BY <2>2 DEF NextImage
    <3>7. a.image \in 1 .. MaxImages
      BY <1>1, <3>1, <3>6, ImagesAssumption
    <3>8. b = a
      BY <2>2 DEF a
    <3> QED
      BY <3>1, <3>4, <3>5, <3>7, <3>8
  <2> QED
    BY <2>1, <2>2
<1> HIDE DEF b
<1> DEFINE g == [b EXCEPT !.file = f, !.words = Words[f], !.pos = 1, !.st = "ok"]
           e == [g EXCEPT !.loaded = StreamEnd(g)]
<1>4. Changes(b, g, {"file", "words", "pos", "st"}) /\ g.words = Words[f] /\ g.pos = 1 /\ g.st = "ok"
  BY <1>3 DEF Changes, Object, Fields
<1>5. c' = e
  BY <1>2
<1> HIDE DEF g
<1>6. Changes(g, e, {"loaded"}) /\ e.loaded = StreamEnd(g)
  BY <1>3, <1>4 DEF Changes, Object, Fields
<1> HIDE DEF e
<1>7. /\ Changes(b, e, {"file", "words", "pos", "st", "loaded"})
      /\ e.words = Words[f] /\ e.pos = 1 /\ e.st = "ok" /\ e.loaded = StreamEnd(e)
  BY <1>3, <1>4, <1>6 DEF Changes, Object, Fields, StreamEnd
<1>8. Sound(e) /\ e.gstate = "start" /\ e.row = b.row
  BY <1>3, <1>7, NewStreamSound
<1>9. call' = call /\ call = "none" /\ shown' = <<>>
  BY DEF NextImage
<1>10. <<>> \in Seq({}) /\ Len(<<>>) = 0
  OBVIOUS
<1> QED
  BY <1>3, <1>5, <1>8, <1>9, <1>10, TotalRowsNat DEF CallsSound

\* However the calls are interleaved with the arrival of input, after every error and
\* every image given up, the object of the API keeps the invariant.
THEOREM CallsStaySound == Spec => []CallsSound
<1>1. Init => CallsSound
  <2> SUFFICES ASSUME Init PROVE CallsSound
    OBVIOUS
  <2>1. PICK f \in Files, save \in SaveSettings, all \in BOOLEAN :
          c = [CreateDecompress(f, save) EXCEPT !.loaded = IF all THEN StreamEnd(CreateDecompress(f, save)) ELSE 0]
    BY DEF Init
  <2>2. Sound(c) /\ c.gstate = "start" /\ c.pos = 1 /\ c.row = <<>>
    <3>1. c = Created(f, save, all)
      BY <2>1 DEF Created
    <3> QED
      BY <3>1, CreateSound
  <2>3. call = "none" /\ shown = <<>> /\ <<>> \in Seq({}) /\ Len(<<>>) = 0
    BY DEF Init
  <2> QED
    BY <2>2, <2>3, TotalRowsNat DEF CallsSound
<1>2. CallsSound /\ [Next]_vars => CallsSound'
  <2> SUFFICES ASSUME CallsSound, [Next]_vars PROVE CallsSound'
    OBVIOUS
  <2>1. CASE Load
    BY <2>1, LoadKeeps
  <2>2. CASE NextImage
    BY <2>2, NextImageKeeps
  <2>3. CASE LibStep
    BY <2>3, LibStepSound
  <2>4. CASE \E fn \in Calls : Begin(fn)
    BY <2>4, BeginKeeps
  <2>5. CASE UNCHANGED vars
    BY <2>5 DEF CallsSound, vars
  <2> QED
    BY <2>1, <2>2, <2>3, <2>4, <2>5 DEF Next
<1> QED
  BY <1>1, <1>2, PTL DEF Spec

\* Every field of the decompression object keeps one of its values, and the controllers
\* stay inside the image: whatever the datastream contains, no row counter of the main
\* and coefficient controllers passes the iMCU rows of the image, the bit buffer never
\* takes more than its depth, and a pass that reads from the coefficient arrays has them.
THEOREM ObjectTyped == Spec => []TypeOK
<1>1. CallsSound => TypeOK
  <2> SUFFICES ASSUME CallsSound PROVE TypeOK
    OBVIOUS
  <2>1. Sound(c) /\ Typed(c)
    BY DEF CallsSound, Sound
  <2>2. /\ call \in Calls \cup {"none"} /\ c.gstate \in GlobalStates /\ c.st \in Outcomes
        /\ c.pos \in Nat \ {0} /\ c.loaded \in 0 .. StreamEnd(c) /\ c.image \in 1 .. MaxImages + 1
        /\ c.consume \in {"markers", "data", "dummy"} /\ Len(c.buf) <= Depth /\ Len(shown) <= TotalRows
    BY <2>1 DEF CallsSound, Typed, Stream, Buffer, ConsumeMethods
  <2>3. /\ c.inputRow \in 0 .. TotalRows /\ c.outputRow \in 0 .. TotalRows /\ c.scanline \in 0 .. TotalRows
        /\ c.ctr < Cols /\ c.voff < MaxV
    BY <2>1, MaxVBound, GeometryAssumption DEF Typed, Places
  <2>4. ASSUME c.gstate \in Active PROVE c.coefs # <<>> /\ (c.consume = "data" => c.fullBuffer)
    BY <2>1, <2>4 DEF Sound, Passing
  <2> QED
    BY <2>2, <2>3, <2>4 DEF TypeOK, Active, Output, Buffered
<1> QED
  BY <1>1, CallsStaySound, PTL

\* Whatever image the object was given up on before, in whatever call and state,
\* nothing of it is pointed to in the next one: jpeg_abort frees comp_info and the
\* marker being saved, and reset_marker_reader forgets both before anything is read.
THEOREM NothingDangles == Spec => []NoDanglingImageMemory
<1>1. CallsSound => NoDanglingImageMemory
  <2> SUFFICES ASSUME CallsSound, c.gstate # "start"
               PROVE  /\ c.comps = NoComps \/ c.comps.image = c.image
                      /\ c.cur = NoMarker \/ c.cur.image = c.image
    BY DEF NoDanglingImageMemory
  <2>1. Reader(c)
    BY DEF CallsSound, Sound, Passive, Heading, Running
  <2> QED
    BY <2>1 DEF Reader, Components, Saving
<1> QED
  BY <1>1, CallsStaySound, PTL
=============================================================================
