------------------------- MODULE MCJpegDecompressor -------------------------
(***************************************************************************)
(* Small datastreams for JpegDecompressor, written by an encoder that puts *)
(* a different value into every block: two components, the first with      *)
(* twice the vertical sampling of the second, three block rows (so that    *)
(* the last iMCU row is short) and two columns.                            *)
(***************************************************************************)
EXTENDS JpegDecompressor

MCVSamp == <<2, 1>>

\* The concatenation of f[1], ..., f[n], which TLC keeps as a tuple.
Concat(f, n) == LET cat[i \in 0..n] == IF i = 0 THEN <<>> ELSE cat[i - 1] \o f[i] IN cat[n]

\* The values encoded at a place, and the order of the blocks of a scan.
Dc(b) == 1 + b[2] + 3 * (b[3] - 1) + 6 * (b[1] - 1)
Acv(b) == Dc(b) + 1

\* With successive approximation the AC coefficients are the two digits of a value,
\* of which the first scan brings the upper bits.
RefAc(b) == CASE Dc(b) = 2 -> 31 [] Dc(b) = 5 -> 13 [] Dc(b) = 6 -> 1
              [] Dc(b) = 4 -> 23 [] Dc(b) = 7 -> 30 [] OTHER -> 0
UpperDigits(v) == 10 * ((v \div 10) \div 2) + (v % 10) \div 2

\* The MCUs of the scans of component 1, of component 2 and of both.
McusOf1  == <<<<<<1, 1, 1>>>>, <<<<1, 1, 2>>>>, <<<<1, 2, 1>>>>, <<<<1, 2, 2>>>>,
              <<<<1, 3, 1>>>>, <<<<1, 3, 2>>>>>>
McusOf2  == <<<<<<2, 1, 1>>>>, <<<<2, 1, 2>>>>, <<<<2, 2, 1>>>>, <<<<2, 2, 2>>>>>>
McusOf12 == <<<<<<1, 1, 1>>, <<1, 2, 1>>, <<2, 1, 1>>>>, <<<<1, 1, 2>>, <<1, 2, 2>>, <<2, 1, 2>>>>,
              <<<<1, 3, 1>>, <<1, 4, 1>>, <<2, 2, 1>>>>, <<<<1, 3, 2>>, <<1, 4, 2>>, <<2, 2, 2>>>>>>
Mcus(cis) == CASE cis = <<1>> -> McusOf1 [] cis = <<2>> -> McusOf2 [] cis = <<1, 2>> -> McusOf12

\* The DC value block j of MCU m is predicted from.
Prediction(mcus, interval, m, j) ==
  LET start == IF interval = 0 THEN 1 ELSE ((m - 1) \div interval) * interval + 1
      before == {<<n, i>> \in (start..m) \X (1..4) :
                   /\ i \in DOMAIN mcus[n] /\ mcus[n][i][1] = mcus[m][j][1]
                   /\ n < m \/ i < j}
      last == CHOOSE p \in before : \A q \in before : 10 * p[1] + p[2] >= 10 * q[1] + q[2]
  IN IF before = {} THEN 0 ELSE Dc(mcus[last[1]][last[2]])

\* The words of an MCU in a scan of this kind, with this Huffman table.
McuWords(mcus, interval, kind, table, m) ==
  Concat([j \in DOMAIN mcus[m] |->
    LET b == mcus[m][j]
        p == Prediction(mcus, interval, m, j)
    IN CASE kind = "seq"      -> <<Dc(b) - p + table, Acv(b) + table>>
         [] kind = "dc"       -> <<Dc(b) - p + table>>
         [] kind = "dc upper" -> <<Dc(b) \div 2 - p \div 2 + table>>
         [] kind = "dc bit"   -> <<Dc(b) % 2>>
         [] kind = "ac"       -> <<Acv(b) + table>>
         [] kind = "ac upper" -> <<UpperDigits(RefAc(b)) + table>>], Len(mcus[m]))

\* Marks gives what is written in the place of the restart marker before segment s.
Marker(s) == <<FF, RST0 + ((s - 2) % 8)>>
Segments(cis, interval, kind, table, Marks(_)) ==
  LET mcus == Mcus(cis)
  IN Concat([m \in DOMAIN mcus |->
       (IF interval > 0 /\ m > 1 /\ (m - 1) % interval = 0 THEN Marks((m - 1) \div interval + 1) ELSE <<>>)
         \o McuWords(mcus, interval, kind, table, m)], Len(mcus))

App0(tag)      == <<FF, APP0, 3, tag, 7>>
App14(t)       == <<FF, APP14, 4, AdobeTag, t, 9>>
App5           == <<FF, APP0 + 5, 2, JfifTag>>     \* neither saved nor looked at
Comment        == <<FF, COM, 5, 1, 2, 3, 4>>
Dqt(slot, v)   == <<FF, DQT, 4, slot, v, v>>
Dht(slot, v)   == <<FF, DHT, 3, slot, v>>
Dri(n)         == <<FF, DRI, 2, n>>
Sof(code, n)   == <<FF, code, n + 2, n>> \o [i \in 1..n |-> 16 * i]
Sos(cis, tbl, ss) == <<FF, SOS, Len(cis) + 3, Len(cis)>>
                       \o [k \in DOMAIN cis |-> 16 * cis[k] + tbl] \o <<ss>>
Start == <<FF, SOI>>
End   == <<FF, EOI>>

Body(Marks(_)) == Dqt(0, 5) \o Dht(0, 20) \o Dri(2) \o Sof(SOF0, 1) \o Sos(<<1>>, 0, 0)
                    \o Segments(<<1>>, 2, "seq", 20, Marks) \o End
Grey(Marks(_)) == Start \o Body(Marks)

\* An AC scan whose first three blocks are an end-of-band run.
RunScan == LET s == Segments(<<1>>, 0, "ac", 20, Marker) IN <<EobBase + 3 + 20>> \o SubSeq(s, 4, Len(s))

GreyFile == Start \o App0(JfifTag) \o Comment \o Body(Marker)
TwoFile == Start \o App14(1) \o App5 \o Dqt(0, 5) \o Dht(1, 40) \o Sof(SOF0, 2) \o Sos(<<1, 2>>, 1, 0)
  \o Segments(<<1, 2>>, 0, "seq", 40, Marker) \o End
\* Segments whose length word is bogus: such a comment is not a marker to save.
Bogus == <<FF, COM, 0, FF, APP14, 0>>
MultiFile == Start \o Bogus \o Dqt(0, 5) \o Dht(0, 20) \o Sof(SOF0, 2) \o Sos(<<1>>, 0, 0)
  \o Segments(<<1>>, 0, "seq", 20, Marker)
  \o Dqt(0, 6) \o Dht(0, 40) \o Sos(<<2>>, 0, 0)
  \o Segments(<<2>>, 0, "seq", 40, Marker) \o End
\* An AC refinement of RefAc: new coefficients, end-of-band runs, correction bits.
RefineWords == <<21, 1, 21, 20, 1, 20, 22, EobBase + 2 + 20, 0, 1, 1>>

ProgFile == Start \o Dqt(0, 5) \o Dht(0, 20) \o Sof(SOF2, 2)
  \o Sos(<<1, 2>>, 0, 2) \o Segments(<<1, 2>>, 0, "dc upper", 20, Marker)
  \o Sos(<<1, 2>>, 0, 4) \o Segments(<<1, 2>>, 0, "dc bit", 20, Marker)
  \o Sos(<<1>>, 0, 1) \o RunScan \o End
RefFile == Start \o Dqt(0, 5) \o Dht(0, 20) \o Sof(SOF2, 1)
  \o Sos(<<1>>, 0, 0) \o Segments(<<1>>, 0, "dc", 20, Marker)
  \o Sos(<<1>>, 0, 3) \o Segments(<<1>>, 0, "ac upper", 20, Marker)
  \o Sos(<<1>>, 0, 5) \o RefineWords \o End
LostFile == Grey(LAMBDA s : IF s = 2 THEN <<>> ELSE Marker(s))
TwiceFile == Grey(LAMBDA s : IF s = 2 THEN Marker(s) \o Marker(s) ELSE Marker(s))
FarFile == Grey(LAMBDA s : IF s = 2 THEN Marker(s + 4) ELSE Marker(s))
CutFile == SubSeq(Grey(Marker), 1, 33)
TablesFile == Start \o Dqt(0, 5) \o Dht(0, 20) \o End
ManyFile == Start \o Dqt(0, 5) \o Dht(0, 20) \o Sof(SOF0, 3) \o Sos(<<1>>, 0, 0)
NextFile == Start \o Comment \o Dqt(0, 6) \o Dht(1, 40) \o Sof(SOF0, 2) \o Sos(<<1, 2>>, 1, 0)
  \o Segments(<<1, 2>>, 0, "seq", 40, Marker) \o End

MCWords == [grey |-> GreyFile, two |-> TwoFile, multi |-> MultiFile, prog |-> ProgFile,
            ref |-> RefFile,
            lost |-> LostFile, twice |-> TwiceFile, far |-> FarFile,
            cut |-> CutFile, tables |-> TablesFile, many |-> ManyFile, next |-> NextFile]

\* What they encode.  The AC values the progressive file does not bring are the
\* estimates of block smoothing, from the DC values above and below.
Estimate(b) == LET rows == BlockRows(b[1])
               IN <<Dc(<<b[1], IF b[2] = 1 THEN 1 ELSE b[2] - 1, b[3]>>),
                    Dc(<<b[1], IF b[2] = rows THEN rows ELSE b[2] + 1, b[3]>>)>>
InRun(b) == b[1] = 1 /\ Dc(b) \in {2, 3, 5}        \* the first three blocks in scan order

ImageOf(Q(_), Ac(_)) == [ci \in 1..2 |-> [row \in 1 .. BlockRows(ci) |-> [col \in 1..Cols |->
  [dc |-> Dc(<<ci, row, col>>), ac |-> Ac(<<ci, row, col>>), q |-> Q(ci)]]]]

Whole(jfif, adobe, markers, image, dcScan, acScan) ==
  [intact |-> TRUE, jfif |-> jfif, adobe |-> adobe, markers |-> markers, image |-> image,
   dcScan |-> dcScan, acScan |-> acScan]
Plain(Q(_)) == ImageOf(Q, LAMBDA b : <<Acv(b)>>)
Q5(ci) == <<5, 5>>
Q6(ci) == <<6, 6>>
CommentData == [code |-> COM, data |-> <<1, 2, 3, 4>>]
OfGrey == Whole(FALSE, 0, <<>>, Plain(Q5), <<1, 1>>, <<1, 1>>)
Damaged == [OfGrey EXCEPT !.intact = FALSE]

OfFirst == [OfGrey EXCEPT !.jfif = TRUE,
                          !.markers = <<[code |-> APP0, data |-> <<JfifTag, 7>>], CommentData>>]
OfTwo   == [OfGrey EXCEPT !.adobe = 2, !.markers = <<[code |-> APP14, data |-> <<AdobeTag, 1, 9>>]>>]
OfMulti == Whole(FALSE, 0, <<>>, Plain(LAMBDA ci : IF ci = 1 THEN <<5, 5>> ELSE <<6, 6>>),
                 <<1, 2>>, <<1, 2>>)
OfProg  == Whole(FALSE, 0, <<>>,
                 ImageOf(Q5, LAMBDA b : IF b[1] = 2 THEN Estimate(b)
                                        ELSE IF InRun(b) THEN <<0>> ELSE <<Acv(b)>>),
                 <<2, 2>>, <<3, 4>>)
OfRef   == Whole(FALSE, 0, <<>>, ImageOf(Q5, LAMBDA b : <<RefAc(b)>>), <<1, 1>>, <<3, 1>>)
OfNext  == Whole(FALSE, 0, <<CommentData>>, Plain(Q6), <<1, 1>>, <<1, 1>>)

MCWant == [grey |-> OfFirst, two |-> OfTwo, multi |-> OfMulti, prog |-> OfProg, ref |-> OfRef, lost |-> Damaged,
           twice |-> Damaged, far |-> Damaged, cut |-> Damaged, tables |-> OfGrey, many |-> Damaged, next |-> OfNext]

MCFiles == {"grey", "two", "multi", "prog", "ref", "lost", "twice", "far", "cut", "tables", "many"}
\* Comments cut short, APP0 saved whole, APP14 not saved.
MCSaveSettings == {[k \in {APP0, APP14, COM} |-> CASE k = COM -> 2 [] k = APP0 -> 9 [] k = APP14 -> 0]}
=============================================================================
