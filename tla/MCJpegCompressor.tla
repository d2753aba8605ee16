-------------------------- MODULE MCJpegCompressor --------------------------
(***************************************************************************)
(* Two components, the first with twice the sampling of the second in both *)
(* directions, three by three blocks: the last MCU row and column hold     *)
(* dummy blocks.  Four AC coefficients per block.                          *)
(***************************************************************************)
EXTENDS JpegCompressor

MCHSamp == <<2, 1>>
MCVSamp == <<2, 1>>

\* Coefficients with every sign, long and short runs of zeros, blocks without AC.
MCBlock(i) == [dc |-> ((5 * i) % 7) - 3,
               ac |-> CASE i % 6 = 0 -> <<0, 0, 0, -1>> [] i % 6 = 1 -> <<0, 0, 0, 0>>
                        [] i % 6 = 2 -> <<3, 1, 0, 2>>  [] i % 6 = 3 -> <<2, 0, -2, 3>>
                        [] i % 6 = 4 -> <<-3, 2, 2, 0>> [] i % 6 = 5 -> <<1, 0, 0, 1>>]
MCPicture(shift) == <<[row \in 1..3 |-> [col \in 1..3 |-> MCBlock(3 * row + col + shift)]],
                      [row \in 1..2 |-> [col \in 1..2 |-> MCBlock(2 * row + 3 * col + shift)]]>>
MCPictures == <<MCPicture(0), MCPicture(4)>>

Scan(comps, ss, se, ah, al) == [comps |-> comps, Ss |-> ss, Se |-> se, Ah |-> ah, Al |-> al]
Multi == <<Scan(<<1>>, 0, 4, 0, 0), Scan(<<2>>, 0, 4, 0, 0)>>
Progression == <<Scan(<<1, 2>>, 0, 0, 0, 1), Scan(<<2>>, 1, 2, 0, 0), Scan(<<1>>, 1, 4, 0, 1),
                 Scan(<<1, 2>>, 0, 0, 1, 0), Scan(<<1>>, 1, 4, 1, 0), Scan(<<2>>, 3, 4, 0, 1)>>
SkippedBit == <<Scan(<<1, 2>>, 0, 0, 0, 2), Scan(<<1, 2>>, 0, 0, 2, 0)>>
NoDc == <<Scan(<<1>>, 0, 0, 0, 0), Scan(<<2>>, 1, 4, 0, 0)>>

Sequential == [optimize |-> FALSE, raw |-> FALSE, script |-> <<>>, interval |-> 0, inRows |-> 0,
               slots |-> <<0, 1>>, quality |-> 5, bad |-> FALSE]
MCSettings == {[Sequential EXCEPT !.interval = 3],
               [Sequential EXCEPT !.raw = TRUE, !.inRows = 1, !.quality = 7],
               [Sequential EXCEPT !.optimize = TRUE, !.interval = 1, !.slots = <<0, 0>>],
               [Sequential EXCEPT !.script = Multi, !.inRows = 1],
               [Sequential EXCEPT !.script = Multi, !.interval = 1],
               [Sequential EXCEPT !.script = Multi, !.optimize = TRUE, !.slots = <<0, 0>>, !.interval = 5],
               [Sequential EXCEPT !.script = Progression, !.slots = <<0, 0>>],
               [Sequential EXCEPT !.script = Progression, !.inRows = 2],
               [Sequential EXCEPT !.script = SkippedBit, !.bad = TRUE],
               [Sequential EXCEPT !.script = NoDc, !.bad = TRUE]}
=============================================================================
