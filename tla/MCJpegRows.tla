----------------------------- MODULE MCJpegRows -----------------------------
(***************************************************************************)
(* Blocks of four rows.  Heights of one row, less than an iMCU row, one    *)
(* row more than an iMCU row, and three iMCU rows short of one row group.  *)
(***************************************************************************)
EXTENDS JpegRows, TLC

Geometry(v, h, height) == [v |-> v, h |-> h, height |-> height]
Input(v, h, height, smoothing) == Geometry(v, h, height) @@ [smoothing |-> smoothing]
Output(v, h, height, m, fancy, merged, buffered, quants) ==
  Geometry(v, h, height) @@
    [m |-> m, fancy |-> fancy, merged |-> merged, buffered |-> buffered, quants |-> quants]

MCInputs ==
  {Input(<<2, 1>>, <<2, 1>>, height, smoothing) : height \in {1, 7, 9, 21}, smoothing \in BOOLEAN}
    \cup {Input(<<1, 1>>, <<2, 1>>, 6, TRUE), Input(<<4, 1, 2>>, <<2, 2, 1>>, 18, FALSE),
          Input(<<3, 1>>, <<1, 1>>, 13, TRUE)}

MCOutputs ==
  {Output(<<2, 1>>, <<2, 1>>, height, m, TRUE, FALSE, FALSE, {"none"}) : height \in {1, 7, 9, 21}, m \in {1, 2, 4}}
    \cup {Output(<<2, 1>>, <<2, 1>>, height, 4, FALSE, TRUE, FALSE, {quant}) :
            height \in {7, 10}, quant \in {"none", "1pass", "2pass"}}
    \cup {Output(<<1, 1>>, <<2, 1>>, 5, 4, FALSE, TRUE, FALSE, {"none"}),
          Output(<<2, 1>>, <<2, 1>>, 9, 4, TRUE, FALSE, TRUE, {"1pass", "2pass"}),
          Output(<<2, 1>>, <<2, 1>>, 19, 2, TRUE, FALSE, TRUE, {"none"}),
          Output(<<1, 2>>, <<1, 2>>, 17, 4, TRUE, FALSE, FALSE, {"2pass"}),
          Output(<<4, 2, 1>>, <<2, 1, 2>>, 19, 4, TRUE, FALSE, FALSE, {"1pass"}),
          Output(<<2, 4>>, <<1, 2>>, 20, 4, TRUE, FALSE, FALSE, {"2pass"}),
          Output(<<3, 1>>, <<1, 1>>, 10, 4, FALSE, FALSE, FALSE, {"2pass"})}
=============================================================================
