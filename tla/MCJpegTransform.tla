-------------------------- MODULE MCJpegTransform ---------------------------
(***************************************************************************)
(* Blocks of two by two coefficients.  Images of one, two and three        *)
(* components, with complete and with partial iMCUs on either edge, and    *)
(* narrower than an iMCU.  No two coefficients of an image are equal.      *)
(***************************************************************************)
EXTENDS JpegTransform

Blank(width, height, h, v, tbl) ==
  [width |-> width, height |-> height, h |-> h, v |-> v, tbl |-> tbl,
   quant |-> [k \in 1..2 |-> [i \in 0..1 |-> [j \in 0..1 |-> 1 + 4 * k + 2 * i + j]]], coef |-> <<>>]
Filled(im) ==
  [im EXCEPT !.coef = [ci \in DOMAIN im.h |-> [y \in 0 .. BlockRows(im, ci) - 1 |->
     [x \in 0 .. BlockCols(im, ci) - 1 |-> [i \in 0..1 |-> [j \in 0..1 |->
        100 * ci + 20 * y + 4 * x + 2 * i + j + 1]]]]]]

MCBasis == [k \in 0..1 |-> [s \in 0..1 |-> IF k = 1 /\ s = 1 THEN -1 ELSE 1]]

MCImages ==
  {Filled(Blank(width, height, <<1>>, <<1>>, <<2>>)) : width \in {2, 5}, height \in {1, 4}}
    \cup {Filled(Blank(width, height, <<2, 1>>, <<2, 1>>, <<1, 2>>)) : width \in {3, 7, 8}, height \in {4, 9}}
    \cup {Filled(Blank(9, 5, <<2, 1, 1>>, <<1, 1, 1>>, <<1, 2, 2>>)),
          Filled(Blank(6, 7, <<1, 2>>, <<2, 1>>, <<1, 1>>))}
=============================================================================
