------------------------------ MODULE MCLoans ------------------------------
EXTENDS Loans

\* "ann" and "ANN" differ in case, " ann" has a blank before it.
MCStrip == [n \in Names |-> IF n = " ann" THEN "ann" ELSE n]
MCFold == [n \in Names |-> CASE n = "ANN" -> "ann" [] OTHER -> n]

MCWorks == [label : Labels, native : Natives \cup {None}, borrower : Names]

\* Sorting by label: a movie without one comes first.
MCKey == [w \in Works |-> IF w.label = NoLabel THEN 0 ELSE 1]

Work(label, native, borrower) ==
    [label |-> label, native |-> native, borrower |-> borrower]

\* A movie of a disc, on loan by a form or an edit under a name that is not
\* stripped.
MCEntered == {Work("disc", None, " ann")}

\* No file, and a file another catalog was saved to, with lists of its own: two
\* movies under one number, one such a movie, and one with the number of the
\* first as its native number.
MCArchives ==
    {[rows |-> <<>>, keys |-> {}, history |-> <<>>, managed |-> <<>>],
     [rows |-> <<[number |-> 1, work |-> Work("disc", None, " ann")],
                 [number |-> 1, work |-> Work("", 1, "")]>>,
      keys |-> {HistoryKey, BorrowersKey},
      history |-> <<[action |-> "out", number |-> 1, borrower |-> "ann"]>>,
      managed |-> <<"ann">>]}
=============================================================================
