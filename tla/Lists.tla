-------------------------------- MODULE Lists --------------------------------
(* The loops over lists that several modules share.                        *)
EXTENDS Integers, SequencesExt

\* [item for item in list if item in S]
Kept(list, S) ==
    FoldLeft(LAMBDA kept, item : IF item \in S THEN Append(kept, item) ELSE kept,
             <<>>, list)

\* The loops that add up numbers.
Total(list) == FoldLeft(LAMBDA sum, n : sum + n, 0, list)
=============================================================================
