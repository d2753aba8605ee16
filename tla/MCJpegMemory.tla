---------------------------- MODULE MCJpegMemory ----------------------------
(***************************************************************************)
(* A virtual array of three rows accessed one or two at a time, and a      *)
(* second one that shares the memory with it.                              *)
(***************************************************************************)
EXTENDS JpegMemory

MCRows      == [a \in Arrays |-> IF a = "coef" THEN 3 ELSE 2]
MCMaxAccess == [a \in Arrays |-> IF a = "coef" THEN 2 ELSE 1]
MCPreZero   == [a \in Arrays |-> a = "coef"]
MCRowSize   == [a \in Arrays |-> IF a = "coef" THEN 4 ELSE 3]
MCFirstSlop == [p \in Pools |-> IF p = "permanent" THEN 5 ELSE 13]
MCExtraSlop == [p \in Pools |-> IF p = "permanent" THEN 0 ELSE 6]
=============================================================================
