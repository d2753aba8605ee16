---------------------------- MODULE PlainArrays -----------------------------
(***************************************************************************)
(* What the virtual arrays of jmemmgr.c promise: each is an ordinary array *)
(* whose rows are defined from the first one on, by writing them in order. *)
(* An access gives the caller a strip of rows; what it sees there is what  *)
(* was last stored, zeroes in a pre-zeroed array's undefined rows, and for *)
(* other newly defined rows anything.                                      *)
(***************************************************************************)
EXTENDS Integers

CONSTANTS Arrays, Rows, MaxAccess, PreZero, Values, Zero

VARIABLES arr,      \* the defined rows of each array, a function on 0 .. n - 1
          view,     \* what the caller sees in the strip it has of each array
          writable, \* whether it may store into it
          failed    \* the last operation ended in ERREXIT
plainVars == <<arr, view, writable, failed>>

Nothing == [r \in {} |-> Zero]

Init ==
  /\ arr = [a \in Arrays |-> Nothing] /\ view = [a \in Arrays |-> Nothing]
  /\ writable = [a \in Arrays |-> FALSE] /\ failed = FALSE

\* The caller gets rows s .. e - 1; an access for writing defines them.
Access(a, s, e, w) ==
  LET old == DOMAIN arr[a]
      new == IF w THEN (s .. e - 1) \ old ELSE {}
  IN /\ ~failed /\ s < e /\ e <= Rows[a] /\ e - s <= MaxAccess[a]
     /\ w => \A r \in 0 .. s - 1 : r \in old
     /\ ~w => PreZero[a] \/ s .. e - 1 \subseteq old
     /\ arr' = [arr EXCEPT ![a] = arr'[a]] /\ DOMAIN arr'[a] = old \cup new
     /\ \A r \in old : arr'[a][r] = arr[a][r]
     /\ \A r \in new : IF PreZero[a] THEN arr'[a][r] = Zero ELSE arr'[a][r] \in Values
     /\ view' = [view EXCEPT ![a] = [r \in s .. e - 1 |->
                                       IF r \in old \cup new THEN arr'[a][r] ELSE Zero]]
     /\ writable' = [writable EXCEPT ![a] = w]
     /\ UNCHANGED failed

\* An operation that ends in an error loses no data, only the strip.
FailAccess(a) ==
  /\ ~failed /\ failed' = TRUE
  /\ view' = [view EXCEPT ![a] = Nothing] /\ writable' = [writable EXCEPT ![a] = FALSE]
  /\ UNCHANGED arr

Store(a, r, x) ==
  /\ ~failed /\ writable[a] /\ r \in DOMAIN view[a]
  /\ arr' = [arr EXCEPT ![a][r] = x] /\ view' = [view EXCEPT ![a][r] = x]
  /\ UNCHANGED <<writable, failed>>

Fail == failed' = TRUE /\ UNCHANGED <<arr, view, writable>>

\* The end of the image.
Clear ==
  /\ arr' = [a \in Arrays |-> Nothing] /\ view' = [a \in Arrays |-> Nothing]
  /\ writable' = [a \in Arrays |-> FALSE] /\ failed' = FALSE

Next ==
  \/ \E a \in Arrays :
       \/ \E s, e \in 0 .. Rows[a], w \in BOOLEAN : Access(a, s, e, w)
       \/ FailAccess(a)
       \/ \E r \in 0 .. Rows[a] - 1, x \in Values : Store(a, r, x)
  \/ Fail \/ Clear

Spec == Init /\ [][Next]_plainVars
=============================================================================
