--------------------------- MODULE VirtualArrays ----------------------------
(***************************************************************************)
(* The virtual arrays of jmemmgr.c: a strip of rows in memory, as high as  *)
(* the memory granted allows, over a backing store file that holds the     *)
(* rest.  Sample arrays and block arrays differ in the element type only.  *)
(* The model keeps the window, the dirty flag, the row from which on the   *)
(* array is undefined, and pre-zeroing; a row is one value.  The system    *)
(* part behind jmemsys.h decides how much memory there is and keeps the    *)
(* backing store: jmemnobs.c, the one in this source tree, grants all that *)
(* is asked for and has no backing store; others grant less.               *)
(***************************************************************************)
EXTENDS Integers

CONSTANTS Arrays,     \* the virtual arrays of an image
          Rows,       \* rows_in_array of each
          MaxAccess,  \* its maxaccess
          PreZero,    \* its pre_zero
          Values,     \* the contents a row can have
          Zero,       \* a row of zeroes
          Junk        \* what fresh memory and a fresh file hold

ASSUME ArraysAssumption ==
  /\ Rows \in [Arrays -> Nat \ {0}] /\ MaxAccess \in [Arrays -> Nat \ {0}]
  /\ PreZero \in [Arrays -> BOOLEAN]
  /\ Zero \in Values /\ Junk \in Values

VARIABLES requested,   \* the array has a control block
          inMem,       \* rows_in_mem, 0 as long as mem_buffer is NULL
          open,        \* b_s_open
          cur,         \* cur_start_row
          undef,       \* first_undef_row
          dirty,
          buf,         \* mem_buffer
          file,        \* what the backing store holds
          strip,       \* the rows the caller has been given
          wr,          \* and whether for writing
          failed       \* the last operation ended in ERREXIT
vars == <<requested, inMem, open, cur, undef, dirty, buf, file, strip, wr, failed>>
window == <<cur, undef, dirty, buf, file, strip, wr>>

NoRows == [r \in 0 .. -1 |-> Junk]

\* realize_virt_arrays: with room for h times maxaccess rows the whole array fits
\* or it gets a backing store.
MinHeights(a) == ((Rows[a] - 1) \div MaxAccess[a]) + 1
FitsIn(a, h)  == MinHeights(a) <= h
InMem(a, h)   == IF FitsIn(a, h) THEN Rows[a] ELSE h * MaxAccess[a]

\* The heights a buffer can get, in units of maxaccess.
Heights == UNION {1 .. MinHeights(a) : a \in Arrays}

-----------------------------------------------------------------------------
\* access_virt_sarray, access_virt_barray: rows s .. e - 1.  NewCur, NewFile and
\* NewBuf are the window, the file and the buffer after the window has moved.

Outside(a, s, e) == s < cur[a] \/ e > cur[a] + inMem[a]

\* do_sarray_io, do_barray_io: the rows of the buffer at c that are transferred.
Moves(a, c, i) == i \in 0 .. inMem[a] - 1 /\ c + i < undef[a] /\ c + i < Rows[a]

\* A bug to be caught: the buffer is reloaded without being flushed.
NewFileUnflushed(a, s, e) == file[a]

NewFile(a, s, e) ==
  IF Outside(a, s, e) /\ dirty[a]
  THEN [r \in 0 .. Rows[a] - 1 |->
          IF Moves(a, cur[a], r - cur[a]) THEN buf[a][r - cur[a]] ELSE file[a][r]]
  ELSE file[a]

\* Forward: load starting at the target.  Backward: load so that the target is
\* the top of the window.
NewCur(a, s, e) == IF ~Outside(a, s, e) THEN cur[a]
                   ELSE IF s > cur[a] THEN s
                   ELSE IF e < inMem[a] THEN 0 ELSE e - inMem[a]

NewBuf(a, s, e) ==
  IF Outside(a, s, e)
  THEN [i \in 0 .. inMem[a] - 1 |->
          IF Moves(a, NewCur(a, s, e), i) THEN NewFile(a, s, e)[NewCur(a, s, e) + i] ELSE buf[a][i]]
  ELSE buf[a]

\* Pre-zeroing: the undefined rows of the strip only; a reader may read ahead.
Zeroed(a, s, e) ==
  LET c == NewCur(a, s, e)
  IN IF PreZero[a]
     THEN [i \in 0 .. inMem[a] - 1 |->
             IF c + i \in s .. e - 1 /\ c + i >= undef[a] THEN Zero ELSE NewBuf(a, s, e)[i]]
     ELSE NewBuf(a, s, e)

Illegal(a, s, e) ==
  \/ e > Rows[a] \/ e - s > MaxAccess[a] \/ inMem[a] = 0
  \/ Outside(a, s, e) /\ ~open[a]

\* A writer skipped over a section, or a reader looks at undefined data.
Skips(a, s, e, w) == undef[a] < e /\ IF w THEN undef[a] < s ELSE ~PreZero[a]

-----------------------------------------------------------------------------
\* The operations.

Init ==
  /\ requested = [a \in Arrays |-> FALSE] /\ inMem = [a \in Arrays |-> 0]
  /\ open = [a \in Arrays |-> FALSE] /\ cur = [a \in Arrays |-> 0]
  /\ undef = [a \in Arrays |-> 0] /\ dirty = [a \in Arrays |-> FALSE]
  /\ buf = [a \in Arrays |-> NoRows] /\ file = [a \in Arrays |-> NoRows]
  /\ strip = [a \in Arrays |-> {}] /\ wr = [a \in Arrays |-> FALSE]
  /\ failed = FALSE

\* request_virt_sarray, request_virt_barray
RequestVirt(a) ==
  /\ ~failed /\ ~requested[a]
  /\ requested' = [requested EXCEPT ![a] = TRUE]
  /\ UNCHANGED <<inMem, open, window, failed>>

Unrealized == {a \in Arrays : requested[a] /\ inMem[a] = 0}

Realized(S, h) ==
  /\ inMem' = [a \in Arrays |-> IF a \in S THEN InMem(a, h) ELSE inMem[a]]
  /\ buf' = [a \in Arrays |-> IF a \in S THEN [i \in 0 .. InMem(a, h) - 1 |-> Junk] ELSE buf[a]]
  /\ file' = [a \in Arrays |-> IF a \in S THEN [r \in 0 .. Rows[a] - 1 |-> Junk] ELSE file[a]]
  /\ cur' = [a \in Arrays |-> IF a \in S THEN 0 ELSE cur[a]]
  /\ undef' = [a \in Arrays |-> IF a \in S THEN 0 ELSE undef[a]]
  /\ dirty' = [a \in Arrays |-> IF a \in S THEN FALSE ELSE dirty[a]]
  /\ UNCHANGED <<requested, strip, wr>>

\* realize_virt_arrays: all of them, or those before the one whose file or memory
\* is not to be had.
Realize(h) ==
  /\ ~failed /\ h \in Heights
  /\ Realized(Unrealized, h)
  /\ open' = [a \in Arrays |-> IF a \in Unrealized THEN ~FitsIn(a, h) ELSE open[a]]
  /\ UNCHANGED failed

RealizeFails(h, done, bad, opened) ==
  /\ ~failed /\ h \in Heights /\ bad \in Unrealized
  /\ done \subseteq Unrealized \ {bad} /\ opened \in BOOLEAN
  /\ Realized(done, h)
  /\ open' = [a \in Arrays |-> IF a \in done THEN ~FitsIn(a, h)
                               ELSE IF a = bad THEN opened ELSE open[a]]
  /\ failed' = TRUE

Moved(a, s, e) ==
  /\ cur' = [cur EXCEPT ![a] = NewCur(a, s, e)]
  /\ file' = [file EXCEPT ![a] = NewFile(a, s, e)]

\* The access is refused, before or after the window has moved.
Refused(a, s, e) ==
  /\ IF Illegal(a, s, e) THEN UNCHANGED <<cur, file, buf, dirty>>
     ELSE /\ Moved(a, s, e)
          /\ buf' = [buf EXCEPT ![a] = NewBuf(a, s, e)]
          /\ dirty' = [dirty EXCEPT ![a] = dirty[a] /\ ~Outside(a, s, e)]
  /\ strip' = [strip EXCEPT ![a] = {}] /\ wr' = [wr EXCEPT ![a] = FALSE]
  /\ failed' = TRUE
  /\ UNCHANGED <<requested, inMem, open, undef>>

Granted(a, s, e, w) ==
  /\ Moved(a, s, e)
  /\ buf' = [buf EXCEPT ![a] = Zeroed(a, s, e)]
  /\ dirty' = [dirty EXCEPT ![a] = w \/ (dirty[a] /\ ~Outside(a, s, e))]
  /\ undef' = [undef EXCEPT ![a] = IF w /\ undef[a] < e THEN e ELSE undef[a]]
  /\ strip' = [strip EXCEPT ![a] = s .. e - 1] /\ wr' = [wr EXCEPT ![a] = w]
  /\ UNCHANGED <<requested, inMem, open, failed>>

Access(a, s, e, w) ==
  /\ ~failed /\ requested[a] /\ s < e
  /\ IF Illegal(a, s, e) \/ Skips(a, s, e, w) THEN Refused(a, s, e) ELSE Granted(a, s, e, w)

\* The caller stores into the strip it has been given for writing.
Store(a, r, x) ==
  /\ ~failed /\ wr[a] /\ r \in strip[a]
  /\ buf' = [buf EXCEPT ![a] = [i \in 0 .. inMem[a] - 1 |-> IF i = r - cur[a] THEN x ELSE buf[a][i]]]
  /\ UNCHANGED <<requested, inMem, open, cur, undef, dirty, file, strip, wr, failed>>

\* Something else runs out of memory.
FailElsewhere ==
  ~failed /\ failed' = TRUE /\ UNCHANGED <<requested, inMem, open, window>>

\* free_pool of the image pool closes the backing stores and forgets the lists.
FreeImage ==
  /\ requested' = [a \in Arrays |-> FALSE] /\ inMem' = [a \in Arrays |-> 0]
  /\ open' = [a \in Arrays |-> FALSE] /\ cur' = [a \in Arrays |-> 0]
  /\ undef' = [a \in Arrays |-> 0] /\ dirty' = [a \in Arrays |-> FALSE]
  /\ buf' = [a \in Arrays |-> NoRows] /\ file' = [a \in Arrays |-> NoRows]
  /\ strip' = [a \in Arrays |-> {}] /\ wr' = [a \in Arrays |-> FALSE]
  /\ failed' = FALSE

Next ==
  \/ \E a \in Arrays :
       \/ RequestVirt(a)
       \/ \E s \in 0 .. Rows[a], n \in 1 .. MaxAccess[a] + 1, w \in BOOLEAN :
            Access(a, s, s + n, w)
       \/ \E r \in 0 .. Rows[a] - 1, x \in Values : Store(a, r, x)
  \/ \E h \in Heights :
       \/ Realize(h)
       \/ \E done \in SUBSET Arrays, bad \in Arrays, opened \in BOOLEAN :
            RealizeFails(h, done, bad, opened)
  \/ FailElsewhere \/ FreeImage

\* The virtual arrays as their users see them, whatever allocates the memory.
Spec == Init /\ [][Next]_vars

-----------------------------------------------------------------------------
\* The plain array a virtual array stands for.

InBuffer(a, r) == cur[a] <= r /\ r < cur[a] + inMem[a]
Row(a, r) == IF InBuffer(a, r) THEN buf[a][r - cur[a]] ELSE file[a][r]

Plain == INSTANCE PlainArrays WITH
  arr <- [a \in Arrays |-> [r \in 0 .. undef[a] - 1 |-> Row(a, r)]],
  view <- [a \in Arrays |-> [r \in strip[a] |-> buf[a][r - cur[a]]]],
  writable <- wr

(* Through every move of the window, every flush and reload, and every       *)
(* refused access, the caller sees an ordinary array: what it stored and     *)
(* nothing else, in the place it stored it.                                  *)
PlainSpec == Plain!Spec

-----------------------------------------------------------------------------
\* The inductive invariant of the proofs.

TypeOK ==
  /\ requested \in [Arrays -> BOOLEAN] /\ inMem \in [Arrays -> Nat]
  /\ open \in [Arrays -> BOOLEAN] /\ cur \in [Arrays -> Nat] /\ undef \in [Arrays -> Nat]
  /\ dirty \in [Arrays -> BOOLEAN] /\ wr \in [Arrays -> BOOLEAN] /\ failed \in BOOLEAN
  /\ strip \in [Arrays -> SUBSET Nat]
  /\ DOMAIN buf = Arrays /\ \A a \in Arrays : buf[a] \in [0 .. inMem[a] - 1 -> Values]
  /\ DOMAIN file = Arrays
  /\ \A a \in Arrays : inMem[a] > 0 => file[a] \in [0 .. Rows[a] - 1 -> Values]

\* A buffer without a backing store holds the whole array, and one that is not
\* dirty agrees with the file.
BufferSound(a) ==
  /\ undef[a] <= Rows[a] /\ (inMem[a] = 0 => undef[a] = 0 /\ ~dirty[a])
  /\ inMem[a] > 0 => MaxAccess[a] <= inMem[a] \/ Rows[a] <= inMem[a]
  /\ inMem[a] > 0 /\ ~open[a] => inMem[a] = Rows[a] /\ cur[a] = 0
  /\ ~dirty[a] => \A r \in 0 .. undef[a] - 1 : InBuffer(a, r) => buf[a][r - cur[a]] = file[a][r]

\* The strip the caller has lies in the buffer, and what it may store into is
\* defined and will be written.
StripSound(a) ==
  /\ \A r \in strip[a] : InBuffer(a, r)
  /\ wr[a] => dirty[a] /\ \A r \in strip[a] : r < undef[a]

ArraysSound == TypeOK /\ \A a \in Arrays : BufferSound(a) /\ StripSound(a)
=============================================================================
