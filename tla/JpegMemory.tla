----------------------------- MODULE JpegMemory -----------------------------
(***************************************************************************)
(* The memory manager of the JPEG library (jmemmgr.c): small objects from  *)
(* pools with slop, large objects one by one, 2-D arrays in chunks of      *)
(* rows, and the virtual arrays of VirtualArrays, whose buffers come from  *)
(* the image pool.  malloc, and the backing store of jmemsys.h, can fail   *)
(* at every call; ERREXIT leaves the application with an object it may     *)
(* only abort or destroy.                                                  *)
(*                                                                         *)
(* The operators take the manager m and return it changed; m.st is "error" *)
(* after ERREXIT.  Addresses are abstracted to <<segment, offset>>.  A     *)
(* segment is a header of Hdr units and the bytes behind it, got from      *)
(* malloc, which has m.heap units left.                                    *)
(***************************************************************************)
EXTENDS VirtualArrays, Lists, FiniteSets, FiniteSetsExt

CONSTANTS Heaps,        \* how much memory malloc can have
          Align,        \* sizeof(ALIGN_TYPE)
          Hdr,          \* sizeof(small_pool_hdr), sizeof(large_pool_hdr)
          MaxChunk,     \* MAX_ALLOC_CHUNK
          MgrSize,      \* sizeof(my_memory_mgr)
          BlockSize,    \* sizeof(struct jvirt_barray_control), or sarray
          PtrSize,      \* sizeof(JSAMPROW)
          FirstSlop,    \* first_pool_slop
          ExtraSlop,    \* extra_pool_slop
          MinSlop,      \* MIN_SLOP
          RowSize,      \* bytes per row of each virtual array
          SmallSizes,   \* the sizes of objects asked for directly
          StripRows,    \* the heights of strip buffers asked for
          MaxInUse,     \* bound on the arrays that are accessed, the others only take memory
          MaxObjects,   \* bound on the objects there are when one is asked for directly
          Grants        \* what jpeg_mem_available may answer besides all that is wanted

Pools == {"permanent", "image"}      \* JPOOL_PERMANENT, JPOOL_IMAGE

\* jinit_memory_mgr checks Align and MaxChunk.
ASSUME MemoryAssumption ==
  /\ Align \in {1, 2, 4, 8} /\ MaxChunk % Align = 0 /\ Hdr % Align = 0
  /\ Hdr \in Nat \ {0} /\ MaxChunk \in Nat /\ MaxChunk > Hdr /\ MinSlop \in Nat \ {0}
  /\ FirstSlop \in [Pools -> Nat] /\ ExtraSlop \in [Pools -> Nat]
  /\ RowSize \in [Arrays -> Nat \ {0}]

\* A size is a size_t, a number of rows a JDIMENSION.
ASSUME SizesAssumption ==
  /\ Heaps \subseteq Nat /\ MgrSize \in Nat /\ BlockSize \in Nat /\ PtrSize \in Nat
  /\ SmallSizes \subseteq Nat \ {0} /\ StripRows \subseteq Nat \ {0}

VARIABLE m            \* the memory manager: my_memory_mgr
memVars == <<m, vars>>

NoPools == [p \in Pools |-> <<>>]
NoMgr(heap) == [alive |-> FALSE, small |-> NoPools, large |-> NoPools, total |-> 0, heap |-> heap,
                lastRowsPerChunk |-> 0, list |-> <<>>, objects |-> {}, st |-> "ok"]

OutOfMemory(q) == [q EXCEPT !.st = "error"]

\* Round up the requested size to a multiple of SIZEOF(ALIGN_TYPE).
Rounded(n) == ((n + Align - 1) \div Align) * Align

-----------------------------------------------------------------------------
\* alloc_small

\* The slop is halved until malloc has the space, but not below MinSlop.
Slops(slop) == {slop} \cup {s \in MinSlop .. slop : \E k \in 1..8 : s = slop \div (2 ^ k)}

Object(kind, p, seg, off, n) == [kind |-> kind, pool |-> p, seg |-> seg, off |-> off, size |-> n]

\* A bug to be caught: the new pool counts its slop only as free.
NewSmallPoolShort(q, p, n) ==
  LET want == Min({IF q.small[p] = <<>> THEN FirstSlop[p] ELSE ExtraSlop[p], MaxChunk - (n + Hdr)})
      got  == {s \in Slops(want) : n + Hdr + s <= q.heap}
  IN IF got = {} THEN OutOfMemory(q)
     ELSE [q EXCEPT !.heap = @ - (n + Hdr + Max(got)), !.total = @ + n + Hdr + Max(got),
                    !.small[p] = Append(@, [used |-> 0, left |-> Max(got)])]

NewSmallPool(q, p, n) ==
  LET want == Min({IF q.small[p] = <<>> THEN FirstSlop[p] ELSE ExtraSlop[p], MaxChunk - (n + Hdr)})
      got  == {s \in Slops(want) : n + Hdr + s <= q.heap}
  IN IF got = {} THEN OutOfMemory(q)
     ELSE [q EXCEPT !.heap = @ - (n + Hdr + Max(got)), !.total = @ + n + Hdr + Max(got),
                    !.small[p] = Append(@, [used |-> 0, left |-> n + Max(got)])]

AllocSmall(q, p, size) ==
  LET n    == Rounded(size)
      Fits(x) == {i \in DOMAIN x.small[p] : x.small[p][i].left >= n}
      r    == IF Fits(q) = {} THEN NewSmallPool(q, p, n) ELSE q
      seg  == Min(Fits(r))
  IN IF q.st = "error" THEN q
     ELSE IF size > MaxChunk - Hdr THEN OutOfMemory(q)
     ELSE IF r.st = "error" THEN r
     ELSE [r EXCEPT !.objects = @ \cup {Object("small", p, seg, r.small[p][seg].used, n)},
                    !.small[p][seg].used = @ + n, !.small[p][seg].left = @ - n]

\* alloc_large: always a segment of its own.
AllocLarge(q, p, size) ==
  LET n == Rounded(size)
  IN IF q.st = "error" THEN q
     ELSE IF size > MaxChunk - Hdr \/ n + Hdr > q.heap THEN OutOfMemory(q)
     ELSE [q EXCEPT !.heap = @ - (n + Hdr), !.total = @ + n + Hdr, !.large[p] = Append(@, n),
                    !.objects = @ \cup {Object("large", p, Len(q.large[p]) + 1, 0, n)}]

\* The rows in chunks of at most perChunk, the last one shorter.
Chunks(perChunk, rows) ==
  [k \in 1 .. ((rows - 1) \div perChunk) + 1 |-> Min({perChunk, rows - ((k - 1) * perChunk)})]

AllocRows(q, p, rowSize, chunks) ==
  FoldLeft(LAMBDA x, n : AllocLarge(x, p, n * rowSize), q, chunks)

\* alloc_sarray, alloc_barray: the row pointers, then the rows in chunks of as
\* many as MaxChunk allows.
AllocArray(q, p, rowSize, rows) ==
  LET max      == (MaxChunk - Hdr) \div rowSize
      perChunk == Min({max, rows})
      ptrs     == AllocSmall([q EXCEPT !.lastRowsPerChunk = perChunk], p, rows * PtrSize)
  IN IF q.st = "error" THEN q
     ELSE IF max <= 0 THEN OutOfMemory(q)       \* JERR_WIDTH_OVERFLOW
     ELSE AllocRows(ptrs, p, rowSize, Chunks(perChunk, rows))

\* free_pool, except for the virtual arrays: what it gives back to malloc.
SmallSpaces(s) == [i \in DOMAIN s |-> s[i].used + s[i].left + Hdr]
LargeSpaces(l) == [i \in DOMAIN l |-> l[i] + Hdr]
Held(q, p) == Total(SmallSpaces(q.small[p])) + Total(LargeSpaces(q.large[p]))

FreePool(q, p) ==
  [q EXCEPT !.small[p] = <<>>, !.large[p] = <<>>, !.heap = @ + Held(q, p),
            !.total = @ - Held(q, p), !.objects = {o \in @ : o.pool # p},
            !.list = IF p = "image" THEN <<>> ELSE @]

-----------------------------------------------------------------------------
\* The operations of the manager.

\* jinit_memory_mgr
Create ==
  /\ ~m.alive /\ m.heap >= MgrSize
  /\ m' = [m EXCEPT !.alive = TRUE, !.heap = @ - MgrSize, !.total = MgrSize]
  /\ UNCHANGED vars

\* A call that ends in ERREXIT fails the array operations as well.
Becomes(q) == m' = [q EXCEPT !.st = "ok"] /\ failed' = (q.st = "error")
Usable == m.alive /\ ~failed

MayAsk == Usable /\ Cardinality(m.objects) < MaxObjects

SmallObject(p, size)    == MayAsk /\ Becomes(AllocSmall(m, p, size)) /\ UNCHANGED <<requested, inMem, open, window>>
StripBuffer(p, n, rows) == MayAsk /\ Becomes(AllocArray(m, p, n, rows)) /\ UNCHANGED <<requested, inMem, open, window>>

\* request_virt_sarray, request_virt_barray: the control block is an image object.
Request(a) ==
  LET q == AllocSmall(m, "image", BlockSize)
  IN /\ Usable /\ ~requested[a]
     /\ IF q.st = "error" THEN Becomes(q) /\ UNCHANGED <<requested, inMem, open, window>>
        ELSE m' = [q EXCEPT !.list = <<a>> \o @] /\ RequestVirt(a)

\* realize_virt_arrays: the same number of minheights for every array that does
\* not fit, or full height for all when there is room for it; then the buffers
\* one after the other, as far as memory and the backing store go.
SpacePerMinHeight == MapThenSumSet(LAMBDA a : MaxAccess[a] * RowSize[a], Unrealized)
MaximumSpace      == MapThenSumSet(LAMBDA a : Rows[a] * RowSize[a], Unrealized)
MaxMinHeights(avail) ==
  IF avail >= MaximumSpace THEN Max(Heights)
  ELSE Min({Max({avail \div SpacePerMinHeight, 1}), Max(Heights)})

AllocBuffers(q, todo, h) ==
  FoldLeft(LAMBDA x, a : AllocArray(x, "image", RowSize[a], InMem(a, h)), q, todo)

\* The buffers of the first k arrays of todo.
Buffers(todo, k, h) == AllocBuffers(m, SubSeq(todo, 1, k), h)

RealizeVirtArrays(avail, storeFails) ==
  LET todo == Kept(m.list, Unrealized)
      h    == MaxMinHeights(avail)
      \* open_backing_store fails for the k-th array, its file needed for the first time
      NoStore(k) == storeFails /\ ~FitsIn(todo[k], h)
      bad  == {k \in DOMAIN todo : NoStore(k) \/ Buffers(todo, k, h).st = "error"}
      k    == Min(bad)
      q    == IF NoStore(k) THEN Buffers(todo, k - 1, h) ELSE Buffers(todo, k, h)
  IN /\ Usable /\ Unrealized # {}
     /\ IF bad = {} THEN Becomes(Buffers(todo, Len(todo), h)) /\ Realize(h)
        ELSE /\ m' = [q EXCEPT !.st = "ok"]
             /\ RealizeFails(h, {todo[i] : i \in 1 .. k - 1}, todo[k],
                             ~NoStore(k) /\ ~FitsIn(todo[k], h))

InUse == {a \in Arrays : strip[a] # {} \/ undef[a] > 0}

AccessRows(a, s, n, w) ==
  /\ Usable /\ Cardinality(InUse \cup {a}) <= MaxInUse
  /\ Access(a, s, s + n, w) /\ UNCHANGED m

StoreRow(a, r, x) == Usable /\ Store(a, r, x) /\ UNCHANGED m

\* jpeg_abort, possible also after an error, and jpeg_destroy.
AbortImage == m.alive /\ m' = FreePool(m, "image") /\ FreeImage
SelfDestruct ==
  /\ m.alive /\ FreeImage
  /\ LET q == FreePool(FreePool(m, "image"), "permanent")
     IN m' = [q EXCEPT !.alive = FALSE, !.heap = @ + MgrSize, !.total = @ - MgrSize]

MemInit == Init /\ \E heap \in Heaps : m = NoMgr(heap)

MemNext ==
  \/ Create \/ AbortImage \/ SelfDestruct
  \/ \E p \in Pools, size \in SmallSizes : SmallObject(p, size)
  \/ \E p \in Pools, size \in SmallSizes, rows \in StripRows : StripBuffer(p, size, rows)
  \/ \E avail \in Grants \cup {MaximumSpace}, storeFails \in BOOLEAN :
       RealizeVirtArrays(avail, storeFails)
  \/ \E a \in Arrays :
       \/ Request(a)
       \/ \E s \in 0 .. Rows[a] - 1, n \in 1 .. MaxAccess[a], w \in BOOLEAN : AccessRows(a, s, n, w)
       \/ \E r \in 0 .. Rows[a] - 1, x \in Values \ {Zero, Junk} : StoreRow(a, r, x)

MemSpec == MemInit /\ [][MemNext]_memVars

-----------------------------------------------------------------------------
\* Properties.

\* Two objects in one segment do not overlap.
Apart(o, o2) == \/ <<o.kind, o.pool, o.seg>> # <<o2.kind, o2.pool, o2.seg>>
                \/ o.off + o.size <= o2.off \/ o2.off + o2.size <= o.off

ObjectFits(o) ==
  /\ o.off % Align = 0
  /\ IF o.kind = "large" THEN o.seg <= Len(m.large[o.pool]) /\ o.size <= m.large[o.pool][o.seg]
     ELSE o.seg <= Len(m.small[o.pool]) /\ o.off + o.size <= m.small[o.pool][o.seg].used

(* Whatever mixture of small and large objects, strip buffers and virtual    *)
(* arrays is asked for and wherever memory runs out, objects never overlap,  *)
(* lie in segments the manager still has, no segment is bigger than malloc   *)
(* can give at once, and total_space_allocated is exactly what it holds, so  *)
(* that aborting an image loses no byte of it and no backing store.          *)
PoolsSound ==
  /\ \A o \in m.objects : ObjectFits(o) /\ \A o2 \in m.objects \ {o} : Apart(o, o2)
  /\ m.total = (IF m.alive THEN MgrSize ELSE 0) + Held(m, "permanent") + Held(m, "image")
  /\ m.total + m.heap \in Heaps
  /\ \A p \in Pools : /\ \A i \in DOMAIN m.small[p] :
                            m.small[p][i].used + m.small[p][i].left + Hdr <= MaxChunk
                      /\ \A i \in DOMAIN m.large[p] : m.large[p][i] + Hdr <= MaxChunk
  /\ \A a \in Arrays : open[a] => \E i \in DOMAIN m.list : m.list[i] = a
=============================================================================
