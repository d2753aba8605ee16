------------------------ MODULE JpegWorkspaceProofs ------------------------
(***************************************************************************)
(* The lossless transformations and the memory manager, whose virtual      *)
(* arrays are their workspace.                                             *)
(*                                                                         *)
(* A transformation that does not trim is undone by its inverse, and what  *)
(* it does to the coefficients is, in complete iMCUs, what it promises to  *)
(* do to the samples: for every image, block size, inverse DCT of the      *)
(* cosines' symmetry, and sequence of transformations.                     *)
(*                                                                         *)
(* The virtual arrays of jmemmgr.c implement plain arrays, for every set   *)
(* of arrays, every height and access height, and whatever part of an      *)
(* array the memory granted holds.  An access is taken in two halves:      *)
(* moving the window (WindowMoves), which keeps every defined row, and     *)
(* handing out the strip (StripHandedOut).                                 *)
(*                                                                         *)
(* The memory manager drives the arrays in this way, and keeps its pools   *)
(* sound: an allocation leads from a sound manager to a sound one, whether *)
(* it fails or not, and so does every loop of allocations.                 *)
(***************************************************************************)
EXTENDS JpegTransform, JpegMemory, LoopTheorems

Factors == 1..MaxSampFactor

(***************************************************************************)
(* Arithmetic of the mirrored part.                                        *)
(***************************************************************************)

\* The blocks of complete iMCUs are blocks of the image.
LEMMA MirroredFits ==
  ASSUME NEW size \in Nat \ {0}, NEW f \in Nat \ {0}, NEW k \in Nat \ {0}
  PROVE  /\ (size \div k) * f \in Nat
         /\ RoundUp(size * f, k) \in Nat
         /\ (size \div k) * f <= RoundUp(size * f, k)
<1> DEFINE q == size \div k
           r == RoundUp(size * f, k)
<1>1. q \in Nat /\ q * k <= size
  OBVIOUS
<1>2. size * f \in Nat
  OBVIOUS
<1>3. r \in Nat /\ size * f <= r * k
  <2> DEFINE s == size * f
  <2>1. s \in Nat
    BY <1>2
  <2> HIDE DEF s
  <2>2. (s + k - 1) \div k \in Nat /\ s <= ((s + k - 1) \div k) * k
    BY <2>1
  <2> QED BY <2>2 DEF RoundUp, s
<1> HIDE DEF q, r
<1>4. (q * k) * f <= size * f
  BY <1>1
<1>5. (q * f) * k <= r * k
  BY <1>1, <1>2, <1>3, <1>4
<1>6. q * f \in Nat
  BY <1>1
<1>7. q * f <= r
  BY <1>3, <1>5, <1>6
<1> QED BY <1>3, <1>6, <1>7 DEF q, r

\* Mirroring the first n of z positions is its own inverse.
LEMMA MirrorTwice ==
  ASSUME NEW n \in Nat, NEW z \in Nat, n <= z, NEW k \in 0 .. z - 1
  PROVE  /\ Mirror(k, n) \in 0 .. z - 1
         /\ Mirror(Mirror(k, n), n) = k
         /\ Mirror(k, n) < n <=> k < n
BY DEF Mirror

LEMMA MirrorNat ==
  ASSUME NEW n \in Nat, NEW k \in Nat
  PROVE  Mirror(k, n) \in Nat
BY DEF Mirror

(***************************************************************************)
(* Blocks.                                                                 *)
(***************************************************************************)

LEMMA FreqsNat == Freqs \subseteq Nat
BY DctSizeAssumption DEF Freqs

LEMMA PaddingBlock == Padding \in Block
BY DEF Padding, Block

LEMMA TransposedBlock ==
  ASSUME NEW b \in Block
  PROVE  /\ Transposed(b) \in Block
         /\ Transposed(Transposed(b)) = b
BY DEF Transposed, Block

LEMMA SignedBlock ==
  ASSUME NEW b \in Block, NEW rows \in BOOLEAN, NEW cols \in BOOLEAN
  PROVE  Signed(b, rows, cols) \in Block
<1>1. \A i, j \in Freqs : b[i][j] \in Int /\ -b[i][j] \in Int
  BY DEF Block
<1> QED BY <1>1 DEF Signed, Block

LEMMA SignedTwice ==
  ASSUME NEW b \in Block, NEW rows \in BOOLEAN, NEW cols \in BOOLEAN
  PROVE  Signed(Signed(b, rows, cols), rows, cols) = b
<1>1. \A i, j \in Freqs : b[i][j] \in Int /\ -(-b[i][j]) = b[i][j]
  BY DEF Block
<1>2. \A i, j \in Freqs : Signed(Signed(b, rows, cols), rows, cols)[i][j] = b[i][j]
  BY <1>1 DEF Signed
<1> QED BY <1>2, SignedBlock DEF Block, Signed

\* Transposing exchanges the signs of rows and columns.
LEMMA SignedTransposed ==
  ASSUME NEW b \in Block, NEW rows \in BOOLEAN, NEW cols \in BOOLEAN
  PROVE  Signed(Transposed(Signed(Transposed(b), cols, rows)), rows, cols) = b
<1>1. \A i, j \in Freqs : Negated(i, j, rows, cols) <=> Negated(j, i, cols, rows)
  BY DEF Negated
<1>2. Transposed(Signed(Transposed(b), cols, rows)) = Signed(b, rows, cols)
  BY <1>1 DEF Transposed, Signed
<1> QED BY <1>2, SignedTwice

(***************************************************************************)
(* Parameters.                                                             *)
(***************************************************************************)

LEMMA MaxOfFactors ==
  ASSUME NEW n \in 1..MaxComponents, NEW f \in [1..n -> Factors]
  PROVE  MaxOf(f) \in Factors
<1> DEFINE S == {f[i] : i \in DOMAIN f}
<1>1. S \subseteq Factors /\ f[1] \in S
  BY DEF MaxComponents
<1>2. \E z \in S : \A k \in S : k <= z
  <2> HIDE DEF S
  <2>1. CASE 4 \in S
    BY <2>1, <1>1 DEF Factors, MaxSampFactor
  <2>2. CASE 4 \notin S /\ 3 \in S
    BY <2>2, <1>1 DEF Factors, MaxSampFactor
  <2>3. CASE 4 \notin S /\ 3 \notin S /\ 2 \in S
    BY <2>3, <1>1 DEF Factors, MaxSampFactor
  <2>4. CASE 4 \notin S /\ 3 \notin S /\ 2 \notin S
    BY <2>4, <1>1 DEF Factors, MaxSampFactor
  <2> QED BY <2>1, <2>2, <2>3, <2>4
<1>3. \E z \in S : \A i \in DOMAIN f : f[i] <= z
  BY <1>2
<1>4. MaxOf(f) \in S
  BY <1>3 DEF MaxOf
<1> QED BY <1>1, <1>4

\* The numbers of blocks, and that the mirrored ones are among them.
LEMMA Dimensions ==
  ASSUME NEW im, WellFormedParameters(im), NEW ci \in DOMAIN im.h
  PROVE  /\ MirrorCols(im, ci) \in Nat /\ BlockCols(im, ci) \in Nat
         /\ MirrorCols(im, ci) <= BlockCols(im, ci)
         /\ MirrorRows(im, ci) \in Nat /\ BlockRows(im, ci) \in Nat
         /\ MirrorRows(im, ci) <= BlockRows(im, ci)
<1>1. PICK n \in 1..MaxComponents : im.h \in [1..n -> Factors] /\ im.v \in [1..n -> Factors]
  BY DEF WellFormedParameters, Factors
<1>2. im.width \in Nat \ {0} /\ im.height \in Nat \ {0}
  BY DEF WellFormedParameters
<1>3. MaxOf(im.h) \in Factors /\ MaxOf(im.v) \in Factors
  BY <1>1, MaxOfFactors
<1>4. im.h[ci] \in Nat \ {0} /\ im.v[ci] \in Nat \ {0}
  BY <1>1 DEF Factors, MaxSampFactor
<1>5. \A z \in Factors : z * DctSize \in Nat \ {0}
  BY DctSizeAssumption DEF Factors, MaxSampFactor
<1>6. MaxOf(im.h) * DctSize \in Nat \ {0} /\ MaxOf(im.v) * DctSize \in Nat \ {0}
  BY <1>3, <1>5
<1> QED BY <1>2, <1>4, <1>6, MirroredFits DEF MirrorCols, MirrorRows, BlockCols, BlockRows

\* What makes a file well formed.
Proper(width, height, h, v, tbl, quant) ==
  /\ width \in Nat \ {0} /\ height \in Nat \ {0}
  /\ \E n \in 1..MaxComponents : /\ h \in [1..n -> Factors] /\ v \in [1..n -> Factors]
                                 /\ tbl \in [1..n -> DOMAIN quant]
  /\ quant \in [DOMAIN quant -> Block]

LEMMA FileWellFormed ==
  ASSUME NEW width, NEW height, NEW h, NEW v, NEW tbl, NEW quant, NEW coef,
         Proper(width, height, h, v, tbl, quant)
  PROVE  WellFormedParameters(File(width, height, h, v, tbl, quant, coef))
<1> DEFINE f == File(width, height, h, v, tbl, quant, coef)
<1>1. /\ f.width = width /\ f.height = height /\ f.h = h /\ f.v = v
      /\ f.tbl = tbl /\ f.quant = quant /\ f.coef = coef
  BY DEF File
<1>2. f = File(f.width, f.height, f.h, f.v, f.tbl, f.quant, f.coef)
  BY <1>1
<1> HIDE DEF f
<1>3. WellFormedParameters(f)
  BY <1>1, <1>2 DEF WellFormedParameters, Proper, Factors
<1> QED BY <1>3 DEF f

LEMMA WellFormedProper ==
  ASSUME NEW im, WellFormedParameters(im)
  PROVE  Proper(im.width, im.height, im.h, im.v, im.tbl, im.quant)
BY DEF WellFormedParameters, Proper, Factors

LEMMA GrayWellFormed ==
  ASSUME NEW im, WellFormedParameters(im)
  PROVE  WellFormedParameters(ForceGrayscale(im)) /\ DOMAIN ForceGrayscale(im).h \subseteq DOMAIN im.h
<1>1. PICK n \in 1..MaxComponents : im.h \in [1..n -> Factors] /\ im.tbl \in [1..n -> DOMAIN im.quant]
  BY DEF WellFormedParameters, Factors
<1>2. 1 \in 1..n /\ im.tbl[1] \in DOMAIN im.quant
  BY <1>1 DEF MaxComponents
<1>3. <<1>> \in [1..1 -> Factors] /\ <<im.tbl[1]>> \in [1..1 -> DOMAIN im.quant]
  BY <1>2 DEF MaxSampFactor, Factors
<1>4. 1 \in 1..MaxComponents
  BY DEF MaxComponents
<1>5. im.width \in Nat \ {0} /\ im.height \in Nat \ {0} /\ im.quant \in [DOMAIN im.quant -> Block]
  BY DEF WellFormedParameters
<1>6. Proper(im.width, im.height, <<1>>, <<1>>, <<im.tbl[1]>>, im.quant)
  BY <1>3, <1>4, <1>5 DEF Proper
<1>7. WellFormedParameters(ForceGrayscale(im))
  BY <1>6, FileWellFormed DEF ForceGrayscale
<1>8. ForceGrayscale(im).h = <<1>>
  BY DEF ForceGrayscale, File
<1> QED BY <1>1, <1>2, <1>7, <1>8

LEMMA TransposeWellFormed ==
  ASSUME NEW im, WellFormedParameters(im)
  PROVE  LET p == TransposeCriticalParameters(im)
         IN /\ WellFormedParameters(p)
            /\ p.width = im.height /\ p.height = im.width /\ p.h = im.v /\ p.v = im.h
            /\ p.tbl = im.tbl /\ p.coef = im.coef
            /\ p.quant = [tbl \in DOMAIN im.quant |-> Transposed(im.quant[tbl])]
<1> DEFINE quant == [tbl \in DOMAIN im.quant |-> Transposed(im.quant[tbl])]
<1>1. PICK n \in 1..MaxComponents : /\ im.h \in [1..n -> Factors] /\ im.v \in [1..n -> Factors]
                                    /\ im.tbl \in [1..n -> DOMAIN im.quant]
  BY DEF WellFormedParameters, Factors
<1>2. im.width \in Nat \ {0} /\ im.height \in Nat \ {0} /\ im.quant \in [DOMAIN im.quant -> Block]
  BY DEF WellFormedParameters
<1>3. quant \in [DOMAIN im.quant -> Block]
  BY <1>2, TransposedBlock
<1> HIDE DEF quant
<1>4. DOMAIN quant = DOMAIN im.quant
  BY <1>3
<1>5. Proper(im.height, im.width, im.v, im.h, im.tbl, quant)
  BY <1>1, <1>2, <1>3, <1>4 DEF Proper
<1> DEFINE p == File(im.height, im.width, im.v, im.h, im.tbl, quant, im.coef)
<1>6. WellFormedParameters(p)
  BY <1>5, FileWellFormed
<1>7. /\ p.width = im.height /\ p.height = im.width /\ p.h = im.v /\ p.v = im.h
      /\ p.tbl = im.tbl /\ p.coef = im.coef /\ p.quant = quant
  BY DEF File
<1>8. TransposeCriticalParameters(im) = p
  BY DEF TransposeCriticalParameters, quant
<1> QED BY <1>6, <1>7, <1>8 DEF quant

\* Of n pixels, the whole iMCUs, or all when there is no whole one.
LEMMA TrimmedSize ==
  ASSUME NEW size \in Nat \ {0}, NEW k \in Nat \ {0}
  PROVE  (IF size \div k > 0 THEN (size \div k) * k ELSE size) \in Nat \ {0}
<1>1. size \div k \in Nat
  OBVIOUS
<1> DEFINE q == size \div k
<1> HIDE DEF q
<1>2. q \in Nat => (IF q > 0 THEN q * k ELSE size) \in Nat \ {0}
  OBVIOUS
<1> QED BY <1>1, <1>2 DEF q

LEMMA TrimWellFormed ==
  ASSUME NEW im, WellFormedParameters(im)
  PROVE  /\ WellFormedParameters(TrimRightEdge(im)) /\ TrimRightEdge(im).h = im.h
         /\ WellFormedParameters(TrimBottomEdge(im)) /\ TrimBottomEdge(im).h = im.h
<1>1. PICK n \in 1..MaxComponents : /\ im.h \in [1..n -> Factors] /\ im.v \in [1..n -> Factors]
                                    /\ im.tbl \in [1..n -> DOMAIN im.quant]
  BY DEF WellFormedParameters, Factors
<1>2. im.width \in Nat \ {0} /\ im.height \in Nat \ {0} /\ im.quant \in [DOMAIN im.quant -> Block]
  BY DEF WellFormedParameters
<1>3. MaxOf(im.h) \in Factors /\ MaxOf(im.v) \in Factors
  BY <1>1, MaxOfFactors
<1>4. \A z \in Factors : z * DctSize \in Nat \ {0}
  BY DctSizeAssumption DEF Factors, MaxSampFactor
<1> DEFINE W == IF im.width \div (MaxOf(im.h) * DctSize) > 0
                THEN (im.width \div (MaxOf(im.h) * DctSize)) * (MaxOf(im.h) * DctSize) ELSE im.width
           H == IF im.height \div (MaxOf(im.v) * DctSize) > 0
                THEN (im.height \div (MaxOf(im.v) * DctSize)) * (MaxOf(im.v) * DctSize) ELSE im.height
<1>5. W \in Nat \ {0} /\ H \in Nat \ {0}
  BY <1>2, <1>3, <1>4, TrimmedSize
<1>6. /\ TrimRightEdge(im) = File(W, im.height, im.h, im.v, im.tbl, im.quant, im.coef)
      /\ TrimBottomEdge(im) = File(im.width, H, im.h, im.v, im.tbl, im.quant, im.coef)
  BY DEF TrimRightEdge, TrimBottomEdge
<1> HIDE DEF W, H
<1>7. Proper(W, im.height, im.h, im.v, im.tbl, im.quant) /\ Proper(im.width, H, im.h, im.v, im.tbl, im.quant)
  BY <1>1, <1>2, <1>5 DEF Proper
<1>8. WellFormedParameters(TrimRightEdge(im)) /\ WellFormedParameters(TrimBottomEdge(im))
  BY <1>6, <1>7, FileWellFormed
<1>9. TrimRightEdge(im).h = im.h /\ TrimBottomEdge(im).h = im.h
  BY <1>6 DEF File
<1> QED BY <1>8, <1>9

LEMMA AdjustedWellFormed ==
  ASSUME NEW im, WellFormedParameters(im), NEW t, NEW trim \in BOOLEAN, NEW gray \in BOOLEAN
  PROVE  LET dst == AdjustParameters(im, t, trim, gray)
         IN WellFormedParameters(dst) /\ DOMAIN dst.h \subseteq DOMAIN im.h
<1> DEFINE g == IF gray THEN ForceGrayscale(im) ELSE im
           p == IF t \in Transposing THEN TransposeCriticalParameters(g) ELSE g
           r == IF trim /\ t \in {"flip_h", "rot_180", "rot_90", "transverse"} THEN TrimRightEdge(p) ELSE p
           b == IF trim /\ t \in {"flip_v", "rot_180", "rot_270", "transverse"} THEN TrimBottomEdge(r) ELSE r
<1>1. WellFormedParameters(g) /\ DOMAIN g.h \subseteq DOMAIN im.h
  BY GrayWellFormed
<1> HIDE DEF g
<1>2. DOMAIN g.h = DOMAIN g.v
  BY <1>1 DEF WellFormedParameters
<1>3. WellFormedParameters(p) /\ DOMAIN p.h = DOMAIN g.h
  BY <1>1, <1>2, TransposeWellFormed
<1> HIDE DEF p
<1>4. WellFormedParameters(r) /\ r.h = p.h
  BY <1>3, TrimWellFormed
<1> HIDE DEF r
<1>5. WellFormedParameters(b) /\ b.h = r.h
  BY <1>4, TrimWellFormed
<1>6. AdjustParameters(im, t, trim, gray) = b
  BY DEF AdjustParameters, b, r, p, g
<1> QED BY <1>1, <1>3, <1>4, <1>5, <1>6

(***************************************************************************)
(* The destination.                                                        *)
(***************************************************************************)

LEMMA SrcBlockType ==
  ASSUME NEW im, WellFormed(im), NEW ci \in DOMAIN im.h, NEW y \in Nat, NEW x \in Nat
  PROVE  SrcBlock(im, ci, y, x) \in Block
<1>1. BlockRows(im, ci) \in Nat /\ BlockCols(im, ci) \in Nat
  BY Dimensions DEF WellFormed
<1>2. im.coef[ci] \in Grid(BlockRows(im, ci), BlockCols(im, ci))
  BY DEF WellFormed
<1>3. CASE y < BlockRows(im, ci) /\ x < BlockCols(im, ci)
  <2>1. y \in 0 .. BlockRows(im, ci) - 1 /\ x \in 0 .. BlockCols(im, ci) - 1
    BY <1>1, <1>3
  <2>2. im.coef[ci][y][x] \in Block
    BY <1>2, <2>1 DEF Grid
  <2> QED BY <1>3, <2>2 DEF SrcBlock
<1>4. CASE ~(y < BlockRows(im, ci) /\ x < BlockCols(im, ci))
  BY <1>4, PaddingBlock DEF SrcBlock
<1> QED BY <1>3, <1>4

LEMMA DstBlockType ==
  ASSUME NEW im, WellFormed(im), NEW dst, WellFormedParameters(dst), DOMAIN dst.h \subseteq DOMAIN im.h,
         NEW ci \in DOMAIN dst.h, NEW y \in Nat, NEW x \in Nat, NEW t \in Transforms
  PROVE  DstBlock(t, im, dst, ci, y, x) \in Block
<1> DEFINE n == MirrorCols(dst, ci)
           z == MirrorRows(dst, ci)
           r == y < z
           c == x < n
<1>1. n \in Nat /\ z \in Nat
  BY Dimensions
<1>2. Mirror(x, n) \in Nat /\ Mirror(y, z) \in Nat
  BY <1>1, MirrorNat
<1>3. r \in BOOLEAN /\ c \in BOOLEAN
  OBVIOUS
<1>4. \A k, l \in Nat : SrcBlock(im, ci, k, l) \in Block
  BY SrcBlockType
<1>5. \A k, l \in Nat : Transposed(SrcBlock(im, ci, k, l)) \in Block
  BY <1>4, TransposedBlock
<1> HIDE DEF n, z, r, c
<1>6. CASE t = "none"
  BY <1>4, <1>6 DEF DstBlock
<1>7. CASE t = "flip_h"
  BY <1>2, <1>3, <1>4, <1>7, SignedBlock DEF DstBlock, DoFlipH, n, c
<1>8. CASE t = "flip_v"
  BY <1>2, <1>3, <1>4, <1>8, SignedBlock DEF DstBlock, DoFlipV, z, r
<1>9. CASE t = "transpose"
  BY <1>5, <1>9 DEF DstBlock, DoTranspose
<1>10. CASE t = "transverse"
  BY <1>2, <1>3, <1>5, <1>10, SignedBlock DEF DstBlock, DoTransverse, z, r, n, c
<1>11. CASE t = "rot_90"
  BY <1>2, <1>3, <1>5, <1>11, SignedBlock DEF DstBlock, DoRotNinety, n, c
<1>12. CASE t = "rot_180"
  BY <1>2, <1>3, <1>4, <1>12, SignedBlock DEF DstBlock, DoRotOneEighty, z, r, n, c
<1>13. CASE t = "rot_270"
  BY <1>2, <1>3, <1>5, <1>13, SignedBlock DEF DstBlock, DoRotTwoSeventy, z, r
<1> QED BY <1>6, <1>7, <1>8, <1>9, <1>10, <1>11, <1>12, <1>13 DEF Transforms, Transposing

\* What is written is a file again.
LEMMA TranscodedFile ==
  ASSUME NEW im, WellFormed(im), NEW t \in Transforms, NEW trim \in BOOLEAN, NEW gray \in BOOLEAN
  PROVE  LET dst == AdjustParameters(im, t, trim, gray)
             new == Transcoded(im, t, trim, gray)
         IN /\ WellFormed(new)
            /\ new.width = dst.width /\ new.height = dst.height /\ new.h = dst.h /\ new.v = dst.v
            /\ new.tbl = dst.tbl /\ new.quant = dst.quant /\ new.coef = Execute(t, im, dst)
<1> DEFINE dst == AdjustParameters(im, t, trim, gray)
           new == Transcoded(im, t, trim, gray)
<1>1. WellFormedParameters(dst) /\ DOMAIN dst.h \subseteq DOMAIN im.h
  BY AdjustedWellFormed DEF WellFormed
<1> HIDE DEF dst
<1>2. new = File(dst.width, dst.height, dst.h, dst.v, dst.tbl, dst.quant, Execute(t, im, dst))
  BY DEF Transcoded, dst
<1>3. /\ new.width = dst.width /\ new.height = dst.height /\ new.h = dst.h /\ new.v = dst.v
      /\ new.tbl = dst.tbl /\ new.quant = dst.quant /\ new.coef = Execute(t, im, dst)
  BY <1>2 DEF File
<1>4. WellFormedParameters(new)
  BY <1>1, <1>2, FileWellFormed, WellFormedProper
<1> HIDE DEF new
<1>5. ASSUME NEW ci \in DOMAIN new.h
      PROVE  new.coef[ci] \in Grid(BlockRows(new, ci), BlockCols(new, ci))
  <2>1. BlockRows(new, ci) = BlockRows(dst, ci) /\ BlockCols(new, ci) = BlockCols(dst, ci)
    BY <1>3 DEF BlockRows, BlockCols
  <2>2. BlockRows(dst, ci) \in Nat /\ BlockCols(dst, ci) \in Nat
    BY <1>1, <1>3, Dimensions
  <2>3. ASSUME NEW y \in 0 .. BlockRows(dst, ci) - 1, NEW x \in 0 .. BlockCols(dst, ci) - 1
        PROVE  DstBlock(t, im, dst, ci, y, x) \in Block
    BY <1>1, <1>3, <2>2, DstBlockType
  <2>4. new.coef[ci] = [y \in 0 .. BlockRows(dst, ci) - 1 |->
                          [x \in 0 .. BlockCols(dst, ci) - 1 |-> DstBlock(t, im, dst, ci, y, x)]]
    BY <1>3 DEF Execute
  <2> QED BY <2>1, <2>3, <2>4 DEF Grid
<1>6. new.coef = [ci \in DOMAIN new.h |-> new.coef[ci]]
  BY <1>3 DEF Execute
<1>7. WellFormed(new)
  BY <1>4, <1>5, <1>6 DEF WellFormed
<1> QED BY <1>3, <1>7 DEF dst, new

(***************************************************************************)
(* There and back.                                                         *)
(***************************************************************************)

\* The blocks of the image come back where they were.
LEMMA PlainBlocksBack ==
  ASSUME NEW im, WellFormed(im), NEW t \in Transforms \ Transposing, NEW back,
         WellFormedParameters(back), back.width = im.width, back.height = im.height,
         back.h = im.h, back.v = im.v,
         NEW new, new.width = im.width, new.height = im.height, new.h = im.h, new.v = im.v,
         new.coef = Execute(t, im, im),
         NEW ci \in DOMAIN im.h,
         NEW y \in 0 .. BlockRows(im, ci) - 1, NEW x \in 0 .. BlockCols(im, ci) - 1
  PROVE  DstBlock(t, new, back, ci, y, x) = im.coef[ci][y][x]
<1> DEFINE n == MirrorCols(im, ci)
           z == MirrorRows(im, ci)
           R == BlockRows(im, ci)
           C == BlockCols(im, ci)
           X == Mirror(x, n)
           Y == Mirror(y, z)
           B == im.coef[ci][y][x]
<1>1. n \in Nat /\ z \in Nat /\ R \in Nat /\ C \in Nat /\ n <= C /\ z <= R
  BY Dimensions DEF WellFormed
<1>2. MirrorCols(back, ci) = n /\ MirrorRows(back, ci) = z
  BY DEF MirrorCols, MirrorRows
<1>3. BlockRows(new, ci) = R /\ BlockCols(new, ci) = C
  BY DEF BlockRows, BlockCols
<1>4. B \in Block
  BY ZenonT(40) DEF WellFormed, Grid
<1>5. /\ X \in 0 .. C - 1 /\ Mirror(X, n) = x /\ (X < n <=> x < n)
      /\ Y \in 0 .. R - 1 /\ Mirror(Y, z) = y /\ (Y < z <=> y < z)
  BY <1>1, MirrorTwice
<1>6. ASSUME NEW k \in 0 .. R - 1, NEW l \in 0 .. C - 1
      PROVE  /\ SrcBlock(im, ci, k, l) = im.coef[ci][k][l]
             /\ SrcBlock(new, ci, k, l) = DstBlock(t, im, im, ci, k, l)
  <2>1. k < R /\ l < C
    BY <1>1
  <2>2. new.coef[ci][k][l] = DstBlock(t, im, im, ci, k, l)
    BY DEF Execute
  <2> QED BY <1>3, <2>1, <2>2 DEF SrcBlock
<1> HIDE DEF n, z, R, C, X, Y, B
<1>7. y \in 0 .. R - 1 /\ x \in 0 .. C - 1
  BY DEF R, C
<1>8. SrcBlock(im, ci, y, x) = B
  BY <1>6, <1>7 DEF B
<1>14. (y < z) \in BOOLEAN /\ (x < n) \in BOOLEAN /\ TRUE \in BOOLEAN /\ FALSE \in BOOLEAN
  OBVIOUS
<1>15. (X < n) = (x < n) /\ (Y < z) = (y < z)
  BY <1>5
<1>9. CASE t = "none"
  BY <1>6, <1>7, <1>8, <1>9 DEF DstBlock, B
<1>10. CASE t = "flip_h"
  <2>1. DstBlock(t, new, back, ci, y, x) = Signed(SrcBlock(new, ci, y, X), FALSE, x < n)
    BY <1>2, <1>10 DEF DstBlock, DoFlipH, X
  <2>2. SrcBlock(new, ci, y, X) = Signed(B, FALSE, X < n)
    BY <1>5, <1>6, <1>7, <1>8, <1>10 DEF DstBlock, DoFlipH, n
  <2>3. Signed(Signed(B, FALSE, x < n), FALSE, x < n) = B
    BY <1>4, <1>14, SignedTwice
  <2> QED BY <2>1, <2>2, <2>3, <1>15 DEF B
<1>11. CASE t = "flip_v"
  <2>1. DstBlock(t, new, back, ci, y, x) = Signed(SrcBlock(new, ci, Y, x), y < z, FALSE)
    BY <1>2, <1>11 DEF DstBlock, DoFlipV, Y
  <2>2. SrcBlock(new, ci, Y, x) = Signed(B, Y < z, FALSE)
    BY <1>5, <1>6, <1>7, <1>8, <1>11 DEF DstBlock, DoFlipV, z
  <2>3. Signed(Signed(B, y < z, FALSE), y < z, FALSE) = B
    BY <1>4, <1>14, SignedTwice
  <2> QED BY <2>1, <2>2, <2>3, <1>15 DEF B
<1>12. CASE t = "rot_180"
  <2>1. DstBlock(t, new, back, ci, y, x) = Signed(SrcBlock(new, ci, Y, X), y < z, x < n)
    BY <1>2, <1>12 DEF DstBlock, DoRotOneEighty, X, Y
  <2>2. SrcBlock(new, ci, Y, X) = Signed(B, Y < z, X < n)
    BY <1>5, <1>6, <1>8, <1>12 DEF DstBlock, DoRotOneEighty, z, n
  <2>3. Signed(Signed(B, y < z, x < n), y < z, x < n) = B
    BY <1>4, <1>14, SignedTwice
  <2> QED BY <2>1, <2>2, <2>3, <1>15 DEF B
<1> QED BY <1>9, <1>10, <1>11, <1>12 DEF Transforms, Transposing

LEMMA TransposedBlocksBack ==
  ASSUME NEW im, WellFormed(im), NEW t \in Transposing, NEW dst, NEW back,
         dst.width = im.height, dst.height = im.width, dst.h = im.v, dst.v = im.h,
         back.width = im.width, back.height = im.height, back.h = im.h, back.v = im.v,
         NEW new, new.width = im.height, new.height = im.width, new.h = im.v, new.v = im.h,
         new.coef = Execute(t, im, dst),
         NEW ci \in DOMAIN im.h,
         NEW y \in 0 .. BlockRows(im, ci) - 1, NEW x \in 0 .. BlockCols(im, ci) - 1
  PROVE  DstBlock(InverseTransform(t), new, back, ci, y, x) = im.coef[ci][y][x]
<1> DEFINE n == MirrorCols(im, ci)
           z == MirrorRows(im, ci)
           R == BlockRows(im, ci)
           C == BlockCols(im, ci)
           X == Mirror(x, n)
           Y == Mirror(y, z)
           B == im.coef[ci][y][x]
<1>1. n \in Nat /\ z \in Nat /\ R \in Nat /\ C \in Nat /\ n <= C /\ z <= R
  BY Dimensions DEF WellFormed
<1>2. /\ MirrorCols(back, ci) = n /\ MirrorRows(back, ci) = z
      /\ MirrorCols(dst, ci) = z /\ MirrorRows(dst, ci) = n
  BY DEF MirrorCols, MirrorRows
<1>3. /\ BlockRows(new, ci) = C /\ BlockCols(new, ci) = R
      /\ BlockRows(dst, ci) = C /\ BlockCols(dst, ci) = R
  BY DEF BlockRows, BlockCols
<1>4. B \in Block
  BY DEF WellFormed, Grid
<1>5. /\ X \in 0 .. C - 1 /\ Mirror(X, n) = x /\ (X < n <=> x < n)
      /\ Y \in 0 .. R - 1 /\ Mirror(Y, z) = y /\ (Y < z <=> y < z)
  BY <1>1, MirrorTwice
<1>6. ci \in DOMAIN dst.h
  BY DEF WellFormed, WellFormedParameters
<1>7. ASSUME NEW k \in 0 .. C - 1, NEW l \in 0 .. R - 1
      PROVE  SrcBlock(new, ci, k, l) = DstBlock(t, im, dst, ci, k, l)
  <2>1. k < C /\ l < R
    BY <1>1
  <2>2. new.coef[ci][k][l] = DstBlock(t, im, dst, ci, k, l)
    BY <1>3, <1>6 DEF Execute
  <2> QED BY <1>3, <2>1, <2>2 DEF SrcBlock
<1>8. SrcBlock(im, ci, y, x) = B
  BY <1>1 DEF SrcBlock
<1> HIDE DEF n, z, R, C, X, Y, B
<1>9. y \in 0 .. R - 1 /\ x \in 0 .. C - 1
  BY DEF R, C
<1>14. (y < z) \in BOOLEAN /\ (x < n) \in BOOLEAN /\ TRUE \in BOOLEAN /\ FALSE \in BOOLEAN
  OBVIOUS
<1>15. (X < n) = (x < n) /\ (Y < z) = (y < z)
  BY <1>5
<1>10. CASE t = "transpose"
  <2>1. DstBlock(InverseTransform(t), new, back, ci, y, x) = Transposed(SrcBlock(new, ci, x, y))
    BY <1>10 DEF DstBlock, DoTranspose, InverseTransform
  <2>2. SrcBlock(new, ci, x, y) = Transposed(B)
    BY <1>7, <1>8, <1>9, <1>10 DEF DstBlock, DoTranspose
  <2> QED BY <2>1, <2>2, <1>4, TransposedBlock DEF B
<1>11. CASE t = "transverse"
  <2>1. DstBlock(InverseTransform(t), new, back, ci, y, x) = Signed(Transposed(SrcBlock(new, ci, X, Y)), y < z, x < n)
    BY <1>2, <1>11 DEF DstBlock, DoTransverse, InverseTransform, X, Y
  <2>2. SrcBlock(new, ci, X, Y) = Signed(Transposed(B), X < n, Y < z)
    BY <1>2, <1>5, <1>7, <1>8, <1>11 DEF DstBlock, DoTransverse
  <2>3. Signed(Transposed(Signed(Transposed(B), x < n, y < z)), y < z, x < n) = B
    BY <1>4, <1>14, SignedTransposed
  <2> QED BY <2>1, <2>2, <2>3, <1>15 DEF B
<1>12. CASE t = "rot_90"
  <2>1. DstBlock(InverseTransform(t), new, back, ci, y, x) = Signed(Transposed(SrcBlock(new, ci, x, Y)), y < z, FALSE)
    BY <1>2, <1>12 DEF DstBlock, DoRotTwoSeventy, InverseTransform, Y
  <2>2. SrcBlock(new, ci, x, Y) = Signed(Transposed(B), FALSE, Y < z)
    BY <1>2, <1>5, <1>7, <1>8, <1>9, <1>12 DEF DstBlock, DoRotNinety
  <2>3. Signed(Transposed(Signed(Transposed(B), FALSE, y < z)), y < z, FALSE) = B
    BY <1>4, <1>14, SignedTransposed
  <2> QED BY <2>1, <2>2, <2>3, <1>15 DEF B
<1>13. CASE t = "rot_270"
  <2>1. DstBlock(InverseTransform(t), new, back, ci, y, x) = Signed(Transposed(SrcBlock(new, ci, X, y)), FALSE, x < n)
    BY <1>2, <1>13 DEF DstBlock, DoRotNinety, InverseTransform, X
  <2>2. SrcBlock(new, ci, X, y) = Signed(Transposed(B), X < n, FALSE)
    BY <1>2, <1>5, <1>7, <1>8, <1>9, <1>13 DEF DstBlock, DoRotTwoSeventy
  <2>3. Signed(Transposed(Signed(Transposed(B), x < n, FALSE)), FALSE, x < n) = B
    BY <1>4, <1>14, SignedTransposed
  <2> QED BY <2>1, <2>2, <2>3, <1>15 DEF B
<1> QED BY <1>10, <1>11, <1>12, <1>13 DEF Transposing

LEMMA Untrimmed ==
  ASSUME NEW im, NEW t
  PROVE  AdjustParameters(im, t, FALSE, FALSE)
           = IF t \in Transposing THEN TransposeCriticalParameters(im) ELSE im
BY DEF AdjustParameters

\* Which transformations are their own inverse.
LEMMA InverseTransforms ==
  ASSUME NEW t \in Transforms
  PROVE  /\ InverseTransform(t) \in Transforms
         /\ InverseTransform(t) \in Transposing <=> t \in Transposing
         /\ t \notin Transposing => InverseTransform(t) = t
BY DEF Transforms, Transposing, InverseTransform

LEMMA ThereAndBack ==
  ASSUME NEW im, WellFormed(im), NEW t \in Transforms
  PROVE  Transcoded(Transcoded(im, t, FALSE, FALSE), InverseTransform(t), FALSE, FALSE) = im
<1> DEFINE u    == InverseTransform(t)
           dst  == AdjustParameters(im, t, FALSE, FALSE)
           new  == Transcoded(im, t, FALSE, FALSE)
           back == AdjustParameters(new, u, FALSE, FALSE)
           end  == Transcoded(new, u, FALSE, FALSE)
<1>1. u \in Transforms /\ (u \in Transposing <=> t \in Transposing) /\ (t \notin Transposing => u = t)
  BY InverseTransforms
<1>2. /\ WellFormed(new)
      /\ new.width = dst.width /\ new.height = dst.height /\ new.h = dst.h /\ new.v = dst.v
      /\ new.tbl = dst.tbl /\ new.quant = dst.quant /\ new.coef = Execute(t, im, dst)
  BY TranscodedFile
<1>3. dst = IF t \in Transposing THEN TransposeCriticalParameters(im) ELSE im
  BY Untrimmed
<1>4. back = IF u \in Transposing THEN TransposeCriticalParameters(new) ELSE new
  BY Untrimmed
<1>5. end = File(back.width, back.height, back.h, back.v, back.tbl, back.quant, Execute(u, new, back))
  BY DEF Transcoded
<1>6. WellFormedParameters(im) /\ WellFormedParameters(new)
  BY <1>2 DEF WellFormed
<1> HIDE DEF u, dst, new, back, end
<1>7. CASE t \in Transposing
  <2>1. /\ dst.width = im.height /\ dst.height = im.width /\ dst.h = im.v /\ dst.v = im.h
        /\ dst.tbl = im.tbl /\ dst.quant = [tbl \in DOMAIN im.quant |-> Transposed(im.quant[tbl])]
    BY <1>3, <1>6, <1>7, TransposeWellFormed
  <2>2. /\ back.width = im.width /\ back.height = im.height /\ back.h = im.h /\ back.v = im.v
        /\ back.tbl = im.tbl /\ back.quant = [tbl \in DOMAIN new.quant |-> Transposed(new.quant[tbl])]
    BY <1>1, <1>2, <1>4, <1>6, <1>7, <2>1, TransposeWellFormed
  <2>3. back.quant = im.quant
    <3>1. im.quant \in [DOMAIN im.quant -> Block]
      BY <1>6 DEF WellFormedParameters
    <3>2. back.quant = [tbl \in DOMAIN im.quant |-> Transposed(Transposed(im.quant[tbl]))]
      BY <1>2, <2>1, <2>2
    <3> QED BY <3>1, <3>2, TransposedBlock
  <2>4. ASSUME NEW ci \in DOMAIN im.h,
               NEW y \in 0 .. BlockRows(im, ci) - 1, NEW x \in 0 .. BlockCols(im, ci) - 1
        PROVE  DstBlock(u, new, back, ci, y, x) = im.coef[ci][y][x]
    <3>1. /\ new.width = im.height /\ new.height = im.width /\ new.h = im.v /\ new.v = im.h
          /\ new.coef = Execute(t, im, dst)
      BY <1>2, <2>1
    <3> QED BY <1>7, <2>1, <2>2, <3>1, TransposedBlocksBack DEF u
  <2> QED
    <3>1. Execute(u, new, back) = im.coef
      <4>1. ASSUME NEW ci \in DOMAIN im.h
            PROVE  [y \in 0 .. BlockRows(back, ci) - 1 |-> [x \in 0 .. BlockCols(back, ci) - 1 |->
                      DstBlock(u, new, back, ci, y, x)]] = im.coef[ci]
        <5>1. BlockRows(back, ci) = BlockRows(im, ci) /\ BlockCols(back, ci) = BlockCols(im, ci)
          BY <2>2 DEF BlockRows, BlockCols
        <5>2. im.coef[ci] \in Grid(BlockRows(im, ci), BlockCols(im, ci))
          BY DEF WellFormed
        <5>3. ASSUME NEW y \in 0 .. BlockRows(im, ci) - 1
              PROVE  [x \in 0 .. BlockCols(im, ci) - 1 |-> DstBlock(u, new, back, ci, y, x)] = im.coef[ci][y]
          BY <2>4, <5>2 DEF Grid
        <5>4. [y \in 0 .. BlockRows(im, ci) - 1 |-> [x \in 0 .. BlockCols(im, ci) - 1 |->
                DstBlock(u, new, back, ci, y, x)]] = im.coef[ci]
          BY <5>2, <5>3 DEF Grid
        <5> QED BY <5>1, <5>4
      <4>2. im.coef = [ci \in DOMAIN im.h |-> im.coef[ci]]
        BY DEF WellFormed
      <4> QED BY <2>2, <4>1, <4>2 DEF Execute
    <3>2. im = File(im.width, im.height, im.h, im.v, im.tbl, im.quant, im.coef)
      BY <1>6 DEF WellFormedParameters
    <3> QED BY <1>5, <2>2, <2>3, <3>1, <3>2 DEF end, new, u
<1>8. CASE t \notin Transposing
  <2>1. dst = im /\ back = new /\ u = t
    BY <1>1, <1>3, <1>4, <1>8
  <2>2. /\ back.width = im.width /\ back.height = im.height /\ back.h = im.h /\ back.v = im.v
        /\ back.tbl = im.tbl /\ back.quant = im.quant
    BY <1>2, <2>1
  <2>3. ASSUME NEW ci \in DOMAIN im.h,
               NEW y \in 0 .. BlockRows(im, ci) - 1, NEW x \in 0 .. BlockCols(im, ci) - 1
        PROVE  DstBlock(u, new, back, ci, y, x) = im.coef[ci][y][x]
    BY <1>2, <1>6, <1>8, <2>1, <2>2, PlainBlocksBack
  <2>4. Execute(u, new, back) = im.coef
    <3>1. ASSUME NEW ci \in DOMAIN im.h
          PROVE  [y \in 0 .. BlockRows(back, ci) - 1 |-> [x \in 0 .. BlockCols(back, ci) - 1 |->
                    DstBlock(u, new, back, ci, y, x)]] = im.coef[ci]
      <4>1. BlockRows(back, ci) = BlockRows(im, ci) /\ BlockCols(back, ci) = BlockCols(im, ci)
        BY <2>2 DEF BlockRows, BlockCols
      <4>2. im.coef[ci] \in Grid(BlockRows(im, ci), BlockCols(im, ci))
        BY DEF WellFormed
      <4>3. ASSUME NEW y \in 0 .. BlockRows(im, ci) - 1
            PROVE  [x \in 0 .. BlockCols(im, ci) - 1 |-> DstBlock(u, new, back, ci, y, x)] = im.coef[ci][y]
        BY <2>3, <4>2 DEF Grid
      <4>4. [y \in 0 .. BlockRows(im, ci) - 1 |-> [x \in 0 .. BlockCols(im, ci) - 1 |->
              DstBlock(u, new, back, ci, y, x)]] = im.coef[ci]
        BY <4>2, <4>3 DEF Grid
      <4> QED BY <4>1, <4>4
    <3>2. im.coef = [ci \in DOMAIN im.h |-> im.coef[ci]]
      BY DEF WellFormed
    <3> QED BY <2>2, <3>1, <3>2 DEF Execute
  <2>5. im = File(im.width, im.height, im.h, im.v, im.tbl, im.quant, im.coef)
    BY <1>6 DEF WellFormedParameters
  <2> QED BY <1>5, <2>2, <2>4, <2>5 DEF end, new, u
<1> QED BY <1>7, <1>8

(***************************************************************************)
(* The specification.                                                      *)
(***************************************************************************)

\* Every file the application makes is one that the decompressor accepts again, with
\* exactly the blocks its size and sampling factors call for.
FileSound == WellFormed(image)

\* What Reversible needs: reading back what jpeg_write_coefficients wrote, of whatever
\* transformation with whatever options, never leads outside the well formed files.
THEOREM FilesStaySound == TransformSpec => []FileSound
<1>1. TransformInit => FileSound
  BY ImagesAssumption DEF TransformInit, FileSound
<1>2. FileSound /\ [TransformNext]_transformVars => FileSound'
  <2>1. ASSUME WellFormed(image), NEW t \in Transforms, NEW trim \in BOOLEAN, NEW gray \in BOOLEAN,
               Transcode(t, trim, gray)
        PROVE  WellFormed(image')
    BY <2>1, TranscodedFile DEF Transcode
  <2>2. WellFormed(image) /\ UNCHANGED transformVars => WellFormed(image')
    BY DEF transformVars
  <2> QED BY <2>1, <2>2 DEF TransformNext, FileSound
<1> QED BY <1>1, <1>2, PTL DEF TransformSpec

\* Whatever was done to the file, the next transformation without trimming loses
\* nothing: transupp.c leaves the blocks of partial iMCUs at the edge in place, or
\* only transposes them, so that the inverse transformation finds them again.
THEOREM AlwaysReversible == TransformSpec => []Reversible
<1>1. FileSound => Reversible
  BY ThereAndBack DEF Reversible, FileSound
<1> QED BY <1>1, FilesStaySound, PTL

(***************************************************************************)
(* Samples.                                                                *)
(***************************************************************************)

\* What the coefficients contribute to a sample, frequency by frequency.
LEMMA IdctParts ==
  ASSUME NEW v \in [Freqs -> Int], NEW s \in Freqs
  PROVE  /\ [k \in 1 .. DctSize |-> v[k - 1] * Basis[k - 1][s]] \in [1 .. DctSize -> Int]
         /\ [k \in 1 .. DctSize |-> v[k - 1] * Basis[k - 1][s]] \in Seq(Int)
         /\ Idct(v, s) \in Int
<1> DEFINE terms == [k \in 1 .. DctSize |-> v[k - 1] * Basis[k - 1][s]]
<1>1. \A k \in 1 .. DctSize : k - 1 \in Freqs
  BY DctSizeAssumption DEF Freqs
<1>2. \A k \in Freqs : v[k] \in Int /\ Basis[k][s] \in Int
  BY BasisAssumption
<1>3. \A k \in 1 .. DctSize : v[k - 1] * Basis[k - 1][s] \in Int
  BY <1>1, <1>2
<1>4. terms \in [1 .. DctSize -> Int] /\ DctSize \in Nat
  BY <1>3, DctSizeAssumption
<1>5. terms \in Seq(Int)
  <2> HIDE DEF terms
  <2>1. QED
    BY <1>4
<1>6. Idct(v, s) = Total(terms)
  BY DEF Idct
<1> HIDE DEF terms
<1>7. Idct(v, s) \in Int
  BY <1>5, <1>6, TotalInt
<1> QED BY <1>4, <1>5, <1>7 DEF terms

\* The waves seen in a mirror.
Opposite(s) == DctSize - 1 - s

LEMMA OppositeFreq ==
  ASSUME NEW s \in Freqs
  PROVE  Opposite(s) \in Freqs /\ Opposite(Opposite(s)) = s
BY DctSizeAssumption DEF Freqs, Opposite

\* Changing the signs of the odd coefficients turns a row of samples round.
LEMMA IdctMirrored ==
  ASSUME NEW v \in [Freqs -> Int], NEW w \in [Freqs -> Int], NEW s \in Freqs,
         \A k \in Freqs : w[k] = IF k % 2 = 1 THEN -v[k] ELSE v[k]
  PROVE  Idct(w, s) = Idct(v, Opposite(s))
<1>1. ASSUME NEW k \in Freqs PROVE w[k] * Basis[k][s] = v[k] * Basis[k][Opposite(s)]
  <2>1. Basis[k][Opposite(s)] = IF k % 2 = 1 THEN -Basis[k][s] ELSE Basis[k][s]
    BY BasisAssumption DEF Opposite
  <2>2. v[k] \in Int /\ Basis[k][s] \in Int
    BY BasisAssumption
  <2> DEFINE x == v[k]
             b == Basis[k][s]
  <2>3. x \in Int /\ b \in Int /\ (-x) * b = x * (-b)
    BY <2>2
  <2>4. CASE k % 2 = 1
    <3>1. w[k] = -x /\ Basis[k][Opposite(s)] = -b
      BY <2>1, <2>4
    <3>2. QED
      BY <2>3, <3>1
  <2>5. CASE k % 2 # 1
    BY <2>1, <2>5
  <2> QED BY <2>4, <2>5
<1>2. \A k \in 1 .. DctSize : k - 1 \in Freqs
  BY DctSizeAssumption DEF Freqs
<1>3. [k \in 1 .. DctSize |-> w[k - 1] * Basis[k - 1][s]]
        = [k \in 1 .. DctSize |-> v[k - 1] * Basis[k - 1][Opposite(s)]]
  BY <1>1, <1>2
<1> QED BY <1>3 DEF Idct

\* A row of the opposite sign has samples of the opposite sign.
LEMMA IdctNegated ==
  ASSUME NEW v \in [Freqs -> Int], NEW w \in [Freqs -> Int], NEW s \in Freqs,
         \A k \in Freqs : w[k] = -v[k]
  PROVE  Idct(w, s) = -Idct(v, s)
<1> DEFINE f == [k \in 1 .. DctSize |-> v[k - 1] * Basis[k - 1][s]]
           g == [k \in 1 .. DctSize |-> w[k - 1] * Basis[k - 1][s]]
<1>1. f \in [1 .. DctSize -> Int] /\ f \in Seq(Int) /\ DctSize \in Nat
  BY IdctParts, DctSizeAssumption
<1>2. ASSUME NEW k \in 1 .. DctSize PROVE g[k] = f[k] * (-1)
  <2>1. k - 1 \in Freqs
    BY DctSizeAssumption DEF Freqs
  <2> DEFINE i == k - 1
  <2>2. v[i] \in Int /\ Basis[i][s] \in Int /\ w[i] = -v[i]
    BY <2>1, BasisAssumption
  <2>3. g[k] = w[i] * Basis[i][s] /\ f[k] = v[i] * Basis[i][s]
    OBVIOUS
  <2> HIDE DEF i, f, g
  <2>4. (-v[i]) * Basis[i][s] = (v[i] * Basis[i][s]) * (-1)
    BY <2>2
  <2> QED BY <2>2, <2>3, <2>4
<1>3. g = [k \in 1 .. DctSize |-> f[k] * (-1)]
  <2>1. g = [k \in 1 .. DctSize |-> g[k]]
    OBVIOUS
  <2> HIDE DEF f, g
  <2> QED BY <1>2, <2>1
<1>4. Idct(w, s) = Total(g) /\ Idct(v, s) = Total(f)
  BY DEF Idct
<1> HIDE DEF f, g
<1>5. Total([k \in 1 .. DctSize |-> f[k] * (-1)]) = Total(f) * (-1) /\ -1 \in Int
  BY <1>1, TotalScaled
<1>6. Total(f) \in Int
  BY <1>1, TotalInt
<1>7. Total(f) * (-1) = -Total(f)
  BY <1>6
<1> QED BY <1>3, <1>4, <1>5, <1>7


\* The dequantized rows of a block, and the results of the first pass for column c of
\* the samples.
Dequantized(b, q, i) == [j \in Freqs |-> b[i][j] * q[i][j]]
FirstPass(b, q, c)   == [i \in Freqs |-> Idct(Dequantized(b, q, i), c)]

LEMMA SampleInPasses ==
  ASSUME NEW b \in Block, NEW q \in Block, NEW c \in Freqs
  PROVE  /\ \A i \in Freqs : Dequantized(b, q, i) \in [Freqs -> Int]
         /\ FirstPass(b, q, c) \in [Freqs -> Int]
         /\ \A r : SampleOf(b, q, r, c) = Idct(FirstPass(b, q, c), r)
<1>1. \A i, j \in Freqs : b[i][j] \in Int /\ q[i][j] \in Int /\ b[i][j] * q[i][j] \in Int
  <2>1. ASSUME NEW i \in Freqs, NEW j \in Freqs PROVE b[i][j] \in Int /\ q[i][j] \in Int
    BY DEF Block
  <2>2. \A z, n \in Int : z * n \in Int
    OBVIOUS
  <2> QED BY <2>1, <2>2
<1>2. \A i \in Freqs : Dequantized(b, q, i) \in [Freqs -> Int]
  BY <1>1 DEF Dequantized
<1>3. \A i \in Freqs : Idct(Dequantized(b, q, i), c) \in Int
  BY <1>2, IdctParts
<1> QED BY <1>2, <1>3 DEF SampleOf, FirstPass, Dequantized

\* The coordinate of a sample in a block that was mirrored, or not.
Turned(s, mirrored) == IF mirrored THEN Opposite(s) ELSE s

LEMMA TurnedFreq ==
  ASSUME NEW s \in Freqs, NEW mirrored \in BOOLEAN
  PROVE  Turned(s, mirrored) \in Freqs
BY OppositeFreq DEF Turned

LEMMA FirstPassSigned ==
  ASSUME NEW b \in Block, NEW q \in Block, NEW rows \in BOOLEAN, NEW cols \in BOOLEAN,
         NEW c \in Freqs, NEW i \in Freqs
  PROVE  FirstPass(Signed(b, rows, cols), q, c)[i]
           = IF rows /\ i % 2 = 1 THEN -FirstPass(b, q, Turned(c, cols))[i]
                                  ELSE FirstPass(b, q, Turned(c, cols))[i]
<1> DEFINE half == Signed(b, FALSE, cols)
           full == Signed(b, rows, cols)
           v    == Dequantized(b, q, i)
           w    == Dequantized(half, q, i)
           u    == Dequantized(full, q, i)
<1>1. half \in Block /\ full \in Block
  BY SignedBlock
<1>2. v \in [Freqs -> Int] /\ w \in [Freqs -> Int] /\ u \in [Freqs -> Int]
  <2> HIDE DEF half, full
  <2> QED BY <1>1, SampleInPasses
<1>3. \A z, n \in Int : (-z) * n = -(z * n)
  OBVIOUS
<1>4. ASSUME NEW j \in Freqs
      PROVE  /\ w[j] = IF cols /\ j % 2 = 1 THEN -v[j] ELSE v[j]
             /\ u[j] = IF rows /\ i % 2 = 1 THEN -w[j] ELSE w[j]
  <2>1. b[i][j] \in Int /\ q[i][j] \in Int
    BY DEF Block
  <2> DEFINE x == b[i][j]
             y == q[i][j]
  <2>2. half[i][j] = IF cols /\ j % 2 = 1 THEN -x ELSE x
    BY DEF Signed, Negated
  <2>3. full[i][j] = IF rows /\ i % 2 = 1 THEN -half[i][j] ELSE half[i][j]
    <3>1. full[i][j] = IF (rows /\ i % 2 = 1) # (cols /\ j % 2 = 1) THEN -x ELSE x
      BY DEF Signed, Negated
    <3>2. -(-x) = x
      BY <2>1
    <3> HIDE DEF x, full, half
    <3>3. CASE rows /\ i % 2 = 1
      <4>1. CASE cols /\ j % 2 = 1
        BY <2>2, <3>1, <3>2, <3>3, <4>1
      <4>2. CASE ~(cols /\ j % 2 = 1)
        BY <2>2, <3>1, <3>3, <4>2
      <4> QED BY <4>1, <4>2
    <3>4. CASE ~(rows /\ i % 2 = 1)
      BY <2>2, <3>1, <3>4
    <3> QED BY <3>3, <3>4
  <2>4. v[j] = x * y /\ w[j] = half[i][j] * y /\ u[j] = full[i][j] * y
    BY DEF Dequantized
  <2>5. half[i][j] \in Int
    BY <1>1 DEF Block
  <2> HIDE DEF x, y, half, full, v, w, u
  <2>6. x \in Int /\ y \in Int
    BY <2>1 DEF x, y
  <2>7. (-x) * y = -(x * y) /\ (-half[i][j]) * y = -(half[i][j] * y)
    BY <1>3, <2>5, <2>6
  <2>8. w[j] = IF cols /\ j % 2 = 1 THEN -v[j] ELSE v[j]
    BY <2>2, <2>4, <2>7
  <2>9. u[j] = IF rows /\ i % 2 = 1 THEN -w[j] ELSE w[j]
    BY <2>3, <2>4, <2>7
  <2> QED BY <2>8, <2>9
<1>5. /\ FirstPass(full, q, c)[i] = Idct(u, c)
      /\ FirstPass(b, q, Turned(c, cols))[i] = Idct(v, Turned(c, cols))
  BY DEF FirstPass
<1> HIDE DEF half, v, w, u
<1>6. Idct(w, c) = Idct(v, Turned(c, cols))
  <2>1. CASE cols
    <3>1. \A j \in Freqs : w[j] = IF j % 2 = 1 THEN -v[j] ELSE v[j]
      BY <1>4, <2>1
    <3>2. Idct(w, c) = Idct(v, Opposite(c))
      BY <1>2, <3>1, IdctMirrored
    <3> QED BY <2>1, <3>2 DEF Turned
  <2>2. CASE ~cols
    <3>1. \A j \in Freqs : w[j] = v[j]
      BY <1>4, <2>2
    <3>2. w = v
      BY <1>2, <3>1
    <3> QED BY <2>2, <3>2 DEF Turned
  <2> QED BY <2>1, <2>2
<1>7. Idct(u, c) = IF rows /\ i % 2 = 1 THEN -Idct(w, c) ELSE Idct(w, c)
  <2>1. CASE rows /\ i % 2 = 1
    <3>1. \A j \in Freqs : u[j] = -w[j]
      BY <1>4, <2>1
    <3>2. Idct(u, c) = -Idct(w, c)
      BY <1>2, <3>1, IdctNegated
    <3> QED BY <2>1, <3>2
  <2>2. CASE ~(rows /\ i % 2 = 1)
    <3>1. \A j \in Freqs : u[j] = w[j]
      BY <1>4, <2>2
    <3>2. u = w
      BY <1>2, <3>1
    <3> QED BY <2>2, <3>2
  <2> QED BY <2>1, <2>2
<1> QED BY <1>5, <1>6, <1>7

\* Changing the signs of odd rows or columns mirrors the samples of the block.
LEMMA SignedSample ==
  ASSUME NEW b \in Block, NEW q \in Block, NEW rows \in BOOLEAN, NEW cols \in BOOLEAN,
         NEW r \in Freqs, NEW c \in Freqs
  PROVE  SampleOf(Signed(b, rows, cols), q, r, c) = SampleOf(b, q, Turned(r, rows), Turned(c, cols))
<1> DEFINE d == Turned(c, cols)
           v == FirstPass(b, q, d)
           w == FirstPass(Signed(b, rows, cols), q, c)
<1>1. d \in Freqs /\ Signed(b, rows, cols) \in Block
  BY TurnedFreq, SignedBlock
<1>2. v \in [Freqs -> Int] /\ w \in [Freqs -> Int]
  <2> HIDE DEF d
  <2> QED BY <1>1, SampleInPasses
<1>3. /\ SampleOf(Signed(b, rows, cols), q, r, c) = Idct(w, r)
      /\ SampleOf(b, q, Turned(r, rows), d) = Idct(v, Turned(r, rows))
  <2> HIDE DEF d
  <2> QED BY <1>1, SampleInPasses
<1>4. \A i \in Freqs : w[i] = IF rows /\ i % 2 = 1 THEN -v[i] ELSE v[i]
  BY FirstPassSigned
<1> HIDE DEF v, w
<1>5. CASE rows
  <2>1. \A i \in Freqs : w[i] = IF i % 2 = 1 THEN -v[i] ELSE v[i]
    BY <1>4, <1>5
  <2>2. Idct(w, r) = Idct(v, Opposite(r))
    BY <1>2, <2>1, IdctMirrored
  <2> QED BY <1>3, <1>5, <2>2 DEF Turned, d
<1>6. CASE ~rows
  <2>1. \A i \in Freqs : w[i] = v[i]
    BY <1>4, <1>6
  <2>2. w = v
    BY <1>2, <2>1
  <2> QED BY <1>3, <1>6, <2>2 DEF Turned, d
<1> QED BY <1>5, <1>6


\* Transposing a block and its quantization table transposes the samples: the sum of
\* the two passes does not depend on which of them goes over the rows.
LEMMA TransposedSample ==
  ASSUME NEW b \in Block, NEW q \in Block, NEW r \in Freqs, NEW c \in Freqs
  PROVE  SampleOf(Transposed(b), Transposed(q), r, c) = SampleOf(b, q, c, r)
<1> DEFINE D == DctSize
           part(i, j) == (b[j - 1][i - 1] * q[j - 1][i - 1]) * Basis[j - 1][c]
           other(i, j) == (b[j - 1][i - 1] * q[j - 1][i - 1]) * Basis[i - 1][r]
           t == [i \in 1 .. D |-> [j \in 1 .. D |-> part(i, j) * Basis[i - 1][r]]]
           tb == Transposed(b)
           tq == Transposed(q)
<1>0. D \in Nat /\ \A k \in 1 .. D : k - 1 \in Freqs
  BY DctSizeAssumption DEF Freqs
<1>1. tb \in Block /\ tq \in Block
  BY TransposedBlock
<1>2. ASSUME NEW i \in 1 .. D, NEW j \in 1 .. D
      PROVE  /\ part(i, j) \in Int /\ other(i, j) \in Int /\ Basis[i - 1][r] \in Int /\ Basis[j - 1][c] \in Int
             /\ part(i, j) * Basis[i - 1][r] \in Int
             /\ part(i, j) * Basis[i - 1][r] = other(i, j) * Basis[j - 1][c]
  <2>1. b[j - 1][i - 1] \in Int /\ q[j - 1][i - 1] \in Int
    BY <1>0 DEF Block
  <2>2. Basis[i - 1][r] \in Int /\ Basis[j - 1][c] \in Int
    BY <1>0, BasisAssumption
  <2>3. \A k, l, z, n \in Int : /\ (k * l) * z \in Int /\ ((k * l) * z) * n \in Int
                                /\ ((k * l) * z) * n = ((k * l) * n) * z
    OBVIOUS
  <2> QED BY <2>1, <2>2, <2>3
<1>3. t \in [1 .. D -> [1 .. D -> Int]] /\ \A i, j \in 1 .. D : t[i][j] = part(i, j) * Basis[i - 1][r]
  BY <1>2
<1>4. ASSUME NEW i \in 1 .. D
      PROVE  Total(t[i]) = Idct(Dequantized(tb, tq, i - 1), c) * Basis[i - 1][r]
  <2> DEFINE f == [j \in 1 .. D |-> part(i, j)]
             n == Basis[i - 1][r]
  <2>1. f \in [1 .. D -> Int] /\ n \in Int
    BY <1>2
  <2>2. t[i] = [j \in 1 .. D |-> f[j] * n]
    OBVIOUS
  <2>3. Idct(Dequantized(tb, tq, i - 1), c) = Total(f)
    <3>1. \A j \in 1 .. D : Dequantized(tb, tq, i - 1)[j - 1] = b[j - 1][i - 1] * q[j - 1][i - 1]
      BY <1>0 DEF Dequantized, Transposed
    <3>2. f = [j \in 1 .. D |-> Dequantized(tb, tq, i - 1)[j - 1] * Basis[j - 1][c]]
      BY <3>1
    <3> QED BY <3>2 DEF Idct
  <2> HIDE DEF f, n, t
  <2>4. Total([j \in 1 .. D |-> f[j] * n]) = Total(f) * n
    <3> HIDE DEF D
    <3> QED BY <1>0, <2>1, TotalScaled
  <2> QED BY <2>2, <2>3, <2>4 DEF n
<1>5. ASSUME NEW j \in 1 .. D
      PROVE  Total([i \in 1 .. D |-> t[i][j]]) = Idct(Dequantized(b, q, j - 1), r) * Basis[j - 1][c]
  <2> DEFINE f == [i \in 1 .. D |-> other(i, j)]
             n == Basis[j - 1][c]
  <2>1. f \in [1 .. D -> Int] /\ n \in Int
    BY <1>2
  <2>2. [i \in 1 .. D |-> t[i][j]] = [i \in 1 .. D |-> f[i] * n]
    BY <1>2, <1>3
  <2>3. Idct(Dequantized(b, q, j - 1), r) = Total(f)
    <3>1. \A i \in 1 .. D : Dequantized(b, q, j - 1)[i - 1] = b[j - 1][i - 1] * q[j - 1][i - 1]
      BY <1>0 DEF Dequantized
    <3>2. f = [i \in 1 .. D |-> Dequantized(b, q, j - 1)[i - 1] * Basis[i - 1][r]]
      BY <3>1
    <3> QED BY <3>2 DEF Idct
  <2> HIDE DEF f, n, t
  <2>4. Total([i \in 1 .. D |-> f[i] * n]) = Total(f) * n
    <3> HIDE DEF D
    <3> QED BY <1>0, <2>1, TotalScaled
  <2> QED BY <2>2, <2>3, <2>4 DEF n
<1>6. SampleOf(tb, tq, r, c) = Total([i \in 1 .. D |-> Total(t[i])])
  <2>1. SampleOf(tb, tq, r, c) = Idct(FirstPass(tb, tq, c), r)
    <3> HIDE DEF tb, tq
    <3> QED BY <1>1, SampleInPasses
  <2>2. \A i \in 1 .. D : FirstPass(tb, tq, c)[i - 1] = Idct(Dequantized(tb, tq, i - 1), c)
    BY <1>0 DEF FirstPass
  <2> HIDE DEF t, tb, tq
  <2>3. [i \in 1 .. D |-> FirstPass(tb, tq, c)[i - 1] * Basis[i - 1][r]] = [i \in 1 .. D |-> Total(t[i])]
    BY <1>4, <2>2
  <2> QED BY <2>1, <2>3 DEF Idct
<1>7. SampleOf(b, q, c, r) = Total([j \in 1 .. D |-> Total([i \in 1 .. D |-> t[i][j]])])
  <2>1. SampleOf(b, q, c, r) = Idct(FirstPass(b, q, r), c)
    BY SampleInPasses
  <2>2. \A j \in 1 .. D : FirstPass(b, q, r)[j - 1] = Idct(Dequantized(b, q, j - 1), r)
    BY <1>0 DEF FirstPass
  <2> HIDE DEF t
  <2>3. [j \in 1 .. D |-> FirstPass(b, q, r)[j - 1] * Basis[j - 1][c]]
          = [j \in 1 .. D |-> Total([i \in 1 .. D |-> t[i][j]])]
    BY <1>5, <2>2
  <2> QED BY <2>1, <2>3 DEF Idct
<1> HIDE DEF t, D
<1>8. Total([i \in 1 .. D |-> Total(t[i])]) = Total([j \in 1 .. D |-> Total([i \in 1 .. D |-> t[i][j]])])
  BY <1>0, <1>3, TotalExchanged
<1> QED BY <1>6, <1>7, <1>8


(***************************************************************************)
(* Where a sample comes from.                                              *)
(***************************************************************************)

LEMMA DivisionUnique ==
  ASSUME NEW d \in Nat \ {0}, NEW k \in Nat, NEW s \in 0 .. d - 1
  PROVE  (d * k + s) \div d = k /\ (d * k + s) % d = s
<1> DEFINE y == d * k + s
           q == y \div d
           z == y % d
<1>1. y \in Nat
  OBVIOUS
<1>2. q \in Nat /\ z \in 0 .. d - 1 /\ y = d * q + z
  <2> HIDE DEF y
  <2> QED BY <1>1
<1>3. d * k + s = d * q + z
  BY <1>2
<1> HIDE DEF q, z, y
<1>4. ~(k < q)
  <2> SUFFICES ASSUME k < q PROVE FALSE
    OBVIOUS
  <2>1. d * (k + 1) <= d * q
    BY <1>2
  <2> QED BY <1>2, <1>3, <2>1
<1>5. ~(q < k)
  <2> SUFFICES ASSUME q < k PROVE FALSE
    OBVIOUS
  <2>1. d * (q + 1) <= d * k
    BY <1>2
  <2> QED BY <1>2, <1>3, <2>1
<1>6. q = k
  BY <1>2, <1>4, <1>5
<1>7. z = s
  BY <1>2, <1>3, <1>6
<1> QED BY <1>6, <1>7 DEF q, z, y

\* The block of a sample and the place in the block, of a sample and of the one
\* opposite to it in n blocks.
LEMMA Positions ==
  ASSUME NEW n \in Nat, NEW y \in 0 .. DctSize * n - 1
  PROVE  /\ y \div DctSize \in 0 .. n - 1 /\ y % DctSize \in Freqs
         /\ (DctSize * n - 1 - y) \div DctSize = n - 1 - (y \div DctSize)
         /\ (DctSize * n - 1 - y) % DctSize = Opposite(y % DctSize)
<1> DEFINE d == DctSize
           k == y \div d
           s == y % d
<1>1. d \in Nat \ {0}
  BY DctSizeAssumption
<1>2. y \in Nat
  BY <1>1
<1>3. k \in Nat /\ s \in 0 .. d - 1 /\ y = d * k + s
  <2> HIDE DEF d
  <2> QED BY <1>1, <1>2
<1>4. y < d * n
  BY <1>1
<1> HIDE DEF d, k, s
<1>5. k < n
  <2> SUFFICES ASSUME n <= k PROVE FALSE
    BY <1>3
  <2>1. d * n <= d * k
    BY <1>1, <1>3
  <2> QED BY <1>1, <1>3, <1>4, <2>1
<1>6. n - 1 - k \in Nat /\ d - 1 - s \in 0 .. d - 1
  BY <1>1, <1>3, <1>5
<1>7. d * n - 1 - y = d * (n - 1 - k) + (d - 1 - s)
  BY <1>1, <1>3
<1>8. (d * n - 1 - y) \div d = n - 1 - k /\ (d * n - 1 - y) % d = d - 1 - s
  <2> DEFINE j == n - 1 - k
             u == d - 1 - s
  <2>1. j \in Nat /\ u \in 0 .. d - 1 /\ d * n - 1 - y = d * j + u
    BY <1>6, <1>7
  <2> HIDE DEF j, u
  <2>2. (d * j + u) \div d = j /\ (d * j + u) % d = u
    BY <1>1, <2>1, DivisionUnique
  <2> QED BY <2>1, <2>2 DEF j, u
<1>9. k \in 0 .. n - 1
  BY <1>3, <1>5
<1> QED BY <1>3, <1>8, <1>9 DEF d, k, s, Freqs, Opposite


\* Trimming takes nothing from the complete iMCUs, and leaves nothing else.
LEMMA TrimmedMirror ==
  ASSUME NEW size \in Nat \ {0}, NEW k \in Nat \ {0}, NEW f \in Nat \ {0}
  PROVE  LET trimmed == IF size \div k > 0 THEN (size \div k) * k ELSE size
         IN /\ trimmed \div k = size \div k
            /\ (size \div k) * f > 0 => RoundUp(trimmed * f, k) = (size \div k) * f
<1> DEFINE q == size \div k
           n == q * f
<1>1. q \in Nat
  OBVIOUS
<1> HIDE DEF q
<1>2. n \in Nat /\ q * k \in Nat
  BY <1>1
<1>3. (q * k) \div k = q
  <2>1. (k * q + 0) \div k = q
    <3>1. 0 \in 0 .. k - 1
      OBVIOUS
    <3> QED BY <1>1, <3>1, DivisionUnique
  <2>2. k * q + 0 = q * k
    BY <1>1
  <2> QED BY <2>1, <2>2
<1>4. RoundUp((q * k) * f, k) = n
  <2>1. (q * k) * f + k - 1 = k * n + (k - 1)
    BY <1>1
  <2>2. k - 1 \in 0 .. k - 1
    OBVIOUS
  <2> HIDE DEF n
  <2>3. (k * n + (k - 1)) \div k = n
    BY <1>2, <2>2, DivisionUnique
  <2> QED BY <2>1, <2>3 DEF RoundUp
<1>5. q > 0 => (IF q > 0 THEN q * k ELSE size) = q * k
  OBVIOUS
<1>6. ~(q > 0) => (IF q > 0 THEN q * k ELSE size) = size
  OBVIOUS
<1>7. ~(q > 0) => ~(q * f > 0)
  <2>1. ~(q > 0) => q = 0
    BY <1>1
  <2>2. 0 * f = 0
    OBVIOUS
  <2> QED BY <2>1, <2>2
<1>8. (IF q > 0 THEN q * k ELSE size) \div k = q
  <2>1. size \div k = q
    BY DEF q
  <2> QED BY <1>3, <1>5, <1>6, <2>1
<1>9. q * f > 0 => RoundUp((IF q > 0 THEN q * k ELSE size) * f, k) = q * f
  <2> HAVE q * f > 0
  <2>1. q > 0
    BY <1>7
  <2> QED BY <1>4, <1>5, <2>1
<1> QED BY <1>8, <1>9 DEF q

LEMMA ImcuSizes ==
  ASSUME NEW im, WellFormedParameters(im)
  PROVE  /\ im.width \in Nat \ {0} /\ im.height \in Nat \ {0}
         /\ MaxOf(im.h) * DctSize \in Nat \ {0} /\ MaxOf(im.v) * DctSize \in Nat \ {0}
         /\ DOMAIN im.v = DOMAIN im.h
         /\ \A ci \in DOMAIN im.h : /\ im.h[ci] \in Nat \ {0} /\ im.v[ci] \in Nat \ {0}
                                    /\ im.tbl[ci] \in DOMAIN im.quant /\ im.quant[im.tbl[ci]] \in Block
<1>1. PICK n \in 1..MaxComponents : /\ im.h \in [1..n -> Factors] /\ im.v \in [1..n -> Factors]
                                    /\ im.tbl \in [1..n -> DOMAIN im.quant]
  BY DEF WellFormedParameters, Factors
<1>2. im.width \in Nat \ {0} /\ im.height \in Nat \ {0} /\ im.quant \in [DOMAIN im.quant -> Block]
  BY DEF WellFormedParameters
<1>3. MaxOf(im.h) \in Factors /\ MaxOf(im.v) \in Factors
  BY <1>1, MaxOfFactors
<1>4. \A z \in Factors : z * DctSize \in Nat \ {0}
  BY DctSizeAssumption DEF Factors, MaxSampFactor
<1>5. \A z \in Factors : z \in Nat \ {0}
  BY DEF Factors, MaxSampFactor
<1>6. \A ci \in 1..n : im.h[ci] \in Factors /\ im.v[ci] \in Factors /\ im.tbl[ci] \in DOMAIN im.quant
  BY <1>1
<1>7. \A tbl \in DOMAIN im.quant : im.quant[tbl] \in Block
  BY <1>2
<1> QED BY <1>1, <1>2, <1>3, <1>4, <1>5, <1>6, <1>7

LEMMA TrimmedFile ==
  ASSUME NEW im, WellFormedParameters(im), NEW ci \in DOMAIN im.h
  PROVE  LET r == TrimRightEdge(im)
             b == TrimBottomEdge(im)
         IN /\ r.quant = im.quant /\ r.tbl = im.tbl /\ b.quant = im.quant /\ b.tbl = im.tbl
            /\ MirrorCols(r, ci) = MirrorCols(im, ci) /\ MirrorRows(r, ci) = MirrorRows(im, ci)
            /\ MirrorCols(b, ci) = MirrorCols(im, ci) /\ MirrorRows(b, ci) = MirrorRows(im, ci)
            /\ BlockRows(r, ci) = BlockRows(im, ci) /\ BlockCols(b, ci) = BlockCols(im, ci)
            /\ MirrorCols(im, ci) > 0 => BlockCols(r, ci) = MirrorCols(im, ci)
            /\ MirrorRows(im, ci) > 0 => BlockRows(b, ci) = MirrorRows(im, ci)
<1> DEFINE r == TrimRightEdge(im)
           b == TrimBottomEdge(im)
           k == MaxOf(im.h) * DctSize
           l == MaxOf(im.v) * DctSize
           W == IF im.width \div k > 0 THEN (im.width \div k) * k ELSE im.width
           H == IF im.height \div l > 0 THEN (im.height \div l) * l ELSE im.height
<1>1. /\ r = File(W, im.height, im.h, im.v, im.tbl, im.quant, im.coef)
      /\ b = File(im.width, H, im.h, im.v, im.tbl, im.quant, im.coef)
  BY DEF TrimRightEdge, TrimBottomEdge
<1>2. /\ im.width \in Nat \ {0} /\ im.height \in Nat \ {0} /\ k \in Nat \ {0} /\ l \in Nat \ {0}
      /\ im.h[ci] \in Nat \ {0} /\ im.v[ci] \in Nat \ {0}
  BY ImcuSizes
<1>3. /\ W \div k = im.width \div k
      /\ (im.width \div k) * im.h[ci] > 0 => RoundUp(W * im.h[ci], k) = (im.width \div k) * im.h[ci]
  <2> HIDE DEF k
  <2> QED BY <1>2, TrimmedMirror, ZenonT(40)
<1>4. /\ H \div l = im.height \div l
      /\ (im.height \div l) * im.v[ci] > 0 => RoundUp(H * im.v[ci], l) = (im.height \div l) * im.v[ci]
  <2> HIDE DEF l
  <2> QED BY <1>2, TrimmedMirror, ZenonT(40)
<1> HIDE DEF r, b, W, H
<1>5. /\ r.width = W /\ r.height = im.height /\ r.h = im.h /\ r.v = im.v /\ r.tbl = im.tbl /\ r.quant = im.quant
      /\ b.width = im.width /\ b.height = H /\ b.h = im.h /\ b.v = im.v /\ b.tbl = im.tbl /\ b.quant = im.quant
  BY <1>1 DEF File
<1>6. MirrorCols(im, ci) = (im.width \div k) * im.h[ci] /\ MirrorRows(im, ci) = (im.height \div l) * im.v[ci]
  BY DEF MirrorCols, MirrorRows
<1>7. MirrorCols(r, ci) = MirrorCols(im, ci) /\ MirrorRows(r, ci) = MirrorRows(im, ci)
  BY <1>3, <1>5 DEF MirrorCols, MirrorRows
<1>8. MirrorCols(b, ci) = MirrorCols(im, ci) /\ MirrorRows(b, ci) = MirrorRows(im, ci)
  BY <1>4, <1>5 DEF MirrorCols, MirrorRows
<1>9. BlockRows(r, ci) = BlockRows(im, ci) /\ BlockCols(b, ci) = BlockCols(im, ci)
  BY <1>5 DEF BlockRows, BlockCols
<1>10. BlockCols(r, ci) = RoundUp(W * im.h[ci], k) /\ BlockRows(b, ci) = RoundUp(H * im.v[ci], l)
  BY <1>5 DEF BlockRows, BlockCols
<1> QED BY <1>3, <1>4, <1>5, <1>6, <1>7, <1>8, <1>9, <1>10 DEF r, b


\* The complete blocks of a gray image are blocks of the complete luminance.
LEMMA LuminanceFits ==
  ASSUME NEW size \in Nat \ {0}, NEW f \in Nat \ {0}, NEW d \in Nat \ {0}
  PROVE  size \div d <= RoundUp(size * f, f * d)
<1> DEFINE q == size \div d
           k == f * d
           s == size * f
           r == RoundUp(s, k)
<1>1. q \in Nat /\ q * d <= size
  OBVIOUS
<1>2. k \in Nat \ {0} /\ s \in Nat
  OBVIOUS
<1>3. r \in Nat /\ s <= r * k
  <2> HIDE DEF s, k
  <2> QED BY <1>2 DEF RoundUp
<1> HIDE DEF q, r
<1>4. q * k <= s
  <2>1. (q * d) * f <= size * f
    BY <1>1
  <2>2. (q * d) * f = q * k
    BY <1>1
  <2> QED BY <2>1, <2>2
<1> HIDE DEF k, s
<1>5. q * k <= r * k
  BY <1>1, <1>2, <1>3, <1>4
<1>6. q <= r
  BY <1>1, <1>2, <1>3, <1>5
<1> QED BY <1>6 DEF q, r, k, s

LEMMA GrayFits ==
  ASSUME NEW im, WellFormedParameters(im), FullLuminance(im)
  PROVE  LET g == ForceGrayscale(im)
         IN /\ DOMAIN g.h = {1} /\ g.quant = im.quant /\ g.tbl[1] = im.tbl[1]
            /\ MirrorCols(g, 1) <= BlockCols(im, 1) /\ MirrorRows(g, 1) <= BlockRows(im, 1)
<1> DEFINE g == ForceGrayscale(im)
<1>1. /\ g.width = im.width /\ g.height = im.height /\ g.h = <<1>> /\ g.v = <<1>>
      /\ g.tbl = <<im.tbl[1]>> /\ g.quant = im.quant
  BY DEF ForceGrayscale, File
<1> HIDE DEF g
<1>2. MaxOf(<<1>>) = 1
  <2> DEFINE f == <<1>>
  <2>1. DOMAIN f = {1} /\ f[1] = 1
    OBVIOUS
  <2> HIDE DEF f
  <2>2. {f[i] : i \in DOMAIN f} = {1}
    BY <2>1
  <2>3. 1 <= 1
    OBVIOUS
  <2>4. MaxOf(f) \in {1}
    BY <2>1, <2>2, <2>3 DEF MaxOf
  <2> QED BY <2>4 DEF f
<1>3. 1 \in DOMAIN im.h
  <2>1. PICK n \in 1..MaxComponents : im.h \in [1..n -> Factors]
    BY DEF WellFormedParameters, Factors
  <2> QED BY <2>1 DEF MaxComponents
<1>4. /\ im.width \in Nat \ {0} /\ im.height \in Nat \ {0}
      /\ im.h[1] \in Nat \ {0} /\ im.v[1] \in Nat \ {0} /\ DctSize \in Nat \ {0}
  BY <1>3, ImcuSizes, DctSizeAssumption
<1>5. /\ im.width \div DctSize <= RoundUp(im.width * im.h[1], im.h[1] * DctSize)
      /\ im.height \div DctSize <= RoundUp(im.height * im.v[1], im.v[1] * DctSize)
  BY <1>4, LuminanceFits
<1>6. /\ BlockCols(im, 1) = RoundUp(im.width * im.h[1], im.h[1] * DctSize)
      /\ BlockRows(im, 1) = RoundUp(im.height * im.v[1], im.v[1] * DctSize)
  BY DEF BlockCols, BlockRows, FullLuminance
<1>7. MirrorCols(g, 1) = im.width \div DctSize /\ MirrorRows(g, 1) = im.height \div DctSize
  <2>1. 1 * DctSize = DctSize /\ g.h[1] = 1 /\ g.v[1] = 1
    BY <1>1, <1>4
  <2>2. im.width \div DctSize \in Nat /\ im.height \div DctSize \in Nat
    BY <1>4
  <2>3. (im.width \div DctSize) * 1 = im.width \div DctSize /\ (im.height \div DctSize) * 1 = im.height \div DctSize
    BY <2>2
  <2> QED BY <1>1, <1>2, <2>1, <2>3 DEF MirrorCols, MirrorRows
<1>8. DOMAIN g.h = {1} /\ g.tbl[1] = im.tbl[1]
  BY <1>1
<1> QED BY <1>1, <1>5, <1>6, <1>7, <1>8 DEF g

\* What the destination's component ci has in common with the source's: its complete
\* iMCUs come from blocks that the source has, and its table is the source's.
Covers(im, dst, ci, transposed) ==
  /\ MirrorCols(dst, ci) <= IF transposed THEN BlockRows(im, ci) ELSE BlockCols(im, ci)
  /\ MirrorRows(dst, ci) <= IF transposed THEN BlockCols(im, ci) ELSE BlockRows(im, ci)
  /\ dst.quant[dst.tbl[ci]] = IF transposed THEN Transposed(im.quant[im.tbl[ci]]) ELSE im.quant[im.tbl[ci]]

LEMMA Adjusted ==
  ASSUME NEW im, WellFormedParameters(im), NEW t, NEW trim \in BOOLEAN, NEW gray \in BOOLEAN,
         gray => FullLuminance(im), NEW ci \in DOMAIN AdjustParameters(im, t, trim, gray).h
  PROVE  LET dst == AdjustParameters(im, t, trim, gray)
         IN /\ Covers(im, dst, ci, t \in Transposing)
            /\ trim /\ t \in {"transverse", "rot_180"} /\ MirrorRows(dst, ci) > 0 /\ MirrorCols(dst, ci) > 0 =>
                 BlockRows(dst, ci) = MirrorRows(dst, ci) /\ BlockCols(dst, ci) = MirrorCols(dst, ci)
<1> DEFINE g == IF gray THEN ForceGrayscale(im) ELSE im
           p == IF t \in Transposing THEN TransposeCriticalParameters(g) ELSE g
           r == IF trim /\ t \in {"flip_h", "rot_180", "rot_90", "transverse"} THEN TrimRightEdge(p) ELSE p
           dst == IF trim /\ t \in {"flip_v", "rot_180", "rot_270", "transverse"} THEN TrimBottomEdge(r) ELSE r
<1>0. AdjustParameters(im, t, trim, gray) = dst
  BY DEF AdjustParameters
<1>1. WellFormedParameters(g) /\ DOMAIN g.h \subseteq DOMAIN im.h
  BY GrayWellFormed
<1>2. \A c \in DOMAIN g.h : Covers(im, g, c, FALSE)
  <2>1. CASE gray
    BY <2>1, GrayFits DEF Covers
  <2>2. CASE ~gray
    BY <2>2, Dimensions DEF Covers
  <2> QED BY <2>1, <2>2
<1> HIDE DEF g
<1>3. /\ WellFormedParameters(p) /\ DOMAIN p.h = DOMAIN g.h
      /\ \A c \in DOMAIN g.h : Covers(im, p, c, t \in Transposing)
  <2>1. CASE t \in Transposing
    <3>1. /\ WellFormedParameters(p)
          /\ p.width = g.height /\ p.height = g.width /\ p.h = g.v /\ p.v = g.h
          /\ p.tbl = g.tbl /\ p.quant = [tbl \in DOMAIN g.quant |-> Transposed(g.quant[tbl])]
      BY <1>1, <2>1, TransposeWellFormed
    <3> HIDE DEF p
    <3>2. ASSUME NEW c \in DOMAIN g.h PROVE Covers(im, p, c, TRUE)
      <4>1. MirrorCols(p, c) = MirrorRows(g, c) /\ MirrorRows(p, c) = MirrorCols(g, c)
        BY <3>1 DEF MirrorCols, MirrorRows
      <4>2. p.quant[p.tbl[c]] = Transposed(g.quant[g.tbl[c]])
        BY <1>1, <3>1, ImcuSizes
      <4> QED BY <1>2, <4>1, <4>2 DEF Covers
    <3>3. DOMAIN p.h = DOMAIN g.h
      BY <1>1, <3>1, ImcuSizes
    <3>4. (t \in Transposing) = TRUE
      BY <2>1
    <3> QED BY <3>1, <3>2, <3>3, <3>4
  <2>2. CASE t \notin Transposing
    <3>1. p = g /\ (t \in Transposing) = FALSE
      BY <2>2
    <3> QED BY <1>1, <1>2, <3>1
  <2> QED BY <2>1, <2>2
<1> HIDE DEF p
<1>4. /\ WellFormedParameters(r) /\ r.h = p.h
      /\ \A c \in DOMAIN p.h :
           /\ MirrorCols(r, c) = MirrorCols(p, c) /\ MirrorRows(r, c) = MirrorRows(p, c)
           /\ r.quant = p.quant /\ r.tbl = p.tbl
           /\ trim /\ t \in {"transverse", "rot_180"} /\ MirrorCols(r, c) > 0 => BlockCols(r, c) = MirrorCols(r, c)
  BY <1>3, TrimWellFormed, TrimmedFile
<1> HIDE DEF r
<1>5. \A c \in DOMAIN p.h :
           /\ MirrorCols(dst, c) = MirrorCols(r, c) /\ MirrorRows(dst, c) = MirrorRows(r, c)
           /\ dst.quant = r.quant /\ dst.tbl = r.tbl /\ dst.h = r.h
           /\ BlockCols(dst, c) = BlockCols(r, c)
           /\ trim /\ t \in {"transverse", "rot_180"} /\ MirrorRows(dst, c) > 0 => BlockRows(dst, c) = MirrorRows(dst, c)
  BY <1>4, TrimWellFormed, TrimmedFile
<1>6. dst.h = p.h
  BY <1>4, TrimWellFormed
<1>7. ci \in DOMAIN p.h
  BY <1>0, <1>6
<1> HIDE DEF dst
<1>8. Covers(im, dst, ci, t \in Transposing)
  BY <1>3, <1>4, <1>5, <1>7 DEF Covers
<1>9. trim /\ t \in {"transverse", "rot_180"} /\ MirrorRows(dst, ci) > 0 /\ MirrorCols(dst, ci) > 0 =>
        BlockRows(dst, ci) = MirrorRows(dst, ci) /\ BlockCols(dst, ci) = MirrorCols(dst, ci)
  BY <1>4, <1>5, <1>7
<1> QED BY <1>0, <1>8, <1>9


\* Transposing and mirroring a block with its table, for a sample of it.
LEMMA TurnedSample ==
  ASSUME NEW b \in Block, NEW q \in Block, NEW rows \in BOOLEAN, NEW cols \in BOOLEAN,
         NEW r \in Freqs, NEW c \in Freqs
  PROVE  SampleOf(Signed(Transposed(b), rows, cols), Transposed(q), r, c)
           = SampleOf(b, q, Turned(c, cols), Turned(r, rows))
<1>1. Transposed(b) \in Block /\ Transposed(q) \in Block
  BY TransposedBlock
<1>2. Turned(r, rows) \in Freqs /\ Turned(c, cols) \in Freqs
  BY TurnedFreq
<1>3. SampleOf(Signed(Transposed(b), rows, cols), Transposed(q), r, c)
        = SampleOf(Transposed(b), Transposed(q), Turned(r, rows), Turned(c, cols))
  BY <1>1, SignedSample
<1>4. SampleOf(Transposed(b), Transposed(q), Turned(r, rows), Turned(c, cols))
        = SampleOf(b, q, Turned(c, cols), Turned(r, rows))
  BY <1>2, TransposedSample
<1> QED BY <1>3, <1>4

\* Every sample of the complete iMCUs is the one of the source that the transformation
\* puts there.
LEMMA SamplesMoved ==
  ASSUME NEW im, WellFormed(im), NEW t \in Transforms, NEW dst, WellFormedParameters(dst),
         NEW ci \in DOMAIN im.h, ci \in DOMAIN dst.h, Covers(im, dst, ci, t \in Transposing),
         NEW new, new.coef = Execute(t, im, dst), new.quant = dst.quant, new.tbl = dst.tbl,
         NEW y \in 0 .. DctSize * MirrorRows(dst, ci) - 1, NEW x \in 0 .. DctSize * MirrorCols(dst, ci) - 1
  PROVE  LET at == From(t, DctSize * MirrorRows(dst, ci), DctSize * MirrorCols(dst, ci), y, x)
         IN Sample(new, ci, y, x) = Sample(im, ci, at[1], at[2])
<1> DEFINE n == MirrorCols(dst, ci)
           z == MirrorRows(dst, ci)
           w == DctSize * n
           h == DctSize * z
           X == x \div DctSize
           Y == y \div DctSize
           c == x % DctSize
           r == y % DctSize
           q == im.quant[im.tbl[ci]]
           b(k, l) == im.coef[ci][k][l]
<1>1. n \in Nat /\ z \in Nat /\ n <= BlockCols(dst, ci) /\ z <= BlockRows(dst, ci)
      /\ BlockCols(dst, ci) \in Nat /\ BlockRows(dst, ci) \in Nat
  BY Dimensions
<1>2. BlockCols(im, ci) \in Nat /\ BlockRows(im, ci) \in Nat /\ q \in Block
  BY Dimensions, ImcuSizes DEF WellFormed
<1>3. /\ X \in 0 .. n - 1 /\ c \in Freqs
      /\ (w - 1 - x) \div DctSize = n - 1 - X /\ (w - 1 - x) % DctSize = Opposite(c)
  <2> HIDE DEF n
  <2> QED BY <1>1, Positions DEF n
<1>4. /\ Y \in 0 .. z - 1 /\ r \in Freqs
      /\ (h - 1 - y) \div DctSize = z - 1 - Y /\ (h - 1 - y) % DctSize = Opposite(r)
  <2> HIDE DEF z
  <2> QED BY <1>1, Positions DEF z
<1>5. ASSUME NEW k \in 0 .. BlockRows(im, ci) - 1, NEW l \in 0 .. BlockCols(im, ci) - 1
      PROVE  SrcBlock(im, ci, k, l) = b(k, l) /\ b(k, l) \in Block
  <2>1. k < BlockRows(im, ci) /\ l < BlockCols(im, ci)
    BY <1>2
  <2>2. im.coef[ci] \in Grid(BlockRows(im, ci), BlockCols(im, ci))
    BY DEF WellFormed
  <2>3. im.coef[ci][k][l] \in Block
    BY <2>2 DEF Grid
  <2> QED BY <2>1, <2>3 DEF SrcBlock
<1>6. Sample(new, ci, y, x) = SampleOf(DstBlock(t, im, dst, ci, Y, X), dst.quant[dst.tbl[ci]], r, c)
  <2>1. Y \in 0 .. BlockRows(dst, ci) - 1 /\ X \in 0 .. BlockCols(dst, ci) - 1
    <3> HIDE DEF n, z, X, Y
    <3> QED BY <1>1, <1>3, <1>4
  <2>2. new.coef[ci][Y][X] = DstBlock(t, im, dst, ci, Y, X)
    <3> HIDE DEF X, Y
    <3> QED BY <2>1 DEF Execute
  <2> QED BY <2>2 DEF Sample
<1>7. \A k, l : Sample(im, ci, k, l) = SampleOf(b(k \div DctSize, l \div DctSize), q, k % DctSize, l % DctSize)
  BY DEF Sample
<1> HIDE DEF n, z, X, Y, c, r, q, b
<1>8. /\ X < n /\ Mirror(X, n) = n - 1 - X /\ X \in Nat /\ n - 1 - X \in 0 .. n - 1
      /\ Y < z /\ Mirror(Y, z) = z - 1 - Y /\ Y \in Nat /\ z - 1 - Y \in 0 .. z - 1
  BY <1>1, <1>3, <1>4 DEF Mirror
<1>9. /\ Sample(im, ci, y, x) = SampleOf(b(Y, X), q, r, c)
      /\ Sample(im, ci, y, w - 1 - x) = SampleOf(b(Y, n - 1 - X), q, r, Opposite(c))
      /\ Sample(im, ci, h - 1 - y, x) = SampleOf(b(z - 1 - Y, X), q, Opposite(r), c)
      /\ Sample(im, ci, h - 1 - y, w - 1 - x) = SampleOf(b(z - 1 - Y, n - 1 - X), q, Opposite(r), Opposite(c))
      /\ Sample(im, ci, x, y) = SampleOf(b(X, Y), q, c, r)
      /\ Sample(im, ci, w - 1 - x, y) = SampleOf(b(n - 1 - X, Y), q, Opposite(c), r)
      /\ Sample(im, ci, x, h - 1 - y) = SampleOf(b(X, z - 1 - Y), q, c, Opposite(r))
      /\ Sample(im, ci, w - 1 - x, h - 1 - y) = SampleOf(b(n - 1 - X, z - 1 - Y), q, Opposite(c), Opposite(r))
  <2> HIDE DEF w, h
  <2> QED BY <1>3, <1>4, <1>7 DEF X, Y, c, r
<1>10. Turned(c, TRUE) = Opposite(c) /\ Turned(c, FALSE) = c /\ Turned(r, TRUE) = Opposite(r) /\ Turned(r, FALSE) = r
  BY DEF Turned
<1>11. (X < n) = TRUE /\ (Y < z) = TRUE /\ TRUE \in BOOLEAN /\ FALSE \in BOOLEAN
  BY <1>8
<1> HIDE DEF w, h
<1>12. c \in Freqs /\ r \in Freqs
  BY <1>3, <1>4
<1>13. ASSUME NEW B \in Block
       PROVE  /\ SampleOf(Signed(B, FALSE, TRUE), q, r, c) = SampleOf(B, q, r, Opposite(c))
              /\ SampleOf(Signed(B, TRUE, FALSE), q, r, c) = SampleOf(B, q, Opposite(r), c)
              /\ SampleOf(Signed(B, TRUE, TRUE), q, r, c) = SampleOf(B, q, Opposite(r), Opposite(c))
  <2>1. \A rows, cols \in BOOLEAN :
          SampleOf(Signed(B, rows, cols), q, r, c) = SampleOf(B, q, Turned(r, rows), Turned(c, cols))
    BY <1>2, <1>12, SignedSample
  <2> QED BY <2>1, <1>10, <1>11
<1>14. ASSUME NEW B \in Block
       PROVE  /\ SampleOf(Transposed(B), Transposed(q), r, c) = SampleOf(B, q, c, r)
              /\ SampleOf(Signed(Transposed(B), FALSE, TRUE), Transposed(q), r, c) = SampleOf(B, q, Opposite(c), r)
              /\ SampleOf(Signed(Transposed(B), TRUE, FALSE), Transposed(q), r, c) = SampleOf(B, q, c, Opposite(r))
              /\ SampleOf(Signed(Transposed(B), TRUE, TRUE), Transposed(q), r, c)
                   = SampleOf(B, q, Opposite(c), Opposite(r))
  <2>1. \A rows, cols \in BOOLEAN : SampleOf(Signed(Transposed(B), rows, cols), Transposed(q), r, c)
                                     = SampleOf(B, q, Turned(c, cols), Turned(r, rows))
    BY <1>2, <1>12, TurnedSample
  <2>2. SampleOf(Transposed(B), Transposed(q), r, c) = SampleOf(B, q, c, r)
    BY <1>2, <1>12, TransposedSample
  <2> QED BY <2>1, <2>2, <1>10, <1>11
<1> DEFINE from == From(t, h, w, y, x)
           SampleMoved == Sample(new, ci, y, x) = Sample(im, ci, from[1], from[2])
<1>15. t \notin Transposing => SampleMoved
  <2> HAVE t \notin Transposing
  <2>1. n <= BlockCols(im, ci) /\ z <= BlockRows(im, ci) /\ dst.quant[dst.tbl[ci]] = q
    BY DEF Covers, n, z, q
  <2>2. \A k \in 0 .. z - 1, l \in 0 .. n - 1 : SrcBlock(im, ci, k, l) = b(k, l) /\ b(k, l) \in Block
    BY <1>1, <1>2, <1>5, <2>1
  <2>3. Y \in 0 .. z - 1 /\ X \in 0 .. n - 1 /\ c \in Freqs /\ r \in Freqs
    BY <1>3, <1>4
  <2>4. CASE t = "none"
    <3>1. from = <<y, x>>
      BY <2>4 DEF From
    <3>2. DstBlock(t, im, dst, ci, Y, X) = b(Y, X)
      BY <2>2, <2>3, <2>4 DEF DstBlock
    <3> QED BY <1>6, <1>9, <2>1, <3>1, <3>2
  <2>5. CASE t = "flip_h"
    <3>1. from = <<y, w - 1 - x>>
      BY <2>5 DEF From
    <3>2. DstBlock(t, im, dst, ci, Y, X) = Signed(b(Y, n - 1 - X), FALSE, TRUE)
      BY <1>8, <1>11, <2>2, <2>3, <2>5 DEF DstBlock, DoFlipH, n
    <3>3. SampleOf(Signed(b(Y, n - 1 - X), FALSE, TRUE), q, r, c) = SampleOf(b(Y, n - 1 - X), q, r, Opposite(c))
      BY <1>8, <1>13, <2>2, <2>3
    <3>4. Sample(new, ci, y, x) = SampleOf(b(Y, n - 1 - X), q, r, Opposite(c))
      BY <1>6, <2>1, <3>2, <3>3, Zenon
    <3> QED BY <1>9, <3>1, <3>4
  <2>6. CASE t = "flip_v"
    <3>1. from = <<h - 1 - y, x>>
      BY <2>6 DEF From
    <3>2. DstBlock(t, im, dst, ci, Y, X) = Signed(b(z - 1 - Y, X), TRUE, FALSE)
      BY <1>8, <1>11, <2>2, <2>3, <2>6 DEF DstBlock, DoFlipV, z
    <3>3. SampleOf(Signed(b(z - 1 - Y, X), TRUE, FALSE), q, r, c) = SampleOf(b(z - 1 - Y, X), q, Opposite(r), c)
      BY <1>8, <1>13, <2>2, <2>3
    <3>4. Sample(new, ci, y, x) = SampleOf(b(z - 1 - Y, X), q, Opposite(r), c)
      BY <1>6, <2>1, <3>2, <3>3, Zenon
    <3> QED BY <1>9, <3>1, <3>4
  <2>7. CASE t = "rot_180"
    <3>1. from = <<h - 1 - y, w - 1 - x>>
      BY <2>7 DEF From
    <3>2. DstBlock(t, im, dst, ci, Y, X) = Signed(b(z - 1 - Y, n - 1 - X), TRUE, TRUE)
      BY <1>8, <1>11, <2>2, <2>7 DEF DstBlock, DoRotOneEighty, z, n
    <3>3. SampleOf(Signed(b(z - 1 - Y, n - 1 - X), TRUE, TRUE), q, r, c)
            = SampleOf(b(z - 1 - Y, n - 1 - X), q, Opposite(r), Opposite(c))
      BY <1>8, <1>13, <2>2, <2>3
    <3>4. Sample(new, ci, y, x) = SampleOf(b(z - 1 - Y, n - 1 - X), q, Opposite(r), Opposite(c))
      BY <1>6, <2>1, <3>2, <3>3, Zenon
    <3> QED BY <1>9, <3>1, <3>4
  <2> QED BY <2>4, <2>5, <2>6, <2>7 DEF Transforms
<1>16. t \in Transposing => SampleMoved
  <2> HAVE t \in Transposing
  <2>1. n <= BlockRows(im, ci) /\ z <= BlockCols(im, ci) /\ dst.quant[dst.tbl[ci]] = Transposed(q)
    BY DEF Covers, n, z, q
  <2>2. \A k \in 0 .. n - 1, l \in 0 .. z - 1 : SrcBlock(im, ci, k, l) = b(k, l) /\ b(k, l) \in Block
    BY <1>1, <1>2, <1>5, <2>1
  <2>3. Y \in 0 .. z - 1 /\ X \in 0 .. n - 1 /\ c \in Freqs /\ r \in Freqs
    BY <1>3, <1>4
  <2>4. CASE t = "transpose"
    <3>1. from = <<x, y>>
      BY <2>4 DEF From
    <3>2. DstBlock(t, im, dst, ci, Y, X) = Transposed(b(X, Y))
      BY <2>2, <2>3, <2>4 DEF DstBlock, DoTranspose
    <3>3. SampleOf(Transposed(b(X, Y)), Transposed(q), r, c) = SampleOf(b(X, Y), q, c, r)
      BY <1>14, <2>2, <2>3
    <3> QED BY <1>6, <1>9, <2>1, <3>1, <3>2, <3>3
  <2>5. CASE t = "transverse"
    <3>1. from = <<w - 1 - x, h - 1 - y>>
      BY <2>5 DEF From
    <3>2. DstBlock(t, im, dst, ci, Y, X) = Signed(Transposed(b(n - 1 - X, z - 1 - Y)), TRUE, TRUE)
      BY <1>8, <1>11, <2>2, <2>5 DEF DstBlock, DoTransverse, z, n
    <3>3. SampleOf(Signed(Transposed(b(n - 1 - X, z - 1 - Y)), TRUE, TRUE), Transposed(q), r, c)
            = SampleOf(b(n - 1 - X, z - 1 - Y), q, Opposite(c), Opposite(r))
      BY <1>8, <1>14, <2>2, <2>3
    <3>4. Sample(new, ci, y, x) = SampleOf(b(n - 1 - X, z - 1 - Y), q, Opposite(c), Opposite(r))
      BY <1>6, <2>1, <3>2, <3>3, Zenon
    <3> QED BY <1>9, <3>1, <3>4
  <2>6. CASE t = "rot_90"
    <3>1. from = <<w - 1 - x, y>>
      BY <2>6 DEF From
    <3>2. DstBlock(t, im, dst, ci, Y, X) = Signed(Transposed(b(n - 1 - X, Y)), FALSE, TRUE)
      BY <1>8, <1>11, <2>2, <2>3, <2>6 DEF DstBlock, DoRotNinety, n
    <3>3. SampleOf(Signed(Transposed(b(n - 1 - X, Y)), FALSE, TRUE), Transposed(q), r, c)
            = SampleOf(b(n - 1 - X, Y), q, Opposite(c), r)
      BY <1>8, <1>14, <2>2, <2>3
    <3>4. Sample(new, ci, y, x) = SampleOf(b(n - 1 - X, Y), q, Opposite(c), r)
      BY <1>6, <2>1, <3>2, <3>3, Zenon
    <3> QED BY <1>9, <3>1, <3>4
  <2>7. CASE t = "rot_270"
    <3>1. from = <<x, h - 1 - y>>
      BY <2>7 DEF From
    <3>2. DstBlock(t, im, dst, ci, Y, X) = Signed(Transposed(b(X, z - 1 - Y)), TRUE, FALSE)
      BY <1>8, <1>11, <2>2, <2>3, <2>7 DEF DstBlock, DoRotTwoSeventy, z
    <3>3. SampleOf(Signed(Transposed(b(X, z - 1 - Y)), TRUE, FALSE), Transposed(q), r, c)
            = SampleOf(b(X, z - 1 - Y), q, c, Opposite(r))
      BY <1>8, <1>14, <2>2, <2>3
    <3>4. Sample(new, ci, y, x) = SampleOf(b(X, z - 1 - Y), q, c, Opposite(r))
      BY <1>6, <2>1, <3>2, <3>3, Zenon
    <3> QED BY <1>9, <3>1, <3>4
  <2> QED BY <2>4, <2>5, <2>6, <2>7 DEF Transposing
<1> QED BY <1>15, <1>16 DEF h, w, n, z


LEMMA TranscodedPixelExact ==
  ASSUME NEW im, WellFormed(im), NEW t \in Transforms, NEW trim \in BOOLEAN, NEW gray \in BOOLEAN,
         gray => FullLuminance(im), NEW new, new = Transcoded(im, t, trim, gray), NEW ci \in DOMAIN new.h
  PROVE  LET h == DctSize * MirrorRows(new, ci)
             w == DctSize * MirrorCols(new, ci)
         IN /\ \A y \in 0 .. h - 1, x \in 0 .. w - 1 :
                 LET at == From(t, h, w, y, x) IN Sample(new, ci, y, x) = Sample(im, ci, at[1], at[2])
            /\ trim /\ t \in {"transverse", "rot_180"} /\ h > 0 /\ w > 0 =>
                 h = DctSize * BlockRows(new, ci) /\ w = DctSize * BlockCols(new, ci)
<1> DEFINE dst == AdjustParameters(im, t, trim, gray)
           n == MirrorCols(dst, ci)
           z == MirrorRows(dst, ci)
<1>1. /\ new.width = dst.width /\ new.height = dst.height /\ new.h = dst.h /\ new.v = dst.v
      /\ new.tbl = dst.tbl /\ new.quant = dst.quant /\ new.coef = Execute(t, im, dst)
  BY TranscodedFile
<1>2. WellFormedParameters(im) /\ WellFormedParameters(dst) /\ DOMAIN dst.h \subseteq DOMAIN im.h
  BY AdjustedWellFormed DEF WellFormed
<1>3. /\ Covers(im, dst, ci, t \in Transposing)
      /\ trim /\ t \in {"transverse", "rot_180"} /\ z > 0 /\ n > 0 =>
           BlockRows(dst, ci) = z /\ BlockCols(dst, ci) = n
  BY <1>1, <1>2, Adjusted
<1> HIDE DEF dst
<1>4. ci \in DOMAIN dst.h /\ ci \in DOMAIN im.h
  BY <1>1, <1>2
<1>5. \A y \in 0 .. DctSize * z - 1, x \in 0 .. DctSize * n - 1 :
        LET at == From(t, DctSize * z, DctSize * n, y, x) IN Sample(new, ci, y, x) = Sample(im, ci, at[1], at[2])
  BY <1>1, <1>2, <1>3, <1>4, SamplesMoved
<1>6. /\ MirrorRows(new, ci) = z /\ MirrorCols(new, ci) = n
      /\ BlockRows(new, ci) = BlockRows(dst, ci) /\ BlockCols(new, ci) = BlockCols(dst, ci)
  BY <1>1 DEF MirrorRows, MirrorCols, BlockRows, BlockCols
<1>7. z \in Nat /\ n \in Nat
  BY <1>2, <1>4, Dimensions
<1> HIDE DEF z, n
<1>8. /\ DctSize * z > 0 => z > 0
      /\ DctSize * n > 0 => n > 0
  <2>1. DctSize \in Nat /\ DctSize * 0 = 0
    BY DctSizeAssumption
  <2>2. z = 0 \/ z > 0
    BY <1>7
  <2>3. n = 0 \/ n > 0
    BY <1>7
  <2> QED BY <2>1, <2>2, <2>3
<1> QED BY <1>3, <1>5, <1>6, <1>8

\* The file is what its last transformation makes of the file before.
Derived ==
  \/ image = before /\ did = Nothing
  \/ \E t \in Transforms, trim \in BOOLEAN, gray \in BOOLEAN :
       did = [t |-> t, trim |-> trim, gray |-> gray] /\ image = Transcoded(before, t, trim, gray)
PixelInvariant == WellFormed(image) /\ WellFormed(before) /\ Derived

LEMMA PixelInvariantSuffices == PixelInvariant => PixelExact
<1> SUFFICES ASSUME PixelInvariant, did.gray => FullLuminance(before), NEW ci \in DOMAIN image.h
    PROVE  LET h == DctSize * MirrorRows(image, ci)
               w == DctSize * MirrorCols(image, ci)
           IN /\ \A y \in 0 .. h - 1, x \in 0 .. w - 1 :
                   LET at == From(did.t, h, w, y, x) IN Sample(image, ci, y, x) = Sample(before, ci, at[1], at[2])
              /\ did.trim /\ did.t \in {"transverse", "rot_180"} /\ h > 0 /\ w > 0 =>
                   h = DctSize * BlockRows(image, ci) /\ w = DctSize * BlockCols(image, ci)
  BY DEF PixelExact
<1>1. CASE image = before /\ did = Nothing
  <2>1. did.t = "none" /\ did.trim = FALSE
    BY <1>1 DEF Nothing
  <2>2. \A h, w, y, x : From("none", h, w, y, x) = <<y, x>>
    BY DEF From
  <2> QED BY <1>1, <2>1, <2>2
<1>2. CASE \E t \in Transforms, trim \in BOOLEAN, gray \in BOOLEAN :
             did = [t |-> t, trim |-> trim, gray |-> gray] /\ image = Transcoded(before, t, trim, gray)
  <2>1. PICK t \in Transforms, trim \in BOOLEAN, gray \in BOOLEAN :
               did = [t |-> t, trim |-> trim, gray |-> gray] /\ image = Transcoded(before, t, trim, gray)
    BY <1>2
  <2>2. did.t = t /\ did.trim = trim /\ did.gray = gray
    BY <2>1
  <2>3. WellFormed(before) /\ (gray => FullLuminance(before))
    BY <2>2 DEF PixelInvariant
  <2> QED BY <2>1, <2>2, <2>3, TranscodedPixelExact
<1> QED BY <1>1, <1>2 DEF PixelInvariant, Derived

\* In the complete iMCUs a transformation turns the samples that the coefficients mean,
\* exactly, whatever the image, the waves and the options: transupp.c changes the signs
\* of the right rows or columns, in the right blocks, under the right quantization
\* table; and an image trimmed on both edges consists of such iMCUs.
THEOREM AlwaysPixelExact == TransformSpec => []PixelExact
<1>1. TransformInit => PixelInvariant
  BY ImagesAssumption DEF TransformInit, PixelInvariant, Derived
<1>2. PixelInvariant /\ [TransformNext]_transformVars => PixelInvariant'
  <2>1. ASSUME PixelInvariant, NEW t \in Transforms, NEW trim \in BOOLEAN, NEW gray \in BOOLEAN,
               Transcode(t, trim, gray)
        PROVE  PixelInvariant'
    <3>1. before' = image /\ image' = Transcoded(image, t, trim, gray) /\ did' = [t |-> t, trim |-> trim, gray |-> gray]
      BY <2>1 DEF Transcode
    <3>2. WellFormed(image) /\ WellFormed(image')
      BY <2>1, <3>1, TranscodedFile DEF PixelInvariant
    <3>3. Derived'
      BY <3>1 DEF Derived
    <3> QED BY <3>1, <3>2, <3>3 DEF PixelInvariant
  <2>2. ASSUME PixelInvariant, UNCHANGED transformVars PROVE PixelInvariant'
    <3>1. image' = image /\ before' = before /\ did' = did
      BY <2>2 DEF transformVars
    <3> QED BY <2>2, <3>1 DEF PixelInvariant, Derived
  <2> QED BY <2>1, <2>2 DEF TransformNext
<1> QED BY <1>1, <1>2, PixelInvariantSuffices, PTL DEF TransformSpec

(***************************************************************************)
(* Virtual arrays.                                                         *)
(***************************************************************************)

USE ArraysAssumption

(* A height of a buffer is a positive number.                              *)
LEMMA HeightsPositive == Heights \subseteq Nat \ {0}
<1> SUFFICES ASSUME NEW a \in Arrays, NEW h \in 1 .. MinHeights(a)
             PROVE  h \in Nat \ {0}
  BY DEF Heights
<1>1. MinHeights(a) \in Int
  BY DEF MinHeights
<1> QED
  BY <1>1

(* A realized array has room for an access.                                *)
LEMMA RoomForAccess ==
  ASSUME NEW a \in Arrays, NEW h \in Heights
  PROVE  /\ InMem(a, h) \in Nat \ {0}
         /\ MaxAccess[a] <= InMem(a, h) \/ Rows[a] <= InMem(a, h)
         /\ FitsIn(a, h) => InMem(a, h) = Rows[a]
<1>1. h \in Nat /\ h >= 1 /\ MaxAccess[a] \in Nat /\ MaxAccess[a] >= 1 /\ Rows[a] \in Nat \ {0}
  BY HeightsPositive
<1>2. h * MaxAccess[a] >= MaxAccess[a] /\ h * MaxAccess[a] \in Nat
  BY <1>1
<1> QED
  BY <1>1, <1>2 DEF InMem

(* A row lies in a buffer of n rows from row c on, or the buffer has a place *)
(* i for it.                                                               *)
LEMMA Places ==
  ASSUME NEW c \in Int, NEW n \in Int
  PROVE  /\ \A r \in Int : c <= r /\ r < c + n <=> r - c \in 0 .. n - 1
         /\ \A r \in Int : c + (r - c) = r
OBVIOUS

-----------------------------------------------------------------------------
(* The row an array has after the window has moved.                        *)
NewRow(a, s, e, r) ==
  IF NewCur(a, s, e) <= r /\ r < NewCur(a, s, e) + inMem[a]
  THEN NewBuf(a, s, e)[r - NewCur(a, s, e)] ELSE NewFile(a, s, e)[r]

(* Flushing makes the file agree with the buffer and changes no row.       *)
LEMMA FlushKeepsRows ==
  ASSUME TypeOK, NEW a \in Arrays, BufferSound(a), inMem[a] > 0,
         NEW s \in Nat, NEW e \in Nat, Outside(a, s, e)
  PROVE  /\ NewFile(a, s, e) \in [0 .. Rows[a] - 1 -> Values]
         /\ \A r \in 0 .. undef[a] - 1 : NewFile(a, s, e)[r] = Row(a, r)
<1>1. /\ inMem[a] \in Nat /\ cur[a] \in Nat /\ undef[a] \in Nat /\ undef[a] <= Rows[a]
      /\ Rows[a] \in Nat
      /\ buf[a] \in [0 .. inMem[a] - 1 -> Values] /\ file[a] \in [0 .. Rows[a] - 1 -> Values]
      /\ dirty[a] \in BOOLEAN
  BY DEF TypeOK, BufferSound
<1>2. CASE dirty[a]
  <2>1. NewFile(a, s, e) = [r \in 0 .. Rows[a] - 1 |->
          IF Moves(a, cur[a], r - cur[a]) THEN buf[a][r - cur[a]] ELSE file[a][r]]
    BY <1>2 DEF NewFile
  <2>2. \A r \in 0 .. Rows[a] - 1 : Moves(a, cur[a], r - cur[a]) <=> InBuffer(a, r) /\ r < undef[a]
    <3> SUFFICES ASSUME NEW r \in 0 .. Rows[a] - 1
                 PROVE  Moves(a, cur[a], r - cur[a]) <=> InBuffer(a, r) /\ r < undef[a]
      OBVIOUS
    <3>1. r \in Int /\ r < Rows[a]
      BY <1>1
    <3>2. cur[a] + (r - cur[a]) = r
      BY <1>1, <3>1
    <3>3. InBuffer(a, r) <=> r - cur[a] \in 0 .. inMem[a] - 1
      <4>1. cur[a] \in Int /\ inMem[a] \in Int
        BY <1>1
      <4>2. cur[a] <= r /\ r < cur[a] + inMem[a] <=> r - cur[a] \in 0 .. inMem[a] - 1
        BY <3>1, <4>1, Places
      <4> QED
        BY <4>2 DEF InBuffer
    <3> QED
      BY <3>1, <3>2, <3>3 DEF Moves
  <2>3. \A r \in 0 .. Rows[a] - 1 : InBuffer(a, r) => buf[a][r - cur[a]] \in Values
    <3> SUFFICES ASSUME NEW r \in 0 .. Rows[a] - 1, InBuffer(a, r)
                 PROVE  buf[a][r - cur[a]] \in Values
      OBVIOUS
    <3>1. r - cur[a] \in 0 .. inMem[a] - 1
      BY <1>1, Places, SMTT(30) DEF InBuffer
    <3> QED
      BY <1>1, <3>1
  <2> QED
    BY <1>1, <2>1, <2>2, <2>3, SMTT(30) DEF Row
<1>3. CASE ~dirty[a]
  <2>1. NewFile(a, s, e) = file[a]
    BY <1>3 DEF NewFile
  <2> QED
    BY <1>1, <1>3, <2>1 DEF Row, BufferSound
<1> QED
  BY <1>1, <1>2, <1>3

(* Moving the window over the rows asked for keeps every defined row.      *)
LEMMA WindowMoves ==
  ASSUME TypeOK, NEW a \in Arrays, BufferSound(a), NEW s \in Nat, NEW e \in Nat, s < e,
         ~Illegal(a, s, e)
  PROVE  /\ NewCur(a, s, e) \in Nat /\ NewCur(a, s, e) <= s /\ e <= NewCur(a, s, e) + inMem[a]
         /\ inMem[a] > 0
         /\ NewBuf(a, s, e) \in [0 .. inMem[a] - 1 -> Values]
         /\ NewFile(a, s, e) \in [0 .. Rows[a] - 1 -> Values]
         /\ ~open[a] => NewCur(a, s, e) = 0
         /\ \A r \in 0 .. undef[a] - 1 : NewRow(a, s, e, r) = Row(a, r)
         /\ ~(dirty[a] /\ ~Outside(a, s, e)) =>
              \A r \in 0 .. undef[a] - 1 :
                NewCur(a, s, e) <= r /\ r < NewCur(a, s, e) + inMem[a] =>
                  NewBuf(a, s, e)[r - NewCur(a, s, e)] = NewFile(a, s, e)[r]
<1> DEFINE c == NewCur(a, s, e)
           f == NewFile(a, s, e)
           b == NewBuf(a, s, e)
<1>1. /\ inMem[a] \in Nat /\ inMem[a] > 0 /\ cur[a] \in Nat /\ undef[a] \in Nat
      /\ undef[a] <= Rows[a] /\ e <= Rows[a] /\ e - s <= MaxAccess[a]
      /\ Rows[a] \in Nat /\ MaxAccess[a] \in Nat
      /\ MaxAccess[a] <= inMem[a] \/ Rows[a] <= inMem[a]
      /\ buf[a] \in [0 .. inMem[a] - 1 -> Values] /\ file[a] \in [0 .. Rows[a] - 1 -> Values]
      /\ dirty[a] \in BOOLEAN
  BY DEF Illegal, BufferSound, TypeOK
<1>2. CASE ~Outside(a, s, e)
  <2>1. c = cur[a] /\ f = file[a] /\ b = buf[a]
    BY <1>2 DEF NewCur, NewFile, NewBuf
  <2>2. c \in Nat /\ c <= s /\ e <= c + inMem[a]
    BY <1>1, <1>2, <2>1 DEF Outside
  <2>3. \A r \in 0 .. undef[a] - 1 : NewRow(a, s, e, r) = Row(a, r)
    BY <2>1 DEF NewRow, Row, InBuffer
  <2>4. ~open[a] => c = 0
    BY <1>1, <2>1 DEF BufferSound
  <2>5. ~dirty[a] => \A r \in 0 .. undef[a] - 1 : c <= r /\ r < c + inMem[a] => b[r - c] = f[r]
    BY <2>1 DEF BufferSound, InBuffer
  <2> QED
    BY <1>1, <1>2, <2>1, <2>2, <2>3, <2>4, <2>5
<1>3. CASE Outside(a, s, e)
  <2>1. c \in Nat /\ c <= s /\ e <= c + inMem[a]
    BY <1>1, <1>3, SMTT(30) DEF NewCur, Outside
  <2>2. /\ f \in [0 .. Rows[a] - 1 -> Values]
        /\ \A r \in 0 .. undef[a] - 1 : f[r] = Row(a, r)
    BY <1>1, <1>3, FlushKeepsRows
  <2>3. b = [i \in 0 .. inMem[a] - 1 |-> IF Moves(a, c, i) THEN f[c + i] ELSE buf[a][i]]
    BY <1>3 DEF NewBuf
  <2>4. \A i \in 0 .. inMem[a] - 1 : Moves(a, c, i) => f[c + i] \in Values
    <3> SUFFICES ASSUME NEW i \in 0 .. inMem[a] - 1, Moves(a, c, i) PROVE f[c + i] \in Values
      OBVIOUS
    <3>1. c + i \in 0 .. Rows[a] - 1
      BY <1>1, <2>1 DEF Moves
    <3> QED
      BY <2>2, <3>1
  <2>5. b \in [0 .. inMem[a] - 1 -> Values]
    BY <1>1, <2>3, <2>4
  <2>6. \A r \in 0 .. undef[a] - 1 : c <= r /\ r < c + inMem[a] => b[r - c] = f[r]
    <3> SUFFICES ASSUME NEW r \in 0 .. undef[a] - 1, c <= r /\ r < c + inMem[a]
                 PROVE  b[r - c] = f[r]
      OBVIOUS
    <3> HIDE DEF c
    <3>1. r \in Int /\ c \in Int /\ r < Rows[a] /\ r < undef[a]
      BY <1>1, <2>1
    <3>2. r - c \in 0 .. inMem[a] - 1 /\ c + (r - c) = r
      <4>1. inMem[a] \in Int
        BY <1>1
      <4>2. /\ \A k \in Int : c <= k /\ k < c + inMem[a] <=> k - c \in 0 .. inMem[a] - 1
            /\ \A k \in Int : c + (k - c) = k
        BY <3>1, <4>1, Places
      <4> QED
        BY <3>1, <4>2
    <3>3. Moves(a, c, r - c)
      BY <3>1, <3>2 DEF Moves
    <3> QED
      BY <2>3, <3>2, <3>3
  <2>7. \A r \in 0 .. undef[a] - 1 : NewRow(a, s, e, r) = Row(a, r)
    BY <2>2, <2>6 DEF NewRow
  <2>8. open[a]
    BY <1>3 DEF Illegal
  <2> QED
    BY <1>1, <2>1, <2>2, <2>5, <2>6, <2>7, <2>8
<1> QED
  BY <1>2, <1>3

(* Handing out the strip: what is defined stays, what becomes defined is    *)
(* zero in a pre-zeroed array, and an undefined row of the strip reads zero. *)
LEMMA StripHandedOut ==
  ASSUME TypeOK, NEW a \in Arrays, BufferSound(a), NEW s \in Nat, NEW e \in Nat, s < e,
         ~Illegal(a, s, e)
  PROVE  LET c == NewCur(a, s, e)
             z == Zeroed(a, s, e)
         IN /\ z \in [0 .. inMem[a] - 1 -> Values]
            /\ \A i \in 0 .. inMem[a] - 1 : c + i < undef[a] => z[i] = NewBuf(a, s, e)[i]
            /\ PreZero[a] => \A r \in s .. e - 1 : r >= undef[a] => z[r - c] = Zero
<1> DEFINE c == NewCur(a, s, e)
           z == Zeroed(a, s, e)
<1>1. /\ c \in Nat /\ c <= s /\ e <= c + inMem[a] /\ inMem[a] \in Nat /\ undef[a] \in Nat
      /\ NewBuf(a, s, e) \in [0 .. inMem[a] - 1 -> Values]
  BY WindowMoves DEF TypeOK
<1>2. CASE PreZero[a]
  <2>1. z = [i \in 0 .. inMem[a] - 1 |->
             IF c + i \in s .. e - 1 /\ c + i >= undef[a] THEN Zero ELSE NewBuf(a, s, e)[i]]
    BY <1>2 DEF Zeroed
  <2>2. \A r \in s .. e - 1 : r - c \in 0 .. inMem[a] - 1 /\ c + (r - c) = r
    BY <1>1, SMTT(30)
  <2> QED
    BY <1>1, <2>1, <2>2
<1>3. CASE ~PreZero[a]
  <2>1. z = NewBuf(a, s, e)
    BY <1>3 DEF Zeroed
  <2> QED
    BY <1>1, <1>3, <2>1
<1> QED
  BY <1>2, <1>3

-----------------------------------------------------------------------------
(* The plain arrays, as the refinement mapping gives them.                 *)
PArr  == [a \in Arrays |-> [r \in 0 .. undef[a] - 1 |-> Row(a, r)]]
PView == [a \in Arrays |-> [r \in strip[a] |-> buf[a][r - cur[a]]]]

(* Realizing some of the arrays: they have no rows yet, and nobody has a     *)
(* strip of them.                                                          *)
LEMMA RealizedSound ==
  ASSUME ArraysSound, NEW S \in SUBSET Unrealized, NEW h \in Heights, Realized(S, h),
         open' \in [Arrays -> BOOLEAN], failed' \in BOOLEAN,
         \A a \in S : open'[a] = ~FitsIn(a, h),
         \A a \in Arrays \ S : inMem[a] = 0 \/ open'[a] = open[a]
  PROVE  ArraysSound' /\ PArr' = PArr /\ PView' = PView /\ wr' = wr
<1>1. /\ TypeOK /\ S \subseteq Arrays /\ \A a \in Arrays : BufferSound(a) /\ StripSound(a)
      /\ \A a \in S : inMem[a] = 0
  BY DEF ArraysSound, Unrealized
<1>2. \A a \in S : undef[a] = 0 /\ ~dirty[a] /\ ~wr[a] /\ strip[a] = {}
  BY <1>1 DEF BufferSound, StripSound, InBuffer, TypeOK
<1>3. \A a \in Arrays : a \in S =>
        /\ inMem'[a] \in Nat \ {0} /\ inMem'[a] = InMem(a, h) /\ cur'[a] = 0 /\ undef'[a] = 0
        /\ dirty'[a] = FALSE /\ buf'[a] \in [0 .. inMem'[a] - 1 -> Values]
        /\ file'[a] \in [0 .. Rows[a] - 1 -> Values] /\ strip'[a] = strip[a] /\ wr'[a] = wr[a]
  BY <1>1, RoomForAccess DEF Realized
<1>4. \A a \in Arrays : a \notin S =>
        /\ inMem'[a] = inMem[a] /\ cur'[a] = cur[a] /\ undef'[a] = undef[a]
        /\ dirty'[a] = dirty[a] /\ buf'[a] = buf[a] /\ file'[a] = file[a]
        /\ strip'[a] = strip[a] /\ wr'[a] = wr[a]
  BY DEF Realized
<1>5. TypeOK'
  <2>1. /\ inMem' \in [Arrays -> Nat] /\ cur' \in [Arrays -> Nat] /\ undef' \in [Arrays -> Nat]
        /\ dirty' \in [Arrays -> BOOLEAN] /\ DOMAIN buf' = Arrays /\ DOMAIN file' = Arrays
        /\ requested' = requested /\ strip' = strip /\ wr' = wr
    BY <1>1, <1>3, RoomForAccess DEF Realized, TypeOK
  <2>2. \A a \in Arrays : buf'[a] \in [0 .. inMem'[a] - 1 -> Values]
    BY <1>1, <1>3, <1>4 DEF TypeOK
  <2>3. \A a \in Arrays : inMem'[a] > 0 => file'[a] \in [0 .. Rows[a] - 1 -> Values]
    BY <1>1, <1>3, <1>4 DEF TypeOK
  <2> QED
    BY <1>1, <2>1, <2>2, <2>3 DEF TypeOK
<1>6. ASSUME NEW a \in Arrays PROVE BufferSound(a)' /\ StripSound(a)'
  <2>1. CASE a \in S
    <3>1. inMem'[a] > 0 /\ ~open'[a] => inMem'[a] = Rows[a] /\ cur'[a] = 0
      BY <1>3, <2>1, RoomForAccess
    <3>2. MaxAccess[a] <= inMem'[a] \/ Rows[a] <= inMem'[a]
      BY <1>3, <2>1, RoomForAccess
    <3>3. undef'[a] = 0 /\ dirty'[a] = FALSE /\ strip'[a] = {} /\ ~wr'[a] /\ Rows[a] \in Nat
      BY <1>1, <1>2, <1>3, <2>1
    <3>4. inMem'[a] \in Nat \ {0}
      BY <1>3, <2>1
    <3> QED
      BY <3>1, <3>2, <3>3, <3>4 DEF BufferSound, StripSound
  <2>2. CASE a \notin S
    BY <1>1, <1>4, <2>2 DEF BufferSound, StripSound, InBuffer
  <2> QED
    BY <2>1, <2>2
<1>7. PArr' = PArr
  <2> SUFFICES ASSUME NEW a \in Arrays
               PROVE  /\ 0 .. undef'[a] - 1 = 0 .. undef[a] - 1
                      /\ \A r \in 0 .. undef[a] - 1 : Row(a, r)' = Row(a, r)
    BY DEF PArr
  <2> QED
    BY <1>2, <1>3, <1>4 DEF Row, InBuffer
<1>8. PView' = PView
  <2> SUFFICES ASSUME NEW a \in Arrays
               PROVE  /\ strip'[a] = strip[a]
                      /\ \A r \in strip[a] : buf'[a][r - cur'[a]] = buf[a][r - cur[a]]
    BY DEF PView
  <2> QED
    BY <1>2, <1>3, <1>4
<1> QED
  BY <1>5, <1>6, <1>7, <1>8 DEF ArraysSound, Realized

(* An access that is refused leaves every row where it was.                *)
LEMMA RefusedSound ==
  ASSUME ArraysSound, NEW a \in Arrays, NEW s \in Nat, NEW e \in Nat, s < e, Refused(a, s, e)
  PROVE  /\ ArraysSound' /\ PArr' = PArr /\ failed' = TRUE
         /\ PView' = [PView EXCEPT ![a] = [r \in {} |-> Zero]]
         /\ wr' = [wr EXCEPT ![a] = FALSE]
<1>1. TypeOK /\ \A b \in Arrays : BufferSound(b) /\ StripSound(b)
  BY DEF ArraysSound
<1>2. /\ inMem' = inMem /\ open' = open /\ undef' = undef /\ requested' = requested
      /\ strip' = [strip EXCEPT ![a] = {}] /\ wr' = [wr EXCEPT ![a] = FALSE] /\ failed' = TRUE
  BY DEF Refused
<1>3. \A b \in Arrays \ {a} : cur'[b] = cur[b] /\ buf'[b] = buf[b] /\ file'[b] = file[b]
                             /\ dirty'[b] = dirty[b] /\ strip'[b] = strip[b] /\ wr'[b] = wr[b]
  BY <1>1, <1>2 DEF Refused, Moved, TypeOK
<1>4. /\ cur'[a] \in Nat /\ dirty'[a] \in BOOLEAN
      /\ buf'[a] \in [0 .. inMem[a] - 1 -> Values]
      /\ inMem[a] > 0 => file'[a] \in [0 .. Rows[a] - 1 -> Values]
      /\ DOMAIN cur' = Arrays /\ DOMAIN dirty' = Arrays /\ DOMAIN buf' = Arrays
      /\ DOMAIN file' = Arrays
      /\ BufferSound(a)'
      /\ \A r \in 0 .. undef[a] - 1 : Row(a, r)' = Row(a, r)
  <2>1. CASE Illegal(a, s, e)
    <3>1. cur' = cur /\ buf' = buf /\ file' = file /\ dirty' = dirty
      BY <2>1 DEF Refused
    <3> QED
      BY <1>1, <1>2, <3>1 DEF TypeOK, BufferSound, Row, InBuffer
  <2>2. CASE ~Illegal(a, s, e)
    <3>1. /\ cur' = [cur EXCEPT ![a] = NewCur(a, s, e)]
          /\ file' = [file EXCEPT ![a] = NewFile(a, s, e)]
          /\ buf' = [buf EXCEPT ![a] = NewBuf(a, s, e)]
          /\ dirty' = [dirty EXCEPT ![a] = dirty[a] /\ ~Outside(a, s, e)]
      BY <2>2 DEF Refused, Moved
    <3>2. /\ cur'[a] = NewCur(a, s, e) /\ file'[a] = NewFile(a, s, e) /\ buf'[a] = NewBuf(a, s, e)
          /\ dirty'[a] = (dirty[a] /\ ~Outside(a, s, e))
          /\ DOMAIN cur' = Arrays /\ DOMAIN dirty' = Arrays /\ DOMAIN buf' = Arrays
          /\ DOMAIN file' = Arrays
      BY <1>1, <3>1 DEF TypeOK
    <3>3. \A r \in 0 .. undef[a] - 1 : Row(a, r)' = Row(a, r)
      BY <1>1, <1>2, <2>2, <3>2, WindowMoves DEF Row, InBuffer, NewRow
    <3>4. BufferSound(a)'
      <4>1. ~dirty'[a] => \A r \in 0 .. undef'[a] - 1 :
                            InBuffer(a, r)' => buf'[a][r - cur'[a]] = file'[a][r]
        <5>1. ~(dirty[a] /\ ~Outside(a, s, e)) =>
                \A r \in 0 .. undef[a] - 1 :
                  NewCur(a, s, e) <= r /\ r < NewCur(a, s, e) + inMem[a] =>
                    NewBuf(a, s, e)[r - NewCur(a, s, e)] = NewFile(a, s, e)[r]
          BY <1>1, <2>2, WindowMoves
        <5> QED
          BY <1>2, <3>2, <5>1 DEF InBuffer
      <4>2. inMem[a] > 0 /\ ~open[a] => inMem[a] = Rows[a] /\ cur'[a] = 0
        BY <1>1, <2>2, <3>2, WindowMoves DEF BufferSound
      <4>3. inMem[a] > 0
        BY <1>1, <2>2, WindowMoves
      <4> QED
        BY <1>1, <1>2, <4>1, <4>2, <4>3 DEF BufferSound
    <3>5. dirty'[a] \in BOOLEAN
      BY <3>2
    <3> QED
      BY <1>1, <2>2, <3>2, <3>3, <3>4, <3>5, WindowMoves
  <2> QED
    BY <2>1, <2>2
<1>5. TypeOK'
  <2>1. \A b \in Arrays : /\ cur'[b] \in Nat /\ dirty'[b] \in BOOLEAN
                          /\ buf'[b] \in [0 .. inMem[b] - 1 -> Values]
                          /\ inMem[b] > 0 => file'[b] \in [0 .. Rows[b] - 1 -> Values]
    BY <1>1, <1>3, <1>4 DEF TypeOK
  <2>2. /\ requested' \in [Arrays -> BOOLEAN] /\ inMem' \in [Arrays -> Nat]
        /\ open' \in [Arrays -> BOOLEAN] /\ undef' \in [Arrays -> Nat]
        /\ wr' \in [Arrays -> BOOLEAN] /\ failed' \in BOOLEAN /\ strip' \in [Arrays -> SUBSET Nat]
    BY <1>1, <1>2 DEF TypeOK
  <2>3. cur' \in [Arrays -> Nat] /\ dirty' \in [Arrays -> BOOLEAN]
    <3>1. cur' = [b \in Arrays |-> cur'[b]] /\ dirty' = [b \in Arrays |-> dirty'[b]]
      BY <1>1, <1>4 DEF Refused, Moved, TypeOK
    <3> QED
      BY <2>1, <3>1
  <2> QED
    BY <1>2, <1>4, <2>1, <2>2, <2>3 DEF TypeOK
<1>6. ASSUME NEW b \in Arrays PROVE BufferSound(b)' /\ StripSound(b)'
  <2>1. CASE b = a
    <3>1. strip'[a] = {} /\ wr'[a] = FALSE
      BY <1>1, <1>2 DEF TypeOK
    <3> QED
      BY <1>4, <2>1, <3>1 DEF StripSound
  <2>2. CASE b # a
    BY <1>1, <1>2, <1>3, <2>2 DEF BufferSound, StripSound, InBuffer
  <2> QED
    BY <2>1, <2>2
<1>7. PArr' = PArr
  <2> SUFFICES ASSUME NEW b \in Arrays, NEW r \in 0 .. undef[b] - 1
               PROVE  Row(b, r)' = Row(b, r)
    BY <1>2 DEF PArr
  <2>1. CASE b = a
    BY <1>4, <2>1
  <2>2. CASE b # a
    BY <1>2, <1>3, <2>2 DEF Row, InBuffer
  <2> QED
    BY <2>1, <2>2
<1>8. PView' = [PView EXCEPT ![a] = [r \in {} |-> Zero]]
  <2>1. \A b \in Arrays \ {a} : [r \in strip'[b] |-> buf'[b][r - cur'[b]]] = PView[b]
    BY <1>3 DEF PView
  <2>2. strip'[a] = {}
    BY <1>1, <1>2 DEF TypeOK
  <2>3. [r \in strip'[a] |-> buf'[a][r - cur'[a]]] = [r \in {} |-> Zero]
    BY <2>2
  <2> QED
    BY <2>1, <2>3 DEF PView
<1> QED
  BY <1>2, <1>5, <1>6, <1>7, <1>8 DEF ArraysSound

(* An access that is granted keeps every row, and its strip shows the rows   *)
(* of the plain array, zero where it is undefined.                         *)
LEMMA GrantedSound ==
  ASSUME ArraysSound, NEW a \in Arrays, NEW s \in Nat, NEW e \in Nat, NEW w \in BOOLEAN, s < e,
         ~Illegal(a, s, e), ~Skips(a, s, e, w), Granted(a, s, e, w)
  PROVE  /\ ArraysSound'
         /\ \A r \in 0 .. undef[a] - 1 : Row(a, r)' = Row(a, r)
         /\ \A b \in Arrays \ {a} : \A r \in 0 .. undef[b] - 1 : Row(b, r)' = Row(b, r)
         /\ \A b \in Arrays \ {a} : undef'[b] = undef[b]
         /\ \A b \in Arrays \ {a} : PView'[b] = PView[b]
         /\ undef'[a] = IF w /\ undef[a] < e THEN e ELSE undef[a]
         /\ strip' = [strip EXCEPT ![a] = s .. e - 1] /\ wr' = [wr EXCEPT ![a] = w]
         /\ \A r \in s .. e - 1 : InBuffer(a, r)' /\ buf'[a][r - cur'[a]] \in Values
         /\ PreZero[a] => \A r \in s .. e - 1 : r >= undef[a] => buf'[a][r - cur'[a]] = Zero
<1> DEFINE c == NewCur(a, s, e)
           z == Zeroed(a, s, e)
<1>1. TypeOK /\ (\A b \in Arrays : BufferSound(b) /\ StripSound(b))
  BY DEF ArraysSound
<1>2. /\ inMem' = inMem /\ open' = open /\ requested' = requested /\ failed' = failed
      /\ strip' = [strip EXCEPT ![a] = s .. e - 1] /\ wr' = [wr EXCEPT ![a] = w]
      /\ cur' = [cur EXCEPT ![a] = c] /\ file' = [file EXCEPT ![a] = NewFile(a, s, e)]
      /\ buf' = [buf EXCEPT ![a] = z]
      /\ dirty' = [dirty EXCEPT ![a] = w \/ (dirty[a] /\ ~Outside(a, s, e))]
      /\ undef' = [undef EXCEPT ![a] = IF w /\ undef[a] < e THEN e ELSE undef[a]]
  BY DEF Granted, Moved
<1>3. \A b \in Arrays \ {a} : /\ cur'[b] = cur[b] /\ buf'[b] = buf[b] /\ file'[b] = file[b]
                             /\ dirty'[b] = dirty[b] /\ strip'[b] = strip[b] /\ wr'[b] = wr[b]
                             /\ undef'[b] = undef[b]
  BY <1>1, <1>2 DEF TypeOK
<1>4. /\ cur'[a] = c /\ file'[a] = NewFile(a, s, e) /\ buf'[a] = z
      /\ dirty'[a] = (w \/ (dirty[a] /\ ~Outside(a, s, e)))
      /\ undef'[a] = IF w /\ undef[a] < e THEN e ELSE undef[a]
      /\ strip'[a] = s .. e - 1 /\ wr'[a] = w
  BY <1>1, <1>2 DEF TypeOK
<1>5. /\ c \in Nat /\ c <= s /\ e <= c + inMem[a] /\ inMem[a] \in Nat /\ inMem[a] > 0
      /\ undef[a] \in Nat /\ undef[a] <= Rows[a] /\ Rows[a] \in Nat /\ e <= Rows[a]
      /\ NewFile(a, s, e) \in [0 .. Rows[a] - 1 -> Values]
      /\ z \in [0 .. inMem[a] - 1 -> Values]
  <2>1. /\ inMem[a] \in Nat /\ undef[a] \in Nat /\ undef[a] <= Rows[a] /\ Rows[a] \in Nat
        /\ e <= Rows[a]
    BY <1>1 DEF TypeOK, BufferSound, Illegal
  <2>2. /\ c \in Nat /\ c <= s /\ e <= c + inMem[a] /\ inMem[a] > 0
        /\ NewFile(a, s, e) \in [0 .. Rows[a] - 1 -> Values]
    BY <1>1, WindowMoves
  <2>3. z \in [0 .. inMem[a] - 1 -> Values]
    BY <1>1, StripHandedOut
  <2> QED
    BY <2>1, <2>2, <2>3
<1> HIDE DEF c, z
<1>6. \A r \in 0 .. undef[a] - 1 :
        c <= r /\ r < c + inMem[a] => z[r - c] = NewBuf(a, s, e)[r - c]
  <2> SUFFICES ASSUME NEW r \in 0 .. undef[a] - 1, c <= r, r < c + inMem[a]
               PROVE  z[r - c] = NewBuf(a, s, e)[r - c]
    OBVIOUS
  <2>1. r - c \in 0 .. inMem[a] - 1 /\ c + (r - c) < undef[a]
    BY <1>5, SMTT(30)
  <2> QED
    BY <1>1, <2>1, StripHandedOut DEF c, z
<1>7. \A r \in 0 .. undef[a] - 1 : Row(a, r)' = Row(a, r)
  <2>1. \A r \in 0 .. undef[a] - 1 : NewRow(a, s, e, r) = Row(a, r)
    BY <1>1, WindowMoves
  <2>2. \A r \in 0 .. undef[a] - 1 :
          NewRow(a, s, e, r) = IF c <= r /\ r < c + inMem[a] THEN NewBuf(a, s, e)[r - c]
                               ELSE NewFile(a, s, e)[r]
    BY DEF NewRow, c
  <2> QED
    BY <1>2, <1>4, <1>6, <2>1, <2>2 DEF Row, InBuffer
<1>8. \A b \in Arrays \ {a} : \A r \in 0 .. undef[b] - 1 : Row(b, r)' = Row(b, r)
  BY <1>2, <1>3 DEF Row, InBuffer
<1>9. \A b \in Arrays \ {a} : PView'[b] = PView[b]
  BY <1>3 DEF PView
<1>10. \A r \in s .. e - 1 : InBuffer(a, r)' /\ buf'[a][r - cur'[a]] \in Values
  <2> SUFFICES ASSUME NEW r \in s .. e - 1
               PROVE  c <= r /\ r < c + inMem[a] /\ z[r - c] \in Values
    BY <1>2, <1>4 DEF InBuffer
  <2>1. r - c \in 0 .. inMem[a] - 1 /\ c <= r /\ r < c + inMem[a]
    BY <1>5, SMTT(30)
  <2> QED
    BY <1>5, <2>1
<1>11. PreZero[a] => \A r \in s .. e - 1 : r >= undef[a] => buf'[a][r - cur'[a]] = Zero
  BY <1>1, <1>4, StripHandedOut DEF c, z
<1>12. TypeOK'
  <2>1. \A b \in Arrays : /\ buf'[b] \in [0 .. inMem[b] - 1 -> Values]
                          /\ inMem[b] > 0 => file'[b] \in [0 .. Rows[b] - 1 -> Values]
    BY <1>1, <1>3, <1>4, <1>5, ZenonT(40) DEF TypeOK
  <2>2. /\ requested' \in [Arrays -> BOOLEAN] /\ inMem' \in [Arrays -> Nat]
        /\ open' \in [Arrays -> BOOLEAN] /\ wr' \in [Arrays -> BOOLEAN] /\ failed' \in BOOLEAN
        /\ cur' \in [Arrays -> Nat] /\ DOMAIN buf' = Arrays /\ DOMAIN file' = Arrays
    BY <1>1, <1>2, <1>5 DEF TypeOK
  <2>3. undef' \in [Arrays -> Nat] /\ strip' \in [Arrays -> SUBSET Nat]
    BY <1>1, <1>2, <1>5 DEF TypeOK
  <2>4. (w \/ (dirty[a] /\ ~Outside(a, s, e))) \in BOOLEAN
    OBVIOUS
  <2>5. dirty' \in [Arrays -> BOOLEAN]
    BY <1>1, <1>2, <2>4 DEF TypeOK
  <2> QED
    BY <1>2, <2>1, <2>2, <2>3, <2>5 DEF TypeOK
<1>13. BufferSound(a)'
  <2>1. inMem[a] > 0 /\ ~open[a] => inMem[a] = Rows[a] /\ c = 0
    BY <1>1, WindowMoves DEF c, BufferSound
  <2>2. MaxAccess[a] <= inMem[a] \/ Rows[a] <= inMem[a]
    BY <1>1, <1>5 DEF BufferSound
  <2>3. ~dirty'[a] => \A r \in 0 .. undef'[a] - 1 :
                        InBuffer(a, r)' => buf'[a][r - cur'[a]] = file'[a][r]
    <3> SUFFICES ASSUME ~dirty'[a]
                 PROVE  \A r \in 0 .. undef[a] - 1 :
                          c <= r /\ r < c + inMem[a] => z[r - c] = NewFile(a, s, e)[r]
      BY <1>2, <1>4 DEF InBuffer
    <3>1. \A r \in 0 .. undef[a] - 1 :
            c <= r /\ r < c + inMem[a] => NewBuf(a, s, e)[r - c] = NewFile(a, s, e)[r]
      BY <1>1, <1>4, WindowMoves DEF c
    <3> QED
      BY <1>6, <3>1
  <2>4. undef'[a] <= Rows[a]
    BY <1>4, <1>5
  <2> QED
    BY <1>2, <1>4, <1>5, <2>1, <2>2, <2>3, <2>4 DEF BufferSound
<1>14. StripSound(a)'
  <2>1. w => \A r \in s .. e - 1 : r < undef'[a]
    BY <1>4, <1>5
  <2> QED
    BY <1>4, <1>10, <2>1 DEF StripSound
<1>15. ASSUME NEW b \in Arrays, b # a PROVE BufferSound(b)' /\ StripSound(b)'
  <2>1. /\ cur'[b] = cur[b] /\ buf'[b] = buf[b] /\ file'[b] = file[b] /\ dirty'[b] = dirty[b]
        /\ strip'[b] = strip[b] /\ wr'[b] = wr[b] /\ undef'[b] = undef[b]
    BY <1>3, <1>15
  <2>2. inMem' = inMem /\ open' = open
    BY <1>2
  <2>3. \A r : InBuffer(b, r)' <=> InBuffer(b, r)
    BY <2>1, <2>2 DEF InBuffer
  <2>4. BufferSound(b) /\ StripSound(b)
    BY DEF ArraysSound
  <2>5. BufferSound(b)'
    BY <2>1, <2>2, <2>3, <2>4 DEF BufferSound
  <2>6. StripSound(b)'
    BY <2>1, <2>3, <2>4 DEF StripSound
  <2> QED
    BY <2>5, <2>6
<1> QED
  BY <1>2, <1>3, <1>4, <1>7, <1>8, <1>9, <1>10, <1>11, <1>12, <1>13, <1>14, <1>15 DEF ArraysSound

(* A row stored into the strip is the row of the plain array.              *)
LEMMA StoreSound ==
  ASSUME ArraysSound, NEW a \in Arrays, NEW r \in Nat, NEW x \in Values, Store(a, r, x)
  PROVE  /\ ArraysSound' /\ UNCHANGED <<undef, strip, wr, failed>>
         /\ r < undef[a] /\ Row(a, r)' = x /\ buf'[a][r - cur'[a]] = x
         /\ \A b \in Arrays, q \in Nat : <<b, q>> # <<a, r>> =>
              /\ Row(b, q)' = Row(b, q)
              /\ InBuffer(b, q) => buf'[b][q - cur'[b]] = buf[b][q - cur[b]]
<1>1. TypeOK /\ (\A b \in Arrays : BufferSound(b) /\ StripSound(b))
  BY DEF ArraysSound
<1>2. /\ wr[a] /\ r \in strip[a] /\ inMem' = inMem /\ cur' = cur /\ file' = file /\ open' = open
      /\ dirty' = dirty /\ requested' = requested /\ UNCHANGED <<undef, strip, wr, failed>>
  BY DEF Store
<1>3. /\ buf'[a] = [i \in 0 .. inMem[a] - 1 |-> IF i = r - cur[a] THEN x ELSE buf[a][i]]
      /\ DOMAIN buf' = Arrays /\ \A b \in Arrays \ {a} : buf'[b] = buf[b]
  BY <1>1 DEF Store, TypeOK
<1>4. /\ cur[a] <= r /\ r < cur[a] + inMem[a] /\ r < undef[a] /\ dirty[a]
      /\ cur[a] \in Nat /\ inMem[a] \in Nat
  BY <1>1, <1>2 DEF StripSound, InBuffer, TypeOK
<1>5. r - cur[a] \in 0 .. inMem[a] - 1 /\ buf'[a][r - cur[a]] = x
  BY <1>3, <1>4
<1>6. Row(a, r)' = x
  BY <1>2, <1>4, <1>5 DEF Row, InBuffer
<1>7. ASSUME NEW b \in Arrays, NEW q \in Nat, <<b, q>> # <<a, r>>
      PROVE  /\ InBuffer(b, q) => buf'[b][q - cur[b]] = buf[b][q - cur[b]]
             /\ Row(b, q)' = Row(b, q)
  <2>1. CASE b # a
    BY <1>2, <1>3, <2>1 DEF Row, InBuffer
  <2>2. CASE b = a
    <3>1. q # r
      BY <1>7, <2>2
    <3>2. q - cur[a] # r - cur[a]
      BY <1>4, <3>1
    <3>3. InBuffer(a, q) => q - cur[a] \in 0 .. inMem[a] - 1
      BY <1>4 DEF InBuffer
    <3> QED
      BY <1>2, <1>3, <2>2, <3>2, <3>3 DEF Row, InBuffer
  <2> QED
    BY <2>1, <2>2
<1>8. TypeOK'
  <2>1. \A b \in Arrays : buf'[b] \in [0 .. inMem[b] - 1 -> Values]
    <3>1. buf[a] \in [0 .. inMem[a] - 1 -> Values]
      BY <1>1 DEF TypeOK
    <3>2. buf'[a] \in [0 .. inMem[a] - 1 -> Values]
      BY <1>3, <3>1
    <3> QED
      BY <1>1, <1>3, <3>2 DEF TypeOK
  <2> QED
    BY <1>1, <1>2, <1>3, <2>1 DEF TypeOK
<1>9. ASSUME NEW b \in Arrays PROVE BufferSound(b)' /\ StripSound(b)'
  <2>1. StripSound(b)'
    BY <1>1, <1>2 DEF StripSound, InBuffer
  <2>2. CASE b = a
    BY <1>1, <1>2, <1>4, <2>1, <2>2 DEF BufferSound
  <2>3. CASE b # a
    BY <1>1, <1>2, <1>3, <2>1, <2>3 DEF BufferSound, InBuffer
  <2> QED
    BY <2>1, <2>2, <2>3
<1> QED
  BY <1>2, <1>4, <1>5, <1>6, <1>7, <1>8, <1>9 DEF ArraysSound

(* An object without virtual arrays.                                       *)
LEMMA NoRowsType == NoRows \in [0 .. 0 - 1 -> Values]
BY DEF NoRows

LEMMA NoArraysSound ==
  ASSUME TypeOK, \A a \in Arrays : inMem[a] = 0 /\ undef[a] = 0 /\ ~dirty[a] /\ ~wr[a] /\ strip[a] = {}
  PROVE  ArraysSound
BY DEF ArraysSound, BufferSound, StripSound

LEMMA InitSound == Init => ArraysSound
<1> SUFFICES ASSUME Init PROVE ArraysSound
  OBVIOUS
<1>1. TypeOK
  <2>1. \A a \in Arrays : inMem[a] = 0 /\ buf[a] = NoRows
    BY DEF Init
  <2>2. \A a \in Arrays : buf[a] \in [0 .. inMem[a] - 1 -> Values]
    BY <2>1, NoRowsType
  <2>3. /\ requested \in [Arrays -> BOOLEAN] /\ open \in [Arrays -> BOOLEAN]
        /\ dirty \in [Arrays -> BOOLEAN] /\ wr \in [Arrays -> BOOLEAN] /\ failed \in BOOLEAN
    BY DEF Init
  <2>4. inMem \in [Arrays -> Nat] /\ cur \in [Arrays -> Nat] /\ undef \in [Arrays -> Nat]
    BY DEF Init
  <2>5. strip \in [Arrays -> SUBSET Nat]
    <3>1. {} \in SUBSET Nat
      OBVIOUS
    <3> QED
      BY <3>1 DEF Init
  <2>6. DOMAIN buf = Arrays /\ DOMAIN file = Arrays
    BY DEF Init
  <2>7. \A a \in Arrays : inMem[a] > 0 => file[a] \in [0 .. Rows[a] - 1 -> Values]
    BY <2>1
  <2> QED
    BY <2>2, <2>3, <2>4, <2>5, <2>6, <2>7 DEF TypeOK
<1> QED
  BY <1>1, NoArraysSound DEF Init

LEMMA FreeImageSound == FreeImage => ArraysSound'
<1> SUFFICES ASSUME FreeImage PROVE ArraysSound'
  OBVIOUS
<1>1. TypeOK'
  <2>1. \A a \in Arrays : inMem'[a] = 0 /\ buf'[a] = NoRows
    BY DEF FreeImage
  <2>2. \A a \in Arrays : buf'[a] \in [0 .. inMem'[a] - 1 -> Values]
    BY <2>1, NoRowsType
  <2>3. /\ requested' \in [Arrays -> BOOLEAN] /\ open' \in [Arrays -> BOOLEAN]
        /\ dirty' \in [Arrays -> BOOLEAN] /\ wr' \in [Arrays -> BOOLEAN] /\ failed' \in BOOLEAN
    BY DEF FreeImage
  <2>4. inMem' \in [Arrays -> Nat] /\ cur' \in [Arrays -> Nat] /\ undef' \in [Arrays -> Nat]
    BY DEF FreeImage
  <2>5. strip' \in [Arrays -> SUBSET Nat]
    <3>1. {} \in SUBSET Nat
      OBVIOUS
    <3> QED
      BY <3>1 DEF FreeImage
  <2>6. DOMAIN buf' = Arrays /\ DOMAIN file' = Arrays
    BY DEF FreeImage
  <2>7. \A a \in Arrays : inMem'[a] > 0 => file'[a] \in [0 .. Rows[a] - 1 -> Values]
    BY <2>1
  <2> QED
    BY <2>2, <2>3, <2>4, <2>5, <2>6, <2>7 DEF TypeOK
<1>2. \A a \in Arrays : /\ inMem'[a] = 0 /\ undef'[a] = 0 /\ ~dirty'[a] /\ ~wr'[a]
                        /\ strip'[a] = {}
  BY DEF FreeImage
<1> QED
  BY <1>1, <1>2 DEF ArraysSound, BufferSound, StripSound

(* Every step keeps the invariant.                                         *)
LEMMA NextSound == ArraysSound /\ [Next]_vars => ArraysSound'
<1> SUFFICES ASSUME ArraysSound, [Next]_vars PROVE ArraysSound'
  OBVIOUS
<1>1. ASSUME NEW a \in Arrays, RequestVirt(a) PROVE ArraysSound'
  <2>1. TypeOK'
    BY <1>1 DEF RequestVirt, ArraysSound, TypeOK, window
  <2> QED
    BY <1>1, <2>1 DEF RequestVirt, ArraysSound, window, BufferSound, StripSound, InBuffer
<1>2. ASSUME NEW a \in Arrays, NEW s \in Nat, NEW e \in Nat,
             NEW w \in BOOLEAN, Access(a, s, e, w)
      PROVE  ArraysSound'
  <2>1. s \in Nat /\ e \in Nat /\ s < e
    BY <1>2 DEF Access
  <2>2. CASE Illegal(a, s, e) \/ Skips(a, s, e, w)
    BY <1>2, <2>1, <2>2, RefusedSound DEF Access
  <2>3. CASE ~(Illegal(a, s, e) \/ Skips(a, s, e, w))
    BY <1>2, <2>1, <2>3, GrantedSound DEF Access
  <2> QED
    BY <2>2, <2>3
<1>3. ASSUME NEW a \in Arrays, NEW r \in 0 .. Rows[a] - 1, NEW x \in Values, Store(a, r, x)
      PROVE  ArraysSound'
  <2>1. r \in Nat
    OBVIOUS
  <2> QED
    BY <1>3, <2>1, StoreSound
<1>4. ASSUME NEW h \in Heights, Realize(h) PROVE ArraysSound'
  <2>1. open' \in [Arrays -> BOOLEAN]
    <3>1. \A a \in Arrays : open[a] \in BOOLEAN /\ (~FitsIn(a, h)) \in BOOLEAN
      BY DEF ArraysSound, TypeOK
    <3> QED
      BY <1>4, <3>1 DEF Realize
  <2>2. failed' \in BOOLEAN /\ Realized(Unrealized, h)
    BY <1>4 DEF Realize, ArraysSound, TypeOK
  <2>3. /\ \A a \in Unrealized : open'[a] = ~FitsIn(a, h)
        /\ \A a \in Arrays \ Unrealized : open'[a] = open[a]
    BY <1>4 DEF Realize, Unrealized
  <2> QED
    BY <2>1, <2>2, <2>3, RealizedSound
<1>5. ASSUME NEW h \in Heights, NEW done \in SUBSET Arrays, NEW bad \in Arrays,
             NEW opened \in BOOLEAN, RealizeFails(h, done, bad, opened)
      PROVE  ArraysSound'
  <2>1. open' \in [Arrays -> BOOLEAN]
    <3>1. \A a \in Arrays : open[a] \in BOOLEAN /\ (~FitsIn(a, h)) \in BOOLEAN
      BY DEF ArraysSound, TypeOK
    <3> QED
      BY <1>5, <3>1 DEF RealizeFails
  <2>2. failed' \in BOOLEAN /\ Realized(done, h) /\ done \in SUBSET Unrealized
        /\ bad \notin done /\ inMem[bad] = 0
    BY <1>5 DEF RealizeFails, Unrealized
  <2>3. /\ \A a \in done : open'[a] = ~FitsIn(a, h)
        /\ \A a \in Arrays \ done : inMem[a] = 0 \/ open'[a] = open[a]
    BY <1>5, <2>2 DEF RealizeFails
  <2> QED
    BY <2>1, <2>2, <2>3, RealizedSound
<1>6. ASSUME FailElsewhere \/ UNCHANGED vars PROVE ArraysSound'
  <2>1. UNCHANGED <<requested, inMem, open, cur, undef, dirty, buf, file, strip, wr>>
        /\ failed' \in BOOLEAN
    BY <1>6 DEF FailElsewhere, vars, window, ArraysSound, TypeOK
  <2>2. TypeOK'
    BY <2>1 DEF ArraysSound, TypeOK
  <2>3. ASSUME NEW a \in Arrays PROVE BufferSound(a)' /\ StripSound(a)'
    BY <2>1 DEF ArraysSound, BufferSound, StripSound, InBuffer
  <2> QED
    BY <2>2, <2>3 DEF ArraysSound
<1>7. ASSUME NEW a \in Arrays, NEW s \in 0 .. Rows[a], NEW n \in 1 .. MaxAccess[a] + 1,
             NEW w \in BOOLEAN, Access(a, s, s + n, w)
      PROVE  ArraysSound'
  <2>1. s \in Nat /\ s + n \in Nat
    OBVIOUS
  <2> QED
    BY <1>2, <1>7, <2>1
<1> QED
  BY <1>1, <1>3, <1>4, <1>5, <1>6, <1>7, FreeImageSound DEF Next

(* Whatever is asked of a virtual array, its buffer and its file hold the    *)
(* array between them, and the strip the caller has lies in the buffer.    *)
THEOREM VirtualArraysSound == Spec => []ArraysSound
BY InitSound, NextSound, PTL DEF Spec

-----------------------------------------------------------------------------
(* An access that is granted is an access of the plain array.              *)
LEMMA GrantedIsAccess ==
  ASSUME ArraysSound, NEW a \in Arrays, NEW s \in Nat, NEW e \in Nat, NEW w \in BOOLEAN, s < e,
         ~failed, ~Illegal(a, s, e), ~Skips(a, s, e, w), Granted(a, s, e, w)
  PROVE  Plain!Access(a, s, e, w)
<1> DEFINE old == DOMAIN PArr[a]
           new == IF w THEN (s .. e - 1) \ old ELSE {}
<1>1. /\ \A r \in 0 .. undef[a] - 1 : Row(a, r)' = Row(a, r)
      /\ \A b \in Arrays \ {a} : \A r \in 0 .. undef[b] - 1 : Row(b, r)' = Row(b, r)
      /\ \A b \in Arrays \ {a} : undef'[b] = undef[b] /\ PView'[b] = PView[b]
      /\ undef'[a] = IF w /\ undef[a] < e THEN e ELSE undef[a]
      /\ strip' = [strip EXCEPT ![a] = s .. e - 1] /\ wr' = [wr EXCEPT ![a] = w]
      /\ \A r \in s .. e - 1 : InBuffer(a, r)' /\ buf'[a][r - cur'[a]] \in Values
      /\ PreZero[a] => \A r \in s .. e - 1 : r >= undef[a] => buf'[a][r - cur'[a]] = Zero
  BY GrantedSound
<1>2. /\ undef[a] \in Nat /\ e <= Rows[a] /\ e - s <= MaxAccess[a]
      /\ (w /\ undef[a] < e => s <= undef[a]) /\ (~w /\ undef[a] < e => PreZero[a])
      /\ strip'[a] = s .. e - 1 /\ failed' = failed
  BY <1>1 DEF ArraysSound, TypeOK, Illegal, Skips, Granted
<1>3. old = 0 .. undef[a] - 1
  BY DEF PArr
<1>4. new = IF w /\ undef[a] < e THEN undef[a] .. e - 1 ELSE {}
  <2>1. ASSUME NEW r \in s .. e - 1 PROVE r \notin old <=> undef[a] <= r
    BY <1>2, <1>3
  <2>2. CASE w /\ undef[a] < e
    <3>1. \A r \in undef[a] .. e - 1 : r \in s .. e - 1
      BY <1>2, <2>2
    <3>2. \A r \in s .. e - 1 : undef[a] <= r => r \in undef[a] .. e - 1
      BY <1>2
    <3>3. \A r \in undef[a] .. e - 1 : undef[a] <= r
      BY <1>2
    <3> HIDE DEF old
    <3> QED
      BY <2>1, <2>2, <3>1, <3>2, <3>3
  <2>3. CASE ~(w /\ undef[a] < e)
    <3>1. w => undef[a] >= e
      BY <1>2, <2>3
    <3>2. undef[a] >= e => \A r \in s .. e - 1 : ~(undef[a] <= r)
      BY <1>2
    <3> HIDE DEF old
    <3>3. new = {}
      BY <2>1, <3>1, <3>2
    <3> QED
      BY <2>3, <3>3
  <2> QED
    BY <2>2, <2>3
<1>5. DOMAIN PArr'[a] = 0 .. undef'[a] - 1
  BY DEF PArr
<1>6. DOMAIN PArr'[a] = old \cup new
  BY <1>1, <1>2, <1>3, <1>4, <1>5
<1>7. \A r \in 0 .. undef'[a] - 1 : PArr'[a][r] = Row(a, r)'
  BY DEF PArr
<1>8. \A r \in old : PArr'[a][r] = PArr[a][r]
  <2> SUFFICES ASSUME NEW r \in 0 .. undef[a] - 1 PROVE PArr'[a][r] = PArr[a][r]
    BY <1>3
  <2>1. PArr[a][r] = Row(a, r)
    BY DEF PArr
  <2>2. r \in 0 .. undef'[a] - 1
    BY <1>1, <1>2
  <2> QED
    BY <1>1, <1>7, <2>1, <2>2
<1>9. \A r \in s .. e - 1 : Row(a, r)' = buf'[a][r - cur'[a]]
  BY <1>1 DEF Row
<1>10. \A r \in new : IF PreZero[a] THEN PArr'[a][r] = Zero ELSE PArr'[a][r] \in Values
  <2> SUFFICES ASSUME NEW r \in new
               PROVE  IF PreZero[a] THEN PArr'[a][r] = Zero ELSE PArr'[a][r] \in Values
    OBVIOUS
  <2>1. w /\ undef[a] < e /\ r \in undef[a] .. e - 1 /\ undef'[a] = e
    BY <1>1, <1>4
  <2>2. r \in s .. e - 1 /\ r >= undef[a] /\ r \in 0 .. undef'[a] - 1
    BY <1>2, <2>1
  <2> QED
    BY <1>1, <1>7, <1>9, <2>2
<1>11. PArr' = [PArr EXCEPT ![a] = PArr'[a]]
  <2>1. \A b \in Arrays \ {a} : PArr'[b] = PArr[b]
    BY <1>1 DEF PArr
  <2>2. PArr' = [b \in Arrays |-> PArr'[b]] /\ PArr = [b \in Arrays |-> PArr[b]]
    BY DEF PArr
  <2> QED
    BY <2>1, <2>2
<1>12. PView' = [PView EXCEPT ![a] = [r \in s .. e - 1 |->
                                       IF r \in old \cup new THEN PArr'[a][r] ELSE Zero]]
  <2>1. PView'[a] = [r \in s .. e - 1 |-> buf'[a][r - cur'[a]]]
    BY <1>2 DEF PView
  <2>2. ASSUME NEW r \in s .. e - 1
        PROVE  buf'[a][r - cur'[a]] = IF r \in old \cup new THEN PArr'[a][r] ELSE Zero
    <3>1. CASE r \in old \cup new
      BY <1>5, <1>6, <1>7, <1>9, <3>1
    <3>2. CASE r \notin old \cup new
      <4>1. r >= undef[a] /\ undef[a] < e
        BY <1>2, <1>3, <3>2
      <4>2. ~w
        BY <1>2, <1>3, <1>4, <3>2, <4>1
      <4> QED
        BY <1>1, <1>2, <3>2, <4>1, <4>2
    <3> QED
      BY <3>1, <3>2
  <2> HIDE DEF old, new
  <2>3. PView'[a] = [r \in s .. e - 1 |-> IF r \in old \cup new THEN PArr'[a][r] ELSE Zero]
    BY <2>1, <2>2
  <2>4. PView' = [b \in Arrays |-> PView'[b]] /\ PView = [b \in Arrays |-> PView[b]]
    BY DEF PView
  <2> QED
    BY <1>1, <2>3, <2>4
<1>13. /\ w => \A r \in 0 .. s - 1 : r \in old
       /\ ~w => PreZero[a] \/ s .. e - 1 \subseteq old
  BY <1>2, <1>3
<1> QED
  BY <1>1, <1>2, <1>6, <1>8, <1>10, <1>11, <1>12, <1>13 DEF Plain!Access, PArr, PView

(* A store into the strip is a store into the plain array.                 *)
LEMMA StoreIsStore ==
  ASSUME ArraysSound, NEW a \in Arrays, NEW r \in Nat, NEW x \in Values, Store(a, r, x)
  PROVE  Plain!Store(a, r, x)
<1>1. /\ UNCHANGED <<undef, strip, wr, failed>> /\ r < undef[a] /\ ~failed /\ wr[a]
      /\ r \in strip[a] /\ Row(a, r)' = x /\ buf'[a][r - cur'[a]] = x
      /\ \A b \in Arrays, q \in Nat : <<b, q>> # <<a, r>> =>
           /\ Row(b, q)' = Row(b, q)
           /\ InBuffer(b, q) => buf'[b][q - cur'[b]] = buf[b][q - cur[b]]
      /\ undef \in [Arrays -> Nat]
      /\ \A b \in Arrays : \A q \in strip[b] : q \in Nat /\ InBuffer(b, q)
  <2>1. ~failed /\ wr[a] /\ r \in strip[a]
    BY DEF Store
  <2>2. undef \in [Arrays -> Nat]
    BY DEF ArraysSound, TypeOK
  <2>3. \A b \in Arrays : \A q \in strip[b] : q \in Nat /\ InBuffer(b, q)
    BY DEF ArraysSound, TypeOK, StripSound
  <2>4. /\ UNCHANGED <<undef, strip, wr, failed>>
        /\ r < undef[a] /\ Row(a, r)' = x /\ buf'[a][r - cur'[a]] = x
        /\ \A b \in Arrays, q \in Nat : <<b, q>> # <<a, r>> =>
             /\ Row(b, q)' = Row(b, q)
             /\ InBuffer(b, q) => buf'[b][q - cur'[b]] = buf[b][q - cur[b]]
    BY StoreSound
  <2> QED
    BY <2>1, <2>2, <2>3, <2>4
<1>2. PArr' = [PArr EXCEPT ![a][r] = x]
  <2>1. \A b \in Arrays : PArr'[b] = [q \in 0 .. undef[b] - 1 |-> Row(b, q)']
    BY <1>1 DEF PArr
  <2>2. \A b \in Arrays : PArr[b] = [q \in 0 .. undef[b] - 1 |-> Row(b, q)]
    BY DEF PArr
  <2>3. ASSUME NEW b \in Arrays \ {a} PROVE PArr'[b] = PArr[b]
    <3>1. \A q \in 0 .. undef[b] - 1 : Row(b, q)' = Row(b, q)
      BY <1>1
    <3>2. PArr'[b] = [q \in 0 .. undef[b] - 1 |-> Row(b, q)'] /\ PArr[b] = [q \in 0 .. undef[b] - 1 |-> Row(b, q)]
      BY <2>1, <2>2
    <3> QED
      BY <3>1, <3>2
  <2>4. PArr'[a] = [PArr[a] EXCEPT ![r] = x]
    <3>1. \A q \in 0 .. undef[a] - 1 : Row(a, q)' = IF q = r THEN x ELSE Row(a, q)
      BY <1>1
    <3>2. PArr'[a] = [q \in 0 .. undef[a] - 1 |-> IF q = r THEN x ELSE Row(a, q)]
      BY <2>1, <3>1
    <3>3. [PArr[a] EXCEPT ![r] = x] = [q \in 0 .. undef[a] - 1 |-> IF q = r THEN x ELSE Row(a, q)]
      BY <2>2
    <3> QED
      BY <3>2, <3>3
  <2>5. PArr' = [b \in Arrays |-> PArr'[b]] /\ PArr = [b \in Arrays |-> PArr[b]]
    BY DEF PArr
  <2> QED
    BY <2>3, <2>4, <2>5
<1>3. PView' = [PView EXCEPT ![a][r] = x]
  <2>1. \A b \in Arrays : PView'[b] = [q \in strip[b] |-> buf'[b][q - cur'[b]]]
    BY <1>1 DEF PView
  <2>2. \A b \in Arrays : PView[b] = [q \in strip[b] |-> buf[b][q - cur[b]]]
    BY DEF PView
  <2>3. ASSUME NEW b \in Arrays \ {a} PROVE PView'[b] = PView[b]
    <3>1. \A q \in strip[b] : buf'[b][q - cur'[b]] = buf[b][q - cur[b]]
      BY <1>1
    <3>2. PView'[b] = [q \in strip[b] |-> buf'[b][q - cur'[b]]] /\ PView[b] = [q \in strip[b] |-> buf[b][q - cur[b]]]
      BY <2>1, <2>2
    <3> QED
      BY <3>1, <3>2
  <2>4. PView'[a] = [PView[a] EXCEPT ![r] = x]
    <3>1. \A q \in strip[a] : buf'[a][q - cur'[a]] = IF q = r THEN x ELSE buf[a][q - cur[a]]
      BY <1>1
    <3>2. PView'[a] = [q \in strip[a] |-> IF q = r THEN x ELSE buf[a][q - cur[a]]]
      BY <2>1, <3>1
    <3>3. [PView[a] EXCEPT ![r] = x] = [q \in strip[a] |-> IF q = r THEN x ELSE buf[a][q - cur[a]]]
      BY <2>2
    <3> QED
      BY <3>2, <3>3
  <2>5. PView' = [b \in Arrays |-> PView'[b]] /\ PView = [b \in Arrays |-> PView[b]]
    BY DEF PView
  <2> QED
    BY <2>3, <2>4, <2>5
<1>4. r \in DOMAIN PView[a]
  BY <1>1 DEF PView
<1> QED
  BY <1>1, <1>2, <1>3, <1>4 DEF Plain!Store, PArr, PView

(* The rows of arrays without a control block, and their strips, are none. *)
LEMMA NoArraysPlain ==
  ASSUME undef = [a \in Arrays |-> 0], strip = [a \in Arrays |-> {}]
  PROVE  PArr = [a \in Arrays |-> Plain!Nothing] /\ PView = [a \in Arrays |-> Plain!Nothing]
<1>1. \A a \in Arrays : [r \in 0 .. undef[a] - 1 |-> Row(a, r)] = Plain!Nothing
  <2>1. 0 .. 0 - 1 = {}
    OBVIOUS
  <2> QED
    BY <2>1 DEF Plain!Nothing
<1>2. \A a \in Arrays : [r \in strip[a] |-> buf[a][r - cur[a]]] = Plain!Nothing
  BY DEF Plain!Nothing
<1> QED
  BY <1>1, <1>2 DEF PArr, PView

LEMMA FreeImageIsClear == FreeImage => Plain!Clear
<1> SUFFICES ASSUME FreeImage PROVE Plain!Clear
  OBVIOUS
<1>1. /\ undef' = [a \in Arrays |-> 0] /\ strip' = [a \in Arrays |-> {}]
      /\ wr' = [a \in Arrays |-> FALSE] /\ failed' = FALSE
  BY DEF FreeImage
<1>2. PArr' = [a \in Arrays |-> Plain!Nothing] /\ PView' = [a \in Arrays |-> Plain!Nothing]
  <2>1. \A a \in Arrays : [r \in 0 .. undef'[a] - 1 |-> Row(a, r)'] = Plain!Nothing
    <3>1. 0 .. 0 - 1 = {}
      OBVIOUS
    <3> QED
      BY <1>1, <3>1 DEF Plain!Nothing
  <2>2. \A a \in Arrays : [r \in strip'[a] |-> buf'[a][r - cur'[a]]] = Plain!Nothing
    BY <1>1 DEF Plain!Nothing
  <2> QED
    BY <2>1, <2>2 DEF PArr, PView
<1> QED
  BY <1>1, <1>2 DEF Plain!Clear, PArr, PView

(* Every step is a step of the plain arrays or changes nothing of them.    *)
LEMMA NextIsPlain == ArraysSound /\ [Next]_vars => [Plain!Next]_(Plain!plainVars)
<1> SUFFICES ASSUME ArraysSound, [Next]_vars PROVE [Plain!Next]_(Plain!plainVars)
  OBVIOUS
<1> DEFINE Stutter == PArr' = PArr /\ PView' = PView /\ wr' = wr /\ failed' = failed
           Fails   == PArr' = PArr /\ PView' = PView /\ wr' = wr /\ failed' = TRUE
<1>s. Stutter => UNCHANGED Plain!plainVars
  BY DEF Plain!plainVars, PArr, PView
<1>f. Fails => Plain!Next
  <2>1. Fails => Plain!Fail
    BY DEF Plain!Fail, PArr, PView
  <2> QED
    BY <2>1 DEF Plain!Next
<1> HIDE DEF Stutter, Fails
<1>1. ASSUME NEW a \in Arrays, RequestVirt(a) PROVE UNCHANGED Plain!plainVars
  <2>1. UNCHANGED <<inMem, cur, undef, buf, file, strip, wr, failed>>
    BY <1>1 DEF RequestVirt, window
  <2> QED
    BY <2>1, <1>s DEF Stutter, PArr, PView, Row, InBuffer
<1>2. ASSUME NEW a \in Arrays, NEW s \in Nat, NEW e \in Nat,
             NEW w \in BOOLEAN, Access(a, s, e, w)
      PROVE  Plain!Next
  <2>1. s \in Nat /\ e \in Nat /\ s < e /\ ~failed
    BY <1>2 DEF Access
  <2>2. CASE Illegal(a, s, e) \/ Skips(a, s, e, w)
    <3>1. Refused(a, s, e)
      BY <1>2, <2>2 DEF Access
    <3>2. /\ PArr' = PArr /\ PView' = [PView EXCEPT ![a] = [r \in {} |-> Zero]]
          /\ wr' = [wr EXCEPT ![a] = FALSE] /\ failed' = TRUE
      BY <2>1, <3>1, RefusedSound
    <3>3. Plain!FailAccess(a)
      BY <2>1, <3>2 DEF Plain!FailAccess, Plain!Nothing, PArr, PView
    <3> QED
      BY <3>3 DEF Plain!Next
  <2>3. CASE ~(Illegal(a, s, e) \/ Skips(a, s, e, w))
    <3>1. Plain!Access(a, s, e, w)
      BY <1>2, <2>1, <2>3, GrantedIsAccess DEF Access
    <3>2. s \in 0 .. Rows[a] /\ e \in 0 .. Rows[a]
      BY <2>1, <2>3 DEF Illegal
    <3> QED
      BY <3>1, <3>2 DEF Plain!Next
  <2> QED
    BY <2>2, <2>3
<1>3. ASSUME NEW a \in Arrays, NEW r \in 0 .. Rows[a] - 1, NEW x \in Values, Store(a, r, x)
      PROVE  Plain!Next
  <2>1. Plain!Store(a, r, x)
    BY <1>3, StoreIsStore
  <2> QED
    BY <2>1 DEF Plain!Next
<1>4. ASSUME NEW h \in Heights, Realize(h) PROVE UNCHANGED Plain!plainVars
  <2>1. open' \in [Arrays -> BOOLEAN]
    <3>1. \A a \in Arrays : open[a] \in BOOLEAN /\ (~FitsIn(a, h)) \in BOOLEAN
      BY DEF ArraysSound, TypeOK
    <3> QED
      BY <1>4, <3>1 DEF Realize
  <2>2. failed' = failed /\ failed' \in BOOLEAN /\ Realized(Unrealized, h)
    BY <1>4 DEF Realize, ArraysSound, TypeOK
  <2>3. /\ \A a \in Unrealized : open'[a] = ~FitsIn(a, h)
        /\ \A a \in Arrays \ Unrealized : open'[a] = open[a]
    BY <1>4 DEF Realize, Unrealized
  <2>4. PArr' = PArr /\ PView' = PView /\ wr' = wr
    BY <2>1, <2>2, <2>3, RealizedSound
  <2> QED
    BY <2>2, <2>4, <1>s DEF Stutter
<1>5. ASSUME NEW h \in Heights, NEW done \in SUBSET Arrays, NEW bad \in Arrays,
             NEW opened \in BOOLEAN, RealizeFails(h, done, bad, opened)
      PROVE  Plain!Next
  <2>1. open' \in [Arrays -> BOOLEAN]
    <3>1. \A a \in Arrays : open[a] \in BOOLEAN /\ (~FitsIn(a, h)) \in BOOLEAN
      BY DEF ArraysSound, TypeOK
    <3> QED
      BY <1>5, <3>1 DEF RealizeFails
  <2>2. failed' = TRUE /\ Realized(done, h) /\ done \in SUBSET Unrealized
        /\ bad \notin done /\ inMem[bad] = 0
    BY <1>5 DEF RealizeFails, Unrealized
  <2>3. /\ \A a \in done : open'[a] = ~FitsIn(a, h)
        /\ \A a \in Arrays \ done : inMem[a] = 0 \/ open'[a] = open[a]
    BY <1>5, <2>2 DEF RealizeFails
  <2>4. PArr' = PArr /\ PView' = PView /\ wr' = wr
    BY <2>1, <2>2, <2>3, RealizedSound
  <2> QED
    BY <2>2, <2>4, <1>f DEF Fails
<1>6. ASSUME FailElsewhere PROVE Plain!Next
  <2>1. UNCHANGED <<inMem, cur, undef, buf, file, strip, wr>> /\ failed' = TRUE
    BY <1>6 DEF FailElsewhere, window
  <2> QED
    BY <2>1, <1>f DEF Fails, PArr, PView, Row, InBuffer
<1>7. ASSUME FreeImage PROVE Plain!Next
  BY <1>7, FreeImageIsClear DEF Plain!Next
<1>8. ASSUME UNCHANGED vars PROVE UNCHANGED Plain!plainVars
  <2>1. UNCHANGED <<inMem, cur, undef, buf, file, strip, wr, failed>>
    BY <1>8 DEF vars
  <2> QED
    BY <2>1, <1>s DEF Stutter, PArr, PView, Row, InBuffer
<1>9. ASSUME NEW a \in Arrays, NEW s \in 0 .. Rows[a], NEW n \in 1 .. MaxAccess[a] + 1,
             NEW w \in BOOLEAN, Access(a, s, s + n, w)
      PROVE  Plain!Next
  <2>1. s \in Nat /\ s + n \in Nat
    OBVIOUS
  <2> QED
    BY <1>2, <1>9, <2>1
<1> QED
  BY <1>1, <1>3, <1>4, <1>5, <1>6, <1>7, <1>8, <1>9 DEF Next

LEMMA InitIsPlain == Init => Plain!Init
<1> SUFFICES ASSUME Init PROVE Plain!Init
  OBVIOUS
<1>1. /\ PArr = [a \in Arrays |-> Plain!Nothing] /\ PView = [a \in Arrays |-> Plain!Nothing]
      /\ wr = [a \in Arrays |-> FALSE] /\ failed = FALSE
  BY NoArraysPlain DEF Init
<1> QED
  BY <1>1 DEF Plain!Init, PArr, PView

(* The virtual arrays of jmemmgr.c implement plain arrays: whatever part of  *)
(* each fits in memory, and however the window moves, is refused or is left  *)
(* half realized.                                                          *)
THEOREM VirtualArraysArePlain == Spec => PlainSpec
<1>1. ArraysSound /\ [Next]_vars => [Plain!Next]_(Plain!plainVars)
  BY NextIsPlain
<1> QED
  BY <1>1, InitIsPlain, VirtualArraysSound, PTL DEF Spec, PlainSpec, Plain!Spec

-----------------------------------------------------------------------------
(***************************************************************************)
(* Proof that the memory manager, wherever its pools run out of memory and *)
(* however many rows it grants each virtual array, drives the virtual      *)
(* arrays as VirtualArrays allows, so that they stay plain arrays.         *)
(***************************************************************************)

(* An allocation that leaves the arrays alone fails them or changes nothing. *)
LEMMA AllocationIsElsewhere ==
  ASSUME failed \in BOOLEAN, ~failed, NEW q, Becomes(q), UNCHANGED <<requested, inMem, open, window>>
  PROVE  [Next]_vars
<1>1. failed' = TRUE \/ failed' = failed
  BY DEF Becomes
<1>2. CASE failed' = TRUE
  BY <1>2 DEF FailElsewhere, Next
<1>3. CASE failed' = failed
  BY <1>3 DEF vars, window
<1> QED
  BY <1>1, <1>2, <1>3

LEMMA MemNextIsNext == ArraysSound /\ [MemNext]_memVars => [Next]_vars
<1> SUFFICES ASSUME ArraysSound, [MemNext]_memVars PROVE [Next]_vars
  OBVIOUS
<1>b. failed \in BOOLEAN
  BY DEF ArraysSound, TypeOK
<1>1. CASE Create \/ UNCHANGED memVars
  BY <1>1 DEF Create, memVars
<1>2. CASE AbortImage \/ SelfDestruct
  <2>1. FreeImage
    BY <1>2 DEF AbortImage, SelfDestruct
  <2> QED
    BY <2>1 DEF Next
<1>3. ASSUME NEW p \in Pools, NEW size, SmallObject(p, size) PROVE [Next]_vars
  BY <1>b, <1>3, AllocationIsElsewhere DEF SmallObject, MayAsk, Usable
<1>4. ASSUME NEW p \in Pools, NEW size, NEW rows, StripBuffer(p, size, rows) PROVE [Next]_vars
  BY <1>b, <1>4, AllocationIsElsewhere DEF StripBuffer, MayAsk, Usable
<1>5. ASSUME NEW avail, NEW storeFails, RealizeVirtArrays(avail, storeFails) PROVE [Next]_vars
  <2>1. CASE \E h : Realize(h)
    <3>1. PICK h : Realize(h)
      BY <2>1
    <3>2. h \in Heights
      BY <3>1 DEF Realize
    <3> QED
      BY <3>1, <3>2 DEF Next
  <2>2. CASE \E h, done, bad, opened : RealizeFails(h, done, bad, opened)
    <3>1. PICK h, done, bad, opened : RealizeFails(h, done, bad, opened)
      BY <2>2
    <3>2. h \in Heights /\ done \in SUBSET Arrays /\ bad \in Arrays /\ opened \in BOOLEAN
      BY <3>1 DEF RealizeFails, Unrealized
    <3> QED
      BY <3>1, <3>2 DEF Next
  <2> QED
    BY <1>5, <2>1, <2>2 DEF RealizeVirtArrays
<1>6. ASSUME NEW a \in Arrays, Request(a) PROVE [Next]_vars
  <2>1. CASE RequestVirt(a)
    BY <2>1 DEF Next
  <2>2. CASE ~RequestVirt(a)
    <3>1. /\ ~failed /\ Becomes(AllocSmall(m, "image", BlockSize))
          /\ UNCHANGED <<requested, inMem, open, window>>
      BY <1>6, <2>2 DEF Request, Usable
    <3> QED
      BY <1>b, <3>1, AllocationIsElsewhere
  <2> QED
    BY <2>1, <2>2
<1>7. ASSUME NEW a \in Arrays, NEW s \in 0 .. Rows[a] - 1, NEW n \in 1 .. MaxAccess[a],
             NEW w \in BOOLEAN, AccessRows(a, s, n, w)
      PROVE  [Next]_vars
  <2>1. s \in 0 .. Rows[a] /\ n \in 1 .. MaxAccess[a] + 1
    BY ArraysAssumption
  <2>2. Access(a, s, s + n, w)
    BY <1>7 DEF AccessRows
  <2> QED
    BY <2>1, <2>2 DEF Next
<1>8. ASSUME NEW a \in Arrays, NEW r \in 0 .. Rows[a] - 1, NEW x \in Values, StoreRow(a, r, x)
      PROVE  [Next]_vars
  BY <1>8 DEF StoreRow, Next
<1> QED
  BY <1>1, <1>2, <1>3, <1>4, <1>5, <1>6, <1>7, <1>8 DEF MemNext

LEMMA MemNextSound == ArraysSound /\ [MemNext]_memVars => ArraysSound'
BY MemNextIsNext, NextSound

(* No buffer, window or file of an array is ever out of step.              *)
THEOREM MemoryKeepsArraysSound == MemSpec => []ArraysSound
<1>1. MemInit => ArraysSound
  BY InitSound DEF MemInit
<1> QED
  BY <1>1, MemNextSound, PTL DEF MemSpec

(* Through allocation, realization, access, failure and abort, the caller   *)
(* of the memory manager sees plain arrays.                                *)
THEOREM MemoryKeepsPlainArrays == MemSpec => PlainSpec
<1>1. MemInit => Init
  BY DEF MemInit
<1>2. MemSpec => Spec
  BY <1>1, MemNextIsNext, MemoryKeepsArraysSound, PTL DEF MemSpec, Spec
<1> QED
  BY <1>2, VirtualArraysArePlain

-----------------------------------------------------------------------------
(* The pools.  What free_pool gives back is a sum over the segments; the   *)
(* lemmas say how it changes when a segment is added or divided otherwise. *)

Segment == [used : Nat, left : Nat]

LEMMA SmallSpacesOfAppend ==
  ASSUME NEW s \in Seq(Segment), NEW segment \in Segment
  PROVE  /\ SmallSpaces(s) \in Seq(Nat)
         /\ SmallSpaces(Append(s, segment)) =
              Append(SmallSpaces(s), segment.used + segment.left + Hdr)
<1>1. \A x \in Segment : x.used + x.left + Hdr \in Nat
  BY MemoryAssumption DEF Segment
<1>2. DOMAIN s = 1 .. Len(s) /\ Len(s) \in Nat /\ \A i \in 1 .. Len(s) : s[i] \in Segment
  OBVIOUS
<1>3. SmallSpaces(s) = [i \in 1 .. Len(s) |-> s[i].used + s[i].left + Hdr]
  BY <1>2 DEF SmallSpaces
<1>4. SmallSpaces(s) \in Seq(Nat) /\ Len(SmallSpaces(s)) = Len(s)
  BY <1>1, <1>2, <1>3
<1> DEFINE more == Append(s, segment)
<1>5. /\ more \in Seq(Segment) /\ DOMAIN more = 1 .. Len(s) + 1
      /\ more[Len(s) + 1] = segment /\ \A i \in 1 .. Len(s) : more[i] = s[i]
  BY <1>2
<1>6. SmallSpaces(more) = [i \in 1 .. Len(s) + 1 |-> more[i].used + more[i].left + Hdr]
  BY <1>5 DEF SmallSpaces
<1> HIDE DEF more
<1>7. Append(SmallSpaces(s), segment.used + segment.left + Hdr)
        = [i \in 1 .. Len(s) + 1 |-> IF i <= Len(s) THEN SmallSpaces(s)[i]
                                     ELSE segment.used + segment.left + Hdr]
  BY <1>1, <1>4
<1>8. ASSUME NEW i \in 1 .. Len(s) + 1
      PROVE  more[i].used + more[i].left + Hdr =
               IF i <= Len(s) THEN SmallSpaces(s)[i] ELSE segment.used + segment.left + Hdr
  BY <1>2, <1>3, <1>5
<1>9. QED
  BY <1>4, <1>6, <1>7, <1>8 DEF more

LEMMA LargeSpacesOfAppend ==
  ASSUME NEW l \in Seq(Nat), NEW n \in Nat
  PROVE  /\ LargeSpaces(l) \in Seq(Nat)
         /\ LargeSpaces(Append(l, n)) = Append(LargeSpaces(l), n + Hdr)
<1>1. DOMAIN l = 1 .. Len(l) /\ Len(l) \in Nat /\ Hdr \in Nat
  BY MemoryAssumption
<1>2. LargeSpaces(l) = [i \in 1 .. Len(l) |-> l[i] + Hdr]
  BY <1>1 DEF LargeSpaces
<1>3. LargeSpaces(l) \in Seq(Nat) /\ Len(LargeSpaces(l)) = Len(l)
  BY <1>1, <1>2
<1> DEFINE more == Append(l, n)
<1>4. /\ DOMAIN more = 1 .. Len(l) + 1
      /\ more[Len(l) + 1] = n /\ \A i \in 1 .. Len(l) : more[i] = l[i]
  BY <1>1
<1>5. LargeSpaces(more) = [i \in 1 .. Len(l) + 1 |-> more[i] + Hdr]
  BY <1>4 DEF LargeSpaces
<1> HIDE DEF more
<1>6. Append(LargeSpaces(l), n + Hdr)
        = [i \in 1 .. Len(l) + 1 |-> IF i <= Len(l) THEN LargeSpaces(l)[i] ELSE n + Hdr]
  BY <1>1, <1>3
<1>7. ASSUME NEW i \in 1 .. Len(l) + 1
      PROVE  more[i] + Hdr = IF i <= Len(l) THEN LargeSpaces(l)[i] ELSE n + Hdr
  BY <1>1, <1>2, <1>4
<1>8. QED
  BY <1>3, <1>5, <1>6, <1>7 DEF more

(* Taking from what a segment has left changes nothing it takes up.        *)
LEMMA SmallSpacesOfTaken ==
  ASSUME NEW s \in Seq(Segment), NEW t \in Seq(Segment), NEW seg, NEW n \in Nat,
         Len(t) = Len(s),
         \A i \in 1 .. Len(s) : t[i] = IF i = seg THEN [used |-> s[i].used + n, left |-> s[i].left - n]
                                                  ELSE s[i]
  PROVE  SmallSpaces(t) = SmallSpaces(s)
<1>1. /\ DOMAIN s = 1 .. Len(s) /\ DOMAIN t = 1 .. Len(s)
      /\ \A i \in 1 .. Len(s) : s[i] \in Segment
  OBVIOUS
<1>2. \A i \in 1 .. Len(s) : t[i].used + t[i].left + Hdr = s[i].used + s[i].left + Hdr
  <2>1. ASSUME NEW i \in 1 .. Len(s)
        PROVE  t[i].used + t[i].left + Hdr = s[i].used + s[i].left + Hdr
    <3>1. s[i].used \in Nat /\ s[i].left \in Nat /\ Hdr \in Nat
      BY <1>1, MemoryAssumption DEF Segment
    <3>2. CASE i = seg
      <4>1. t[i] = [used |-> s[i].used + n, left |-> s[i].left - n]
        BY <3>2
      <4>2. t[i].used = s[i].used + n /\ t[i].left = s[i].left - n
        BY <4>1
      <4>3. QED
        BY <3>1, <4>2
    <3>3. CASE i # seg
      BY <3>3
    <3>4. QED
      BY <3>2, <3>3
  <2>2. QED
    BY <2>1
<1>3. QED
  BY <1>1, <1>2 DEF SmallSpaces

-----------------------------------------------------------------------------
(* The manager.                                                            *)
Objects == [kind : {"small", "large"}, pool : Pools, seg : Nat, off : Nat, size : Nat]

Managers ==
  [alive : BOOLEAN, small : [Pools -> Seq(Segment)], large : [Pools -> Seq(Nat)], total : Nat,
   heap : Nat, lastRowsPerChunk : Nat, list : Seq(Arrays), objects : SUBSET Objects,
   st : {"ok", "error"}]

(* An object lies in a segment there is.                                   *)
Lies(small, large, o) ==
  /\ o.off % Align = 0
  /\ o.kind = "large" => o.seg \in 1 .. Len(large[o.pool]) /\ o.size <= large[o.pool][o.seg]
  /\ o.kind = "small" => o.seg \in 1 .. Len(small[o.pool])
                         /\ o.off + o.size <= small[o.pool][o.seg].used

AllLie(small, large, objects) ==
  /\ \A o \in objects : Lies(small, large, o)
  /\ \A o, o2 \in objects : o # o2 => Apart(o, o2)

(* Every segment is one that malloc can give, filled up to an aligned place. *)
SegmentsFit(small, large) ==
  \A p \in Pools :
    /\ \A i \in 1 .. Len(small[p]) : /\ small[p][i].used % Align = 0
                                     /\ small[p][i].used + small[p][i].left + Hdr <= MaxChunk
    /\ \A i \in 1 .. Len(large[p]) : large[p][i] + Hdr <= MaxChunk

Counted(q) ==
  /\ q.total = (IF q.alive THEN MgrSize ELSE 0) + Held(q, "permanent") + Held(q, "image")
  /\ q.total + q.heap \in Heaps

Sound(q) ==
  /\ q \in Managers
  /\ AllLie(q.small, q.large, q.objects)
  /\ SegmentsFit(q.small, q.large)
  /\ Counted(q)
  /\ ~q.alive => \A p \in Pools : q.small[p] = <<>> /\ q.large[p] = <<>>

(* The parts of a manager.                                                 *)
LEMMA ManagerParts ==
  ASSUME NEW q \in Managers
  PROVE  /\ q.alive \in BOOLEAN /\ q.total \in Nat /\ q.heap \in Nat /\ q.list \in Seq(Arrays)
         /\ q.small \in [Pools -> Seq(Segment)] /\ q.large \in [Pools -> Seq(Nat)]
         /\ q.objects \in SUBSET Objects /\ q.st \in {"ok", "error"}
         /\ q.lastRowsPerChunk \in Nat
BY DEF Managers

(* What the other parts of an unusable manager are does not matter.         *)
LEMMA SoundWithStatus ==
  ASSUME NEW q, Sound(q), NEW st \in {"ok", "error"}
  PROVE  /\ Sound([q EXCEPT !.st = st])
         /\ [q EXCEPT !.st = st].alive = q.alive /\ [q EXCEPT !.st = st].list = q.list
<1> DEFINE r == [q EXCEPT !.st = st]
<1>1. q \in Managers
  BY DEF Sound
<1>2. /\ r \in Managers /\ r.alive = q.alive /\ r.list = q.list /\ r.small = q.small
      /\ r.large = q.large /\ r.objects = q.objects /\ r.total = q.total /\ r.heap = q.heap
  BY <1>1 DEF Managers
<1> HIDE DEF r
<1>3. Sound(r)
  BY <1>2 DEF Sound, Counted, Held
<1>4. QED
  BY <1>2, <1>3 DEF r

(* Rounding up leads to an aligned size, which a chunk has room for if it   *)
(* had for the size.                                                       *)
LEMMA RoundedUp ==
  ASSUME NEW size \in Nat
  PROVE  /\ Rounded(size) \in Nat /\ size <= Rounded(size) /\ Rounded(size) % Align = 0
         /\ size <= MaxChunk - Hdr => Rounded(size) <= MaxChunk - Hdr
<1>1. /\ MaxChunk \in Nat /\ Hdr \in Nat /\ MaxChunk % Align = 0 /\ Hdr % Align = 0
  BY MemoryAssumption
<1>2. CASE Align = 1
  BY <1>1, <1>2 DEF Rounded
<1>3. CASE Align = 2
  BY <1>1, <1>3 DEF Rounded
<1>4. CASE Align = 4
  BY <1>1, <1>4 DEF Rounded
<1>5. CASE Align = 8
  BY <1>1, <1>5 DEF Rounded
<1>6. QED
  BY <1>2, <1>3, <1>4, <1>5, MemoryAssumption

LEMMA AlignedSum ==
  ASSUME NEW x \in Nat, NEW y \in Nat, x % Align = 0, y % Align = 0
  PROVE  (x + y) % Align = 0 /\ 0 % Align = 0
<1>2. CASE Align = 1
  BY <1>2
<1>3. CASE Align = 2
  BY <1>3
<1>4. CASE Align = 4
  BY <1>4
<1>5. CASE Align = 8
  BY <1>5
<1>6. QED
  BY <1>2, <1>3, <1>4, <1>5, MemoryAssumption

(* What the pools hold is a number.                                        *)
LEMMA HeldNat ==
  ASSUME NEW q \in Managers, NEW p \in Pools
  PROVE  Held(q, p) \in Nat
<1>1. q.small[p] \in Seq(Segment) /\ q.large[p] \in Seq(Nat)
  BY ManagerParts
<1>2. SmallSpaces(q.small[p]) \in Seq(Nat) /\ LargeSpaces(q.large[p]) \in Seq(Nat)
  <2>1. [used |-> 0, left |-> 0] \in Segment /\ 0 \in Nat
    BY DEF Segment
  <2>2. QED
    BY <1>1, <2>1, SmallSpacesOfAppend, LargeSpacesOfAppend
<1>3. Total(SmallSpaces(q.small[p])) \in Nat /\ Total(LargeSpaces(q.large[p])) \in Nat
  <2>1. 0 \in Nat
    OBVIOUS
  <2>2. \A sizes \in Seq(Nat) : Total(sizes) \in Nat
    BY <2>1, TotalOfAppend
  <2>3. QED
    BY <1>2, <2>2
<1>4. QED
  BY <1>3 DEF Held

(* What a segment of p gets, the heap loses: the count stays right.         *)
LEMMA CountedMoved ==
  ASSUME NEW q, Sound(q), NEW r \in Managers, NEW p \in Pools, NEW n \in Nat,
         r.alive = q.alive, r.total = q.total + n, r.heap = q.heap - n,
         Held(r, p) = Held(q, p) + n,
         \A p2 \in Pools \ {p} : r.small[p2] = q.small[p2] /\ r.large[p2] = q.large[p2]
  PROVE  Counted(r)
<1>1. /\ Held(q, "permanent") \in Nat /\ Held(q, "image") \in Nat /\ MgrSize \in Nat
      /\ q.total \in Nat /\ q.heap \in Nat
  BY HeldNat, ManagerParts, SizesAssumption DEF Sound, Pools
<1>2. \A p2 \in Pools \ {p} : Held(r, p2) = Held(q, p2)
  BY DEF Held
<1>3. Held(r, "permanent") + Held(r, "image") = Held(q, "permanent") + Held(q, "image") + n
  BY <1>1, <1>2 DEF Pools
<1>4. r.total + r.heap = q.total + q.heap
  BY <1>1
<1> DEFINE held == Held(r, "permanent") + Held(r, "image")
           heldBefore == Held(q, "permanent") + Held(q, "image")
<1>5. /\ q.total = (IF q.alive THEN MgrSize ELSE 0) + Held(q, "permanent") + Held(q, "image")
      /\ q.total + q.heap \in Heaps
  BY DEF Sound, Counted
<1>6. /\ Held(r, "permanent") \in Nat /\ Held(r, "image") \in Nat
  BY HeldNat DEF Pools
<1>7. QED
  BY <1>1, <1>3, <1>4, <1>5, <1>6 DEF Counted

-----------------------------------------------------------------------------
(* What an allocation makes of a sound manager.                            *)
Descendants(q) == {x \in Managers : Sound(x) /\ x.alive = q.alive /\ x.list = q.list}

LEMMA OutOfMemorySound ==
  ASSUME NEW q, Sound(q)
  PROVE  OutOfMemory(q) \in Descendants(q) /\ OutOfMemory(q).st = "error"
<1>1. q \in Managers
  BY DEF Sound
<1>2. /\ Sound(OutOfMemory(q)) /\ OutOfMemory(q).alive = q.alive
      /\ OutOfMemory(q).list = q.list
  BY SoundWithStatus DEF OutOfMemory
<1>3. OutOfMemory(q).st = "error"
  BY <1>1 DEF OutOfMemory, Managers
<1>4. QED
  BY <1>2, <1>3 DEF Descendants, Sound

PoolAdded(q, p, n, slop) ==
  [q EXCEPT !.heap = @ - (n + Hdr + slop), !.total = @ + n + Hdr + slop,
            !.small[p] = Append(@, [used |-> 0, left |-> n + slop])]

LEMMA PoolAddedSound ==
  ASSUME NEW q, Sound(q), q.alive, NEW p \in Pools, NEW n \in Nat, NEW slop \in Nat,
         n + Hdr + slop <= q.heap, n + Hdr + slop <= MaxChunk
  PROVE  /\ PoolAdded(q, p, n, slop) \in Descendants(q)
         /\ PoolAdded(q, p, n, slop).st = q.st
         /\ \E i \in DOMAIN PoolAdded(q, p, n, slop).small[p] :
               PoolAdded(q, p, n, slop).small[p][i].left >= n
<1> DEFINE r == PoolAdded(q, p, n, slop)
           space == n + Hdr + slop
           new == [used |-> 0, left |-> n + slop]
           k == Len(q.small[p])
<1>0. /\ q \in Managers /\ q.alive = TRUE /\ q.total \in Nat /\ q.heap \in Nat
      /\ q.small \in [Pools -> Seq(Segment)] /\ q.large \in [Pools -> Seq(Nat)]
      /\ q.small[p] \in Seq(Segment)
      /\ Hdr \in Nat /\ MaxChunk \in Nat /\ k \in Nat
  BY ManagerParts, MemoryAssumption DEF Sound
<1>1. new \in Segment /\ new.used = 0 /\ new.left = n + slop /\ space \in Nat
  BY <1>0 DEF Segment
<1>2. /\ r.alive = q.alive /\ r.large = q.large /\ r.objects = q.objects /\ r.list = q.list
      /\ r.st = q.st /\ r.lastRowsPerChunk = q.lastRowsPerChunk
      /\ r.heap = q.heap - space /\ r.total = q.total + space
      /\ r.small = [q.small EXCEPT ![p] = Append(@, new)]
  <2>1. /\ r.alive = q.alive /\ r.large = q.large /\ r.objects = q.objects /\ r.list = q.list
        /\ r.st = q.st /\ r.lastRowsPerChunk = q.lastRowsPerChunk
    BY <1>0 DEF PoolAdded, Managers
  <2>2. r.heap = q.heap - space
    BY <1>0 DEF PoolAdded, Managers
  <2>3. r.total = q.total + n + Hdr + slop
    BY <1>0 DEF PoolAdded, Managers
  <2>4. r.total = q.total + space
    <3> HIDE DEF r
    <3>1. QED
      BY <1>0, <2>3
  <2>5. r.small = [q.small EXCEPT ![p] = Append(@, new)]
    BY <1>0 DEF PoolAdded, Managers
  <2>6. QED
    BY <2>1, <2>2, <2>4, <2>5
<1>3. r = [q EXCEPT !.heap = r.heap, !.total = r.total, !.small = r.small]
  BY <1>0, <1>2 DEF PoolAdded, Managers
<1> HIDE DEF r, new, space, k
<1>4. /\ r.small[p] = Append(q.small[p], new) /\ r.small \in [Pools -> Seq(Segment)]
      /\ \A p2 \in Pools \ {p} : r.small[p2] = q.small[p2]
  BY <1>0, <1>1, <1>2, SMTT(30)
<1>5. r.heap \in Nat /\ r.total \in Nat
  BY <1>0, <1>1, <1>2 DEF space
<1>6. r \in Managers
  BY <1>0, <1>3, <1>4, <1>5 DEF Managers
<1>7. /\ Len(r.small[p]) = k + 1 /\ r.small[p][k + 1] = new
      /\ \A i \in 1 .. k : r.small[p][i] = q.small[p][i]
  BY <1>0, <1>1, <1>4 DEF k
<1>8. AllLie(r.small, r.large, r.objects)
  <2>1. ASSUME NEW o \in q.objects, Lies(q.small, q.large, o) PROVE Lies(r.small, r.large, o)
    <3>1. o.pool \in Pools
      BY <1>0, ManagerParts DEF Objects
    <3>2. CASE o.pool = p
      <4>1. \A i \in 1 .. k : i \in 1 .. k + 1 /\ r.small[p][i] = q.small[p][i]
        BY <1>0, <1>7, SMTT(30)
      <4>2. QED
        BY <1>2, <1>7, <2>1, <3>2, <4>1 DEF Lies, k
    <3>3. CASE o.pool # p
      BY <1>2, <1>4, <2>1, <3>1, <3>3 DEF Lies
    <3>4. QED
      BY <3>2, <3>3
  <2>2. QED
    BY <1>2, <2>1 DEF Sound, AllLie
<1>9. SegmentsFit(r.small, r.large)
  <2>1. ASSUME NEW i \in 1 .. k + 1
        PROVE  /\ r.small[p][i].used % Align = 0
               /\ r.small[p][i].used + r.small[p][i].left + Hdr <= MaxChunk
    <3>1. CASE i = k + 1
      <4>1. 0 % Align = 0
        BY AlignedSum, MemoryAssumption
      <4>2. QED
        BY <1>0, <1>1, <1>7, <3>1, <4>1
    <3>2. CASE i \in 1 .. k
      BY <1>7, <3>2 DEF Sound, SegmentsFit, k
    <3>3. QED
      BY <1>0, <3>1, <3>2
  <2>2. QED
    BY <1>2, <1>4, <1>7, <2>1, SMTT(30) DEF Sound, SegmentsFit
<1>10. Held(r, p) = Held(q, p) + space
  <2>1. /\ SmallSpaces(q.small[p]) \in Seq(Nat)
        /\ SmallSpaces(r.small[p]) = Append(SmallSpaces(q.small[p]), new.used + new.left + Hdr)
    BY <1>0, <1>1, <1>4, SmallSpacesOfAppend, SMTT(30)
  <2>2. new.used + new.left + Hdr = space
    BY <1>0, <1>1 DEF space
  <2>3. /\ Total(SmallSpaces(r.small[p])) = Total(SmallSpaces(q.small[p])) + space
        /\ Total(SmallSpaces(q.small[p])) \in Nat
    BY <1>1, <2>1, <2>2, TotalOfAppend
  <2>4. LargeSpaces(q.large[p]) \in Seq(Nat)
    BY <1>0, LargeSpacesOfAppend
  <2>5. Total(LargeSpaces(q.large[p])) \in Nat
    BY <1>1, <2>4, TotalOfAppend
  <2>6. QED
    BY <1>1, <1>2, <2>3, <2>5 DEF Held
<1>11. Counted(r)
  BY <1>1, <1>2, <1>4, <1>6, <1>10, CountedMoved
<1>12. r \in Descendants(q)
  BY <1>0, <1>2, <1>6, <1>8, <1>9, <1>11 DEF Descendants, Sound
<1>13. k + 1 \in DOMAIN r.small[p] /\ r.small[p][k + 1].left >= n
  BY <1>0, <1>1, <1>4, <1>7
<1>14. QED
  BY <1>2, <1>12, <1>13 DEF r

(* A pool gets the most slop that malloc has room for, if any.             *)
LEMMA NewSmallPoolSound ==
  ASSUME NEW q, Sound(q), q.alive, NEW p \in Pools, NEW n \in Nat, n + Hdr <= MaxChunk
  PROVE  /\ NewSmallPool(q, p, n) \in Descendants(q)
         /\ NewSmallPool(q, p, n).st = "error" \/
              /\ NewSmallPool(q, p, n).st = q.st
              /\ \E i \in DOMAIN NewSmallPool(q, p, n).small[p] :
                    NewSmallPool(q, p, n).small[p][i].left >= n
<1> DEFINE wish == IF q.small[p] = <<>> THEN FirstSlop[p] ELSE ExtraSlop[p]
           most == MaxChunk - (n + Hdr)
           want == Min({wish, most})
           got == {s \in Slops(want) : n + Hdr + s <= q.heap}
<1>1. wish \in Nat /\ most \in Nat /\ Hdr \in Nat /\ MaxChunk \in Nat
  BY MemoryAssumption
<1>2. want \in Nat /\ want <= most
  <2> HIDE DEF wish, most
  <2>1. {wish, most} \in SUBSET Nat /\ {wish, most} # {}
    BY <1>1
  <2>2. want \in {wish, most} /\ \A x \in {wish, most} : want <= x
    BY <2>1, MinMember
  <2>3. QED
    BY <1>1, <2>2
<1>3. NewSmallPool(q, p, n) = IF got = {} THEN OutOfMemory(q) ELSE PoolAdded(q, p, n, Max(got))
  BY DEF NewSmallPool, PoolAdded
<1> HIDE DEF want, wish
<1>4. got \in SUBSET (0 .. want)
  <2>1. ASSUME NEW s \in Slops(want) PROVE s \in 0 .. want
    <3>1. s = want \/ s \in MinSlop .. want
      BY DEF Slops
    <3>2. QED
      BY <1>2, <3>1, MemoryAssumption
  <2>2. QED
    BY <2>1
<1>5. CASE got = {}
  BY <1>3, <1>5, OutOfMemorySound
<1>6. CASE got # {}
  <2>1. Max(got) \in got
    BY <1>2, <1>4, <1>6, MaxMember
  <2>2. Max(got) \in 0 .. want /\ n + Hdr + Max(got) <= q.heap
    BY <1>4, <2>1
  <2> DEFINE slop == Max(got)
  <2> HIDE DEF slop
  <2>3. slop \in Nat /\ n + Hdr + slop <= q.heap /\ n + Hdr + slop <= MaxChunk
    BY <1>1, <1>2, <2>2 DEF slop
  <2>4. /\ PoolAdded(q, p, n, slop) \in Descendants(q)
        /\ PoolAdded(q, p, n, slop).st = q.st
        /\ \E i \in DOMAIN PoolAdded(q, p, n, slop).small[p] :
              PoolAdded(q, p, n, slop).small[p][i].left >= n
    BY <2>3, PoolAddedSound
  <2>5. NewSmallPool(q, p, n) = PoolAdded(q, p, n, slop)
    BY <1>3, <1>6 DEF slop
  <2>6. QED
    BY <2>4, <2>5
<1>7. QED
  BY <1>5, <1>6

(* An object takes the place behind the others of its segment.             *)
Taken(r, p, seg, n) ==
  [r EXCEPT !.objects = @ \cup {Object("small", p, seg, r.small[p][seg].used, n)},
            !.small[p][seg].used = @ + n, !.small[p][seg].left = @ - n]

LEMMA TakenSound ==
  ASSUME NEW r, Sound(r), r.alive, NEW p \in Pools, NEW n \in Nat, n % Align = 0,
         NEW seg \in DOMAIN r.small[p], r.small[p][seg].left >= n
  PROVE  Taken(r, p, seg, n) \in Descendants(r)
<1> DEFINE x == Taken(r, p, seg, n)
           s == r.small[p]
           off == s[seg].used
           new == Object("small", p, seg, off, n)
           less == [used |-> off + n, left |-> s[seg].left - n]
           k == Len(s)
<1>0. /\ r \in Managers /\ r.alive = TRUE /\ r.total \in Nat /\ r.heap \in Nat
      /\ r.small \in [Pools -> Seq(Segment)] /\ r.large \in [Pools -> Seq(Nat)]
      /\ r.objects \in SUBSET Objects
      /\ Hdr \in Nat /\ MaxChunk \in Nat
  BY ManagerParts, MemoryAssumption DEF Sound
<1>1. s \in Seq(Segment) /\ k \in Nat /\ DOMAIN s = 1 .. k /\ seg \in 1 .. k /\ seg \in Nat
  <2>1. s \in Seq(Segment)
    BY <1>0
  <2>2. QED
    BY <2>1
<1>2. s[seg] \in Segment /\ off \in Nat /\ s[seg].left \in Nat
  <2> DEFINE segment == s[seg]
  <2>1. segment \in Segment
    <3> HIDE DEF s
    <3>1. QED
      BY <1>1
  <2> HIDE DEF segment
  <2>2. segment.used \in Nat /\ segment.left \in Nat
    BY <2>1 DEF Segment
  <2>3. QED
    BY <2>1, <2>2 DEF segment
<1>3. less \in Segment /\ less.used = off + n /\ less.left = s[seg].left - n
  BY <1>2 DEF Segment
<1>4. /\ x.alive = r.alive /\ x.large = r.large /\ x.list = r.list /\ x.st = r.st
      /\ x.lastRowsPerChunk = r.lastRowsPerChunk /\ x.heap = r.heap /\ x.total = r.total
      /\ x.objects = r.objects \cup {new}
  BY <1>0 DEF Taken, Managers
<1>5. x.small = [r.small EXCEPT ![p] = [s EXCEPT ![seg] = less]]
  <2>1. x.small = [r.small EXCEPT ![p][seg].used = @ + n, ![p][seg].left = @ - n]
    BY <1>0 DEF Taken, Managers
  <2>2. [r.small EXCEPT ![p][seg].used = @ + n, ![p][seg].left = @ - n]
          = [r.small EXCEPT ![p] = [s EXCEPT ![seg] = [s[seg] EXCEPT !.used = @ + n, !.left = @ - n]]]
    BY <1>0, <1>1
  <2>3. [s[seg] EXCEPT !.used = @ + n, !.left = @ - n] = less
    <3>1. ASSUME NEW segment \in Segment
          PROVE  [segment EXCEPT !.used = @ + n, !.left = @ - n]
                   = [used |-> segment.used + n, left |-> segment.left - n]
      <4> DEFINE u == segment.used + n
                 l == segment.left - n
                 after == [segment EXCEPT !.used = u, !.left = l]
      <4>1. u \in Int /\ l \in Int
        BY DEF Segment
      <4> HIDE DEF u, l
      <4>2. after.used = u
        BY <4>1 DEF Segment
      <4>5. after.left = l
        BY <4>1 DEF Segment
      <4>6. after \in [used : Int, left : Int]
        BY <4>1 DEF Segment
      <4>7. \A x2 \in [used : Int, left : Int] : x2 = [used |-> x2.used, left |-> x2.left]
        OBVIOUS
      <4>3. after = [used |-> u, left |-> l]
        <5> HIDE DEF after
        <5>1. QED
          BY <4>2, <4>5, <4>6, <4>7
      <4>4. QED
        BY <4>3 DEF u, l
    <3> DEFINE segment == s[seg]
    <3>2. segment \in Segment
      BY <1>2
    <3> HIDE DEF segment
    <3>3. [segment EXCEPT !.used = @ + n, !.left = @ - n]
            = [used |-> segment.used + n, left |-> segment.left - n]
      BY <3>1, <3>2
    <3>4. QED
      BY <3>3 DEF segment
  <2>4. QED
    BY <2>1, <2>2, <2>3
<1>6. x = [r EXCEPT !.objects = x.objects, !.small = x.small]
  BY <1>0, <1>4, <1>5, ZenonT(40) DEF Taken, Managers
<1> HIDE DEF x, new, less, k, s, off
<1>7. /\ x.small[p] = [s EXCEPT ![seg] = less] /\ x.small \in [Pools -> Seq(Segment)]
      /\ \A p2 \in Pools \ {p} : x.small[p2] = r.small[p2]
      /\ x.small[p] \in Seq(Segment) /\ Len(x.small[p]) = k
      /\ x.small[p][seg] = less
      /\ \A i \in 1 .. k : i # seg => x.small[p][i] = s[i]
  <2>1. [s EXCEPT ![seg] = less] \in Seq(Segment) /\ Len([s EXCEPT ![seg] = less]) = k
    BY <1>1, <1>3 DEF k
  <2>2. x.small[p] = [s EXCEPT ![seg] = less]
    BY <1>0, <1>5
  <2>3. x.small \in [Pools -> Seq(Segment)] /\ \A p2 \in Pools \ {p} : x.small[p2] = r.small[p2]
    BY <1>0, <1>5, <2>1
  <2>4. QED
    BY <1>1, <2>1, <2>2, <2>3
<1>8. /\ new \in Objects /\ new.kind = "small" /\ new.pool = p /\ new.seg = seg
      /\ new.off = off /\ new.size = n
  BY <1>1, <1>2 DEF new, Object, Objects
<1>9. x \in Managers
  BY <1>0, <1>4, <1>6, <1>7, <1>8, ZenonT(40) DEF Managers
<1>10. off % Align = 0 /\ (off + n) % Align = 0
       /\ off + s[seg].left + Hdr <= MaxChunk
  <2>1. off % Align = 0 /\ off + s[seg].left + Hdr <= MaxChunk
    BY <1>1 DEF Sound, SegmentsFit, off, s, k
  <2>2. QED
    BY <1>2, <2>1, AlignedSum
<1>11. ASSUME NEW o \in r.objects
       PROVE  /\ Lies(x.small, x.large, o)
              /\ o.kind = "small" /\ o.pool = p /\ o.seg = seg => o.off + o.size <= off
  <2>1. Lies(r.small, r.large, o) /\ o \in Objects
    BY <1>0 DEF Sound, AllLie
  <2>2. o.pool \in Pools /\ o.seg \in Nat /\ o.off \in Nat /\ o.size \in Nat
    BY <2>1 DEF Objects
  <2>3. o.kind = "small" /\ o.pool = p /\ o.seg = seg => o.off + o.size <= off
    BY <2>1 DEF Lies, off, s
  <2>4. CASE o.kind = "small" /\ o.pool = p /\ o.seg = seg
    <3>1. x.small[o.pool][o.seg].used = off + n
      BY <1>3, <1>7, <2>4
    <3>2. o.off + o.size <= x.small[o.pool][o.seg].used
      BY <1>2, <2>2, <2>3, <2>4, <3>1
    <3>3. o.seg \in 1 .. Len(x.small[o.pool])
      BY <1>1, <1>7, <2>4
    <3>4. o.off % Align = 0 /\ o.kind # "large"
      BY <2>1, <2>4 DEF Lies
    <3>5. QED
      BY <2>3, <3>2, <3>3, <3>4, Zenon DEF Lies
  <2>5. CASE o.kind = "small" /\ o.pool = p /\ o.seg # seg
    BY <1>1, <1>7, <2>1, <2>5 DEF Lies, s, k
  <2>6. CASE o.kind = "small" /\ o.pool # p
    BY <1>7, <2>1, <2>2, <2>6 DEF Lies
  <2>7. CASE o.kind # "small"
    BY <1>4, <2>1, <2>7 DEF Lies
  <2>8. QED
    BY <2>3, <2>4, <2>5, <2>6, <2>7
<1>12. Lies(x.small, x.large, new)
  <2>1. x.small[new.pool][new.seg].used = new.off + new.size
    BY <1>3, <1>7, <1>8
  <2>2. new.seg \in 1 .. Len(x.small[new.pool])
    BY <1>1, <1>7, <1>8, Zenon
  <2>5. new.off + new.size \in Nat
    BY <1>2, <1>8
  <2>3. new.off % Align = 0 /\ new.kind = "small"
    BY <1>8, <1>10
  <2>4. QED
    BY <2>1, <2>2, <2>3, <2>5 DEF Lies
<1>13. ASSUME NEW o \in r.objects PROVE Apart(o, new) /\ Apart(new, o)
  BY <1>8, <1>11 DEF Apart
<1>14. AllLie(x.small, x.large, x.objects)
  BY <1>4, <1>11, <1>12, <1>13 DEF Sound, AllLie
<1>15. SegmentsFit(x.small, x.large)
  <2>1. ASSUME NEW i \in 1 .. k
        PROVE  /\ x.small[p][i].used % Align = 0
               /\ x.small[p][i].used + x.small[p][i].left + Hdr <= MaxChunk
    <3>1. CASE i = seg
      BY <1>0, <1>2, <1>3, <1>7, <1>10, <3>1
    <3>2. CASE i # seg
      BY <1>7, <3>2 DEF Sound, SegmentsFit, s, k
    <3>3. QED
      BY <3>1, <3>2
  <2>2. ASSUME NEW p2 \in Pools
        PROVE  \A i \in 1 .. Len(x.small[p2]) :
                  /\ x.small[p2][i].used % Align = 0
                  /\ x.small[p2][i].used + x.small[p2][i].left + Hdr <= MaxChunk
    <3>1. CASE p2 = p
      <4>1. Len(x.small[p]) = k
        BY <1>7
      <4>2. QED
        BY <2>1, <3>1, <4>1
    <3>2. CASE p2 # p
      <4>1. x.small[p2] = r.small[p2]
        BY <1>7, <3>2
      <4>2. QED
        BY <4>1 DEF Sound, SegmentsFit
    <3>3. QED
      BY <3>1, <3>2
  <2>3. QED
    BY <1>4, <2>2 DEF Sound, SegmentsFit
<1>16. Held(x, p) = Held(r, p) + 0
  <2>1. \A i \in 1 .. Len(s) :
           x.small[p][i] = IF i = seg THEN [used |-> s[i].used + n, left |-> s[i].left - n] ELSE s[i]
    BY <1>7 DEF less, off, k
  <2>2. SmallSpaces(x.small[p]) = SmallSpaces(s)
    <3> DEFINE t == x.small[p]
    <3>1. t \in Seq(Segment) /\ Len(t) = Len(s)
      BY <1>7 DEF k
    <3>2. \A i \in 1 .. Len(s) :
             t[i] = IF i = seg THEN [used |-> s[i].used + n, left |-> s[i].left - n] ELSE s[i]
      BY <2>1
    <3> HIDE DEF t
    <3>3. SmallSpaces(t) = SmallSpaces(s)
      BY <1>1, <3>1, <3>2, SmallSpacesOfTaken, ZenonT(40)
    <3>4. QED
      BY <3>3 DEF t
  <2>3. Held(r, p) \in Nat
    BY <1>0, HeldNat
  <2>4. QED
    BY <1>4, <2>2, <2>3 DEF Held, s
<1>17. Counted(x)
  <2>1. x.total = r.total + 0 /\ x.heap = r.heap - 0 /\ 0 \in Nat
    BY <1>0, <1>4
  <2>2. \A p2 \in Pools \ {p} : x.small[p2] = r.small[p2] /\ x.large[p2] = r.large[p2]
    BY <1>4, <1>7
  <2>3. QED
    BY <1>4, <1>9, <1>16, <2>1, <2>2, CountedMoved
<1>18. QED
  BY <1>0, <1>4, <1>9, <1>14, <1>15, <1>17 DEF Descendants, Sound, x

LEMMA DescendantsChain ==
  ASSUME NEW q, NEW x \in Descendants(q), NEW y \in Descendants(x)
  PROVE  y \in Descendants(q)
BY DEF Descendants

LEMMA AllocSmallSound ==
  ASSUME NEW q, Sound(q), q.alive, NEW p \in Pools, NEW size \in Nat
  PROVE  AllocSmall(q, p, size) \in Descendants(q)
<1> DEFINE n == Rounded(size)
           Roomy(x) == {i \in DOMAIN x.small[p] : x.small[p][i].left >= n}
           r == IF Roomy(q) = {} THEN NewSmallPool(q, p, n) ELSE q
           seg == Min(Roomy(r))
<1>1. q \in Descendants(q)
  BY DEF Descendants, Sound
<1>2. AllocSmall(q, p, size) =
        IF q.st = "error" THEN q
        ELSE IF size > MaxChunk - Hdr THEN OutOfMemory(q)
        ELSE IF r.st = "error" THEN r
        ELSE Taken(r, p, seg, n)
  BY DEF AllocSmall, Taken
<1>3. CASE q.st = "error" \/ size > MaxChunk - Hdr
  BY <1>1, <1>2, <1>3, OutOfMemorySound
<1>4. CASE ~(q.st = "error") /\ ~(size > MaxChunk - Hdr)
  <2>1. n \in Nat /\ n % Align = 0 /\ n + Hdr <= MaxChunk
    <3>1. size <= MaxChunk - Hdr /\ MaxChunk \in Nat /\ Hdr \in Nat
      BY <1>4, MemoryAssumption
    <3>2. n \in Nat /\ n % Align = 0 /\ n <= MaxChunk - Hdr
      BY <3>1, RoundedUp
    <3> HIDE DEF n
    <3>3. QED
      BY <3>1, <3>2
  <2> HIDE DEF n
  <2>2. r \in Descendants(q) /\ (r.st = "error" \/ Roomy(r) # {})
    <3>1. CASE Roomy(q) = {}
      <4>1. r = NewSmallPool(q, p, n)
        BY <3>1
      <4>2. /\ NewSmallPool(q, p, n) \in Descendants(q)
            /\ NewSmallPool(q, p, n).st = "error" \/
                 \E i \in DOMAIN NewSmallPool(q, p, n).small[p] :
                    NewSmallPool(q, p, n).small[p][i].left >= n
        BY <2>1, NewSmallPoolSound
      <4> HIDE DEF r
      <4>3. QED
        BY <4>1, <4>2
    <3>2. CASE Roomy(q) # {}
      BY <1>1, <3>2
    <3>3. QED
      BY <3>1, <3>2
  <2> HIDE DEF r
  <2>3. CASE r.st = "error"
    BY <1>2, <1>4, <2>2, <2>3
  <2>4. CASE ~(r.st = "error")
    <3>1. Sound(r) /\ r.alive /\ r \in Managers
      BY <2>2 DEF Descendants
    <3>2. Roomy(r) \in SUBSET Nat /\ Roomy(r) # {}
      <4>1. r.small[p] \in Seq(Segment)
        BY <3>1, ManagerParts
      <4>2. DOMAIN r.small[p] \subseteq Nat
        BY <4>1
      <4>3. QED
        BY <2>2, <2>4, <4>2
    <3>3. seg \in Roomy(r)
      <4> HIDE DEF Roomy
      <4>1. QED
        BY <3>2, MinMember
    <3>4. seg \in DOMAIN r.small[p] /\ r.small[p][seg].left >= n
      BY <3>3
    <3> HIDE DEF seg
    <3>5. Taken(r, p, seg, n) \in Descendants(r)
      BY <2>1, <3>1, <3>4, TakenSound
    <3>6. QED
      BY <1>2, <1>4, <2>2, <2>4, <3>5, DescendantsChain
  <2>5. QED
    BY <2>3, <2>4
<1>5. QED
  BY <1>3, <1>4
(* A large object takes a segment of its own.                              *)
LEMMA AllocLargeSound ==
  ASSUME NEW q, Sound(q), q.alive, NEW p \in Pools, NEW size \in Nat
  PROVE  AllocLarge(q, p, size) \in Descendants(q)
<1> DEFINE n == Rounded(size)
           k == Len(q.large[p])
           new == Object("large", p, k + 1, 0, n)
           space == n + Hdr
           x == [q EXCEPT !.heap = @ - (n + Hdr), !.total = @ + n + Hdr,
                          !.large[p] = Append(@, n), !.objects = @ \cup {new}]
<1>1. q \in Descendants(q) /\ OutOfMemory(q) \in Descendants(q)
  BY OutOfMemorySound DEF Descendants, Sound
<1>2. AllocLarge(q, p, size) =
        IF q.st = "error" THEN q
        ELSE IF size > MaxChunk - Hdr \/ n + Hdr > q.heap THEN OutOfMemory(q)
        ELSE x
  BY DEF AllocLarge
<1>3. CASE q.st = "error" \/ size > MaxChunk - Hdr \/ n + Hdr > q.heap
  <2> HIDE DEF x, n
  <2>1. QED
    BY <1>1, <1>2, <1>3
<1>4. CASE ~(q.st = "error") /\ ~(size > MaxChunk - Hdr) /\ ~(n + Hdr > q.heap)
  <2>0. /\ q \in Managers /\ q.alive = TRUE /\ q.total \in Nat /\ q.heap \in Nat
        /\ q.small \in [Pools -> Seq(Segment)] /\ q.large \in [Pools -> Seq(Nat)]
        /\ q.large[p] \in Seq(Nat) /\ q.objects \in SUBSET Objects
        /\ Hdr \in Nat /\ MaxChunk \in Nat /\ k \in Nat
    BY ManagerParts, MemoryAssumption DEF Sound
  <2>1. n \in Nat /\ n <= MaxChunk - Hdr
    <3>1. size <= MaxChunk - Hdr
      BY <1>4, <2>0
    <3>2. QED
      BY <3>1, RoundedUp
  <2> HIDE DEF n
  <2>2. n + Hdr <= MaxChunk /\ n + Hdr <= q.heap /\ space \in Nat
    BY <1>4, <2>0, <2>1
  <2>3. /\ x.alive = q.alive /\ x.small = q.small /\ x.list = q.list /\ x.st = q.st
        /\ x.lastRowsPerChunk = q.lastRowsPerChunk /\ x.objects = q.objects \cup {new}
    BY <2>0 DEF Managers
  <2>4. x.heap = q.heap - space
    BY <2>0 DEF Managers
  <2>5. x.total = q.total + space
    <3>1. x.total = q.total + n + Hdr
      BY <2>0 DEF Managers
    <3> HIDE DEF x
    <3>2. QED
      BY <2>0, <2>1, <3>1
  <2>6. x.large = [q.large EXCEPT ![p] = Append(@, n)]
    BY <2>0 DEF Managers
  <2>7. x = [q EXCEPT !.heap = x.heap, !.total = x.total, !.large = x.large, !.objects = x.objects]
    BY <2>0, <2>3, <2>4, <2>5, <2>6 DEF Managers
  <2> HIDE DEF x, new, space, k
  <2>8. /\ x.large[p] = Append(q.large[p], n) /\ x.large \in [Pools -> Seq(Nat)]
        /\ \A p2 \in Pools \ {p} : x.large[p2] = q.large[p2]
    BY <2>0, <2>1, <2>6
  <2>9. /\ Len(x.large[p]) = k + 1 /\ x.large[p][k + 1] = n
        /\ \A i \in 1 .. k : x.large[p][i] = q.large[p][i]
    BY <2>0, <2>1, <2>8 DEF k
  <2>10. /\ new \in Objects /\ new.kind = "large" /\ new.pool = p /\ new.seg = k + 1
         /\ new.off = 0 /\ new.size = n
    BY <2>0, <2>1 DEF new, Object, Objects
  <2>11. x.heap \in Nat /\ x.total \in Nat
    BY <2>0, <2>1, <2>2, <2>4, <2>5 DEF space
  <2>12. x \in Managers
    BY <2>0, <2>3, <2>7, <2>8, <2>10, <2>11 DEF Managers
  <2>13. ASSUME NEW o \in q.objects
         PROVE  Lies(x.small, x.large, o) /\ Apart(o, new) /\ Apart(new, o)
    <3>1. Lies(q.small, q.large, o) /\ o \in Objects
      BY <2>0 DEF Sound, AllLie
    <3>2. o.pool \in Pools /\ o.kind \in {"small", "large"}
      BY <3>1 DEF Objects
    <3>3. CASE o.kind = "small"
      <4>1. Lies(x.small, x.large, o)
        BY <2>3, <3>1, <3>3 DEF Lies
      <4>2. QED
        BY <2>10, <3>3, <4>1 DEF Apart
    <3>4. CASE o.kind = "large" /\ o.pool = p
      <4>1. o.seg \in 1 .. k /\ o.size <= q.large[p][o.seg] /\ o.off % Align = 0
        BY <3>1, <3>4 DEF Lies, k
      <4>2. o.seg \in 1 .. k + 1 /\ o.seg # k + 1 /\ x.large[p][o.seg] = q.large[p][o.seg]
        BY <2>0, <2>9, <4>1, SMTT(30)
      <4>3. Lies(x.small, x.large, o)
        BY <2>9, <3>4, <4>1, <4>2 DEF Lies
      <4>4. QED
        BY <2>10, <4>2, <4>3 DEF Apart
    <3>5. CASE o.kind = "large" /\ o.pool # p
      <4>1. Lies(x.small, x.large, o)
        BY <2>8, <3>1, <3>2, <3>5 DEF Lies
      <4>2. QED
        BY <2>10, <3>5, <4>1 DEF Apart
    <3>6. QED
      BY <3>2, <3>3, <3>4, <3>5
  <2>14. Lies(x.small, x.large, new)
    <3>1. 0 % Align = 0
      BY AlignedSum, MemoryAssumption
    <3>2. new.seg \in 1 .. Len(x.large[new.pool]) /\ new.size <= x.large[new.pool][new.seg]
      BY <2>0, <2>1, <2>9, <2>10
    <3>3. new.off % Align = 0 /\ new.kind = "large"
      BY <2>10, <3>1
    <3>4. QED
      BY <3>2, <3>3 DEF Lies
  <2>15. AllLie(x.small, x.large, x.objects)
    BY <2>3, <2>13, <2>14 DEF Sound, AllLie
  <2>16. SegmentsFit(x.small, x.large)
    <3>1. ASSUME NEW p2 \in Pools, NEW i \in 1 .. Len(x.large[p2])
          PROVE  x.large[p2][i] + Hdr <= MaxChunk
      <4>1. CASE p2 = p /\ i = k + 1
        BY <2>2, <2>9, <4>1
      <4>2. CASE p2 = p /\ i # k + 1
        <5>1. i \in 1 .. k
          BY <2>0, <2>9, <4>2
        <5>2. QED
          BY <2>9, <4>2, <5>1 DEF Sound, SegmentsFit, k
      <4>3. CASE p2 # p
        <5>1. x.large[p2] = q.large[p2]
          BY <2>8, <4>3
        <5>2. QED
          BY <5>1 DEF Sound, SegmentsFit
      <4>4. QED
        BY <4>1, <4>2, <4>3
    <3>2. QED
      BY <2>3, <3>1 DEF Sound, SegmentsFit
  <2>17. Held(x, p) = Held(q, p) + space
    <3>1. /\ LargeSpaces(q.large[p]) \in Seq(Nat)
          /\ LargeSpaces(x.large[p]) = Append(LargeSpaces(q.large[p]), space)
      BY <2>0, <2>1, <2>8, LargeSpacesOfAppend DEF space
    <3>2. /\ Total(LargeSpaces(x.large[p])) = Total(LargeSpaces(q.large[p])) + space
          /\ Total(LargeSpaces(q.large[p])) \in Nat
      BY <2>2, <3>1, TotalOfAppend
    <3>3. Held(q, p) \in Nat /\ Held(q, p) = Total(SmallSpaces(q.small[p])) + Total(LargeSpaces(q.large[p]))
      BY <2>0, HeldNat DEF Held
    <3>4. Total(SmallSpaces(q.small[p])) \in Nat
      <4>1. [used |-> 0, left |-> 0] \in Segment /\ 0 \in Nat /\ q.small[p] \in Seq(Segment)
        BY <2>0 DEF Segment
      <4>2. SmallSpaces(q.small[p]) \in Seq(Nat)
        BY <4>1, SmallSpacesOfAppend
      <4>3. QED
        BY <4>1, <4>2, TotalOfAppend
    <3>5. QED
      BY <2>2, <2>3, <3>2, <3>3, <3>4 DEF Held
  <2>18. Counted(x)
    <3>1. \A p2 \in Pools \ {p} : x.small[p2] = q.small[p2] /\ x.large[p2] = q.large[p2]
      BY <2>3, <2>8
    <3>2. x.alive = q.alive /\ space \in Nat
      BY <2>2, <2>3
    <3>3. QED
      BY <2>4, <2>5, <2>12, <2>17, <3>1, <3>2, CountedMoved
  <2>19. x \in Descendants(q)
    BY <2>0, <2>3, <2>12, <2>15, <2>16, <2>18 DEF Descendants, Sound
  <2>20. QED
    BY <1>2, <1>4, <2>19
<1>5. QED
  BY <1>3, <1>4

(* The rows of an array, and the arrays themselves, one after the other.    *)
LEMMA ChunksNat ==
  ASSUME NEW perChunk \in Nat \ {0}, NEW rows \in Nat \ {0}
  PROVE  Chunks(perChunk, rows) \in Seq(Nat)
<1> DEFINE k == ((rows - 1) \div perChunk) + 1
           Rest(i) == rows - ((i - 1) * perChunk)
<1>1. k \in Nat /\ (k - 1) * perChunk <= rows - 1
  OBVIOUS
<1> HIDE DEF k
<1>2. ASSUME NEW i \in 1 .. k PROVE Min({perChunk, Rest(i)}) \in Nat
  <2>1. i - 1 \in Nat /\ k - 1 \in Nat /\ i - 1 <= k - 1
    BY <1>1
  <2>2. (i - 1) * perChunk <= (k - 1) * perChunk /\ (i - 1) * perChunk \in Nat
    BY <2>1
  <2>3. Rest(i) \in Nat
    <3>1. (k - 1) * perChunk \in Int
      BY <2>1
    <3> DEFINE below == (k - 1) * perChunk
               here == (i - 1) * perChunk
    <3>2. below <= rows - 1 /\ here <= below /\ here \in Nat /\ below \in Int
      BY <1>1, <2>2, <3>1
    <3> HIDE DEF below, here
    <3>3. rows - here \in Nat
      BY <3>2
    <3>4. QED
      BY <3>3 DEF here
  <2> HIDE DEF Rest
  <2>4. {perChunk, Rest(i)} \in SUBSET Nat /\ {perChunk, Rest(i)} # {}
    BY <2>3
  <2>5. QED
    BY <2>4, MinMember
<1>3. Chunks(perChunk, rows) = [i \in 1 .. k |-> Min({perChunk, Rest(i)})]
  BY DEF Chunks, k
<1> DEFINE Chunk(i) == Min({perChunk, Rest(i)})
<1>4. \A i \in 1 .. k : Chunk(i) \in Nat
  BY <1>2
<1>5. Chunks(perChunk, rows) = [i \in 1 .. k |-> Chunk(i)]
  BY <1>3
<1> HIDE DEF Chunk
<1>6. QED
  BY <1>1, <1>4, <1>5

LEMMA AllocRowsSound ==
  ASSUME NEW q, Sound(q), q.alive, NEW pool \in Pools, NEW rowSize \in Nat, NEW chunks \in Seq(Nat)
  PROVE  AllocRows(q, pool, rowSize, chunks) \in Descendants(q)
<1>a. q \in Descendants(q)
  BY DEF Descendants, Sound
<1> DEFINE n == Len(chunks)
           Step(i, x) == AllocLarge(x, pool, chunks[i] * rowSize)
           step == [p \in (1 .. n) \X Descendants(q) |-> Step(p[1], p[2])]
           Folds(iter) == iter = [s \in SUBSET (1 .. n) |->
                                    IF s = {} THEN q ELSE Step(Max(s), iter[s \ {Max(s)}])]
           iter == CHOOSE it : Folds(it)
<1>0. n \in Nat /\ DOMAIN chunks = 1 .. n
  OBVIOUS
<1>1. \A i \in 1 .. n, x \in Descendants(q) : Step(i, x) \in Descendants(q) /\ step[<<i, x>>] = Step(i, x)
  <2>1. ASSUME NEW i \in 1 .. n, NEW x \in Descendants(q) PROVE Step(i, x) \in Descendants(q)
    <3>1. Sound(x) /\ x.alive
      BY DEF Descendants
    <3>2. chunks[i] \in Nat
      OBVIOUS
    <3>3. chunks[i] * rowSize \in Nat
      BY <3>2
    <3>4. AllocLarge(x, pool, chunks[i] * rowSize) \in Descendants(x)
      BY <3>1, <3>3, AllocLargeSound
    <3>5. QED
      BY <3>4, DescendantsChain
  <2> HIDE DEF Step
  <2>2. QED
    BY <2>1
<1>2. IsBody(n, Descendants(q), q, step)
  BY <1>0, <1>1, <1>a DEF IsBody
<1>3. AllocRows(q, pool, rowSize, chunks) = iter[1 .. n]
  BY <1>0 DEF AllocRows, FoldLeft, MapThenFoldSet
<1> HIDE DEF Step
<1>4. Folds(iter)
  <2>1. PICK it \in [SUBSET (1 .. n) -> Descendants(q)] : IsFold(it, n, Descendants(q), q, step)
    BY <1>2, FoldExists
  <2>2. ASSUME NEW s \in SUBSET (1 .. n), s # {}
        PROVE  Max(s) \in 1 .. n /\ it[s \ {Max(s)}] \in Descendants(q)
    <3>1. s \in SUBSET (0 .. n)
      BY <1>0
    <3>2. Max(s) \in s
      BY <1>0, <2>2, <3>1, MaxMember
    <3>3. QED
      BY <3>2
  <2>3. Folds(it)
    <3> HIDE DEF n, step
    <3>1. \A s \in SUBSET (1 .. n) : s # {} => it[s] = Step(Max(s), it[s \ {Max(s)}])
      BY <1>1, <2>1, <2>2 DEF IsFold
    <3>2. it[{}] = q
      BY <2>1 DEF IsFold
    <3>3. QED
      BY <2>1, <3>1, <3>2
  <2> HIDE DEF Folds
  <2>4. QED
    BY <2>3
<1> HIDE DEF n, step, iter
<1>5. IsFold(iter, n, Descendants(q), q, step)
  <2>1. ASSUME NEW s \in SUBSET (1 .. n), s # {}, iter[s \ {Max(s)}] \in Descendants(q)
        PROVE  iter[s] = step[<<Max(s), iter[s \ {Max(s)}]>>]
    <3>1. s \in SUBSET (0 .. n)
      BY <1>0
    <3>2. Max(s) \in 1 .. n
      BY <1>0, <2>1, <3>1, MaxMember
    <3>3. QED
      BY <1>1, <1>4, <2>1, <3>2
  <2>2. iter[{}] = q
    BY <1>4
  <2>3. QED
    BY <2>1, <2>2 DEF IsFold
<1>6. PICK after : IsLoop(after, n, Descendants(q), q, step) /\ after[n] = iter[1 .. n]
  BY <1>2, <1>5, FoldIsLoop
<1>7. n \in 0 .. n
  BY <1>0
<1>8. QED
  BY <1>3, <1>6, <1>7 DEF IsLoop

(* An array takes an object of row pointers and its rows in chunks.        *)
LEMMA AllocArraySound ==
  ASSUME NEW q, Sound(q), q.alive, NEW p \in Pools, NEW rowSize \in Nat \ {0},
         NEW rows \in Nat \ {0}
  PROVE  AllocArray(q, p, rowSize, rows) \in Descendants(q)
<1> DEFINE max == (MaxChunk - Hdr) \div rowSize
           perChunk == Min({max, rows})
           q0 == [q EXCEPT !.lastRowsPerChunk = perChunk]
           ptrs == AllocSmall(q0, p, rows * PtrSize)
<1>1. q \in Descendants(q) /\ OutOfMemory(q) \in Descendants(q)
  BY OutOfMemorySound DEF Descendants, Sound
<1>2. AllocArray(q, p, rowSize, rows) =
        IF q.st = "error" THEN q
        ELSE IF max <= 0 THEN OutOfMemory(q)
        ELSE AllocRows(ptrs, p, rowSize, Chunks(perChunk, rows))
  BY DEF AllocArray
<1>3. max \in Nat
  <2>1. MaxChunk - Hdr \in Nat
    BY MemoryAssumption
  <2>2. QED
    BY <2>1
<1> HIDE DEF max
<1>4. CASE q.st = "error" \/ max <= 0
  <2> HIDE DEF ptrs, perChunk
  <2>1. QED
    BY <1>1, <1>2, <1>4
<1>5. CASE ~(q.st = "error") /\ ~(max <= 0)
  <2>1. perChunk \in Nat \ {0}
    <3>1. {max, rows} \in SUBSET Nat /\ {max, rows} # {}
      BY <1>3
    <3>2. perChunk \in {max, rows}
      BY <3>1, MinMember
    <3>3. max \in Nat \ {0}
      BY <1>3, <1>5
    <3> HIDE DEF perChunk
    <3>4. QED
      BY <3>2, <3>3
  <2> HIDE DEF perChunk
  <2>2. q0 \in Descendants(q)
    <3>1. q \in Managers
      BY DEF Sound
    <3>2. /\ q0 \in Managers /\ q0.alive = q.alive /\ q0.list = q.list /\ q0.small = q.small
          /\ q0.large = q.large /\ q0.objects = q.objects /\ q0.total = q.total
          /\ q0.heap = q.heap
      BY <2>1, <3>1 DEF Managers
    <3> HIDE DEF q0
    <3>3. Sound(q0)
      BY <3>2 DEF Sound, Counted, Held
    <3>4. QED
      BY <3>2, <3>3 DEF Descendants
  <2> HIDE DEF q0
  <2>3. ptrs \in Descendants(q)
    <3>1. Sound(q0) /\ q0.alive /\ rows * PtrSize \in Nat
      <4>1. Sound(q0) /\ q0.alive
        BY <2>2, Zenon DEF Descendants
      <4>2. rows * PtrSize \in Nat
        BY SizesAssumption
      <4>3. QED
        BY <4>1, <4>2
    <3>2. ptrs \in Descendants(q0)
      BY <3>1, AllocSmallSound
    <3>3. QED
      BY <2>2, <3>2, DescendantsChain
  <2> HIDE DEF ptrs
  <2>4. Chunks(perChunk, rows) \in Seq(Nat)
    BY <2>1, ChunksNat
  <2>5. Sound(ptrs) /\ ptrs.alive /\ rowSize \in Nat
    BY <2>3 DEF Descendants
  <2>6. AllocRows(ptrs, p, rowSize, Chunks(perChunk, rows)) \in Descendants(ptrs)
    BY <2>4, <2>5, AllocRowsSound
  <2>7. QED
    BY <1>2, <1>5, <2>3, <2>6, DescendantsChain
<1>6. QED
  BY <1>4, <1>5

(* realize_virt_arrays: the buffers of some arrays that are to be realized. *)
LEMMA AllocBuffersSound ==
  ASSUME NEW q, Sound(q), q.alive, NEW todo \in Seq(Arrays), NEW h \in Heights
  PROVE  AllocBuffers(q, todo, h) \in Descendants(q)
<1>a. q \in Descendants(q)
  BY DEF Descendants, Sound
<1> DEFINE n == Len(todo)
           Step(i, x) == AllocArray(x, "image", RowSize[todo[i]], InMem(todo[i], h))
           step == [p \in (1 .. n) \X Descendants(q) |-> Step(p[1], p[2])]
           Folds(iter) == iter = [s \in SUBSET (1 .. n) |->
                                    IF s = {} THEN q ELSE Step(Max(s), iter[s \ {Max(s)}])]
           iter == CHOOSE it : Folds(it)
<1>0. n \in Nat /\ DOMAIN todo = 1 .. n
  OBVIOUS
<1>1. \A i \in 1 .. n, x \in Descendants(q) : Step(i, x) \in Descendants(q) /\ step[<<i, x>>] = Step(i, x)
  <2>1. ASSUME NEW i \in 1 .. n, NEW x \in Descendants(q) PROVE Step(i, x) \in Descendants(q)
    <3>1. Sound(x) /\ x.alive /\ "image" \in Pools
      BY DEF Descendants, Pools
    <3>2. todo[i] \in Arrays
      OBVIOUS
    <3>3. RowSize[todo[i]] \in Nat \ {0} /\ InMem(todo[i], h) \in Nat \ {0}
      BY <3>2, RoomForAccess, MemoryAssumption
    <3>4. Step(i, x) \in Descendants(x)
      BY <3>1, <3>3, AllocArraySound
    <3> HIDE DEF Step
    <3>5. QED
      BY <3>4, DescendantsChain
  <2> HIDE DEF Step
  <2>2. QED
    BY <2>1
<1>2. IsBody(n, Descendants(q), q, step)
  BY <1>0, <1>1, <1>a DEF IsBody
<1>3. AllocBuffers(q, todo, h) = iter[1 .. n]
  BY <1>0 DEF AllocBuffers, FoldLeft, MapThenFoldSet
<1> HIDE DEF Step
<1>4. Folds(iter)
  <2>1. PICK it \in [SUBSET (1 .. n) -> Descendants(q)] : IsFold(it, n, Descendants(q), q, step)
    BY <1>2, FoldExists
  <2>2. ASSUME NEW s \in SUBSET (1 .. n), s # {}
        PROVE  Max(s) \in 1 .. n /\ it[s \ {Max(s)}] \in Descendants(q)
    <3>1. s \in SUBSET (0 .. n)
      BY <1>0
    <3>2. Max(s) \in s
      BY <1>0, <2>2, <3>1, MaxMember
    <3>3. QED
      BY <3>2
  <2>3. Folds(it)
    <3> HIDE DEF n, step
    <3>1. \A s \in SUBSET (1 .. n) : s # {} => it[s] = Step(Max(s), it[s \ {Max(s)}])
      BY <1>1, <2>1, <2>2 DEF IsFold
    <3>2. it[{}] = q
      BY <2>1 DEF IsFold
    <3>3. QED
      BY <2>1, <3>1, <3>2
  <2> HIDE DEF Folds
  <2>4. QED
    BY <2>3
<1> HIDE DEF n, step, iter
<1>5. IsFold(iter, n, Descendants(q), q, step)
  <2>1. ASSUME NEW s \in SUBSET (1 .. n), s # {}, iter[s \ {Max(s)}] \in Descendants(q)
        PROVE  iter[s] = step[<<Max(s), iter[s \ {Max(s)}]>>]
    <3>1. s \in SUBSET (0 .. n)
      BY <1>0
    <3>2. Max(s) \in 1 .. n
      BY <1>0, <2>1, <3>1, MaxMember
    <3>3. QED
      BY <1>1, <1>4, <2>1, <3>2
  <2>2. iter[{}] = q
    BY <1>4
  <2>3. QED
    BY <2>1, <2>2 DEF IsFold
<1>6. PICK after : IsLoop(after, n, Descendants(q), q, step) /\ after[n] = iter[1 .. n]
  BY <1>2, <1>5, FoldIsLoop
<1>7. n \in 0 .. n
  BY <1>0
<1>8. QED
  BY <1>3, <1>6, <1>7 DEF IsLoop

-----------------------------------------------------------------------------
(* Giving back a pool.                                                     *)
LEMMA HeldOfNone ==
  ASSUME NEW q, NEW p, q.small[p] = <<>>, q.large[p] = <<>>
  PROVE  Held(q, p) = 0
<1> DEFINE none == <<>>
<1>1. SmallSpaces(none) = <<>> /\ LargeSpaces(none) = <<>>
  <2>1. DOMAIN none = {}
    OBVIOUS
  <2>2. \A f, g : f = [i \in {} |-> f[i]] /\ g = [i \in {} |-> g[i]] => f = g
    OBVIOUS
  <2>3. SmallSpaces(none) = [i \in {} |-> SmallSpaces(none)[i]]
    BY <2>1 DEF SmallSpaces
  <2>4. LargeSpaces(none) = [i \in {} |-> LargeSpaces(none)[i]]
    BY <2>1 DEF LargeSpaces
  <2>5. <<>> = [i \in {} |-> none[i]]
    OBVIOUS
  <2>6. QED
    BY <2>2, <2>3, <2>4, <2>5
<1>2. Held(q, p) = Total(SmallSpaces(none)) + Total(LargeSpaces(none))
  BY DEF Held
<1>3. Held(q, p) = Total(<<>>) + Total(<<>>)
  BY <1>1, <1>2
<1> HIDE DEF none
<1>4. QED
  BY <1>3, TotalOfEmpty

(* What is left of a manager when the segments of p are gone.               *)
LEMMA FreePoolSound ==
  ASSUME NEW q, Sound(q), NEW p \in Pools
  PROVE  /\ Sound(FreePool(q, p)) /\ FreePool(q, p).alive = q.alive /\ FreePool(q, p).st = q.st
         /\ FreePool(q, p).small[p] = <<>> /\ FreePool(q, p).large[p] = <<>>
         /\ \A p2 \in Pools \ {p} : /\ FreePool(q, p).small[p2] = q.small[p2]
                                    /\ FreePool(q, p).large[p2] = q.large[p2]
<1> DEFINE r == FreePool(q, p)
           held == Held(q, p)
<1>0. /\ q \in Managers /\ q.alive \in BOOLEAN /\ q.total \in Nat /\ q.heap \in Nat
      /\ q.small \in [Pools -> Seq(Segment)] /\ q.large \in [Pools -> Seq(Nat)]
      /\ q.objects \in SUBSET Objects /\ q.list \in Seq(Arrays) /\ MgrSize \in Nat
  BY ManagerParts, SizesAssumption DEF Sound
<1>1. held \in Nat /\ Held(q, "permanent") \in Nat /\ Held(q, "image") \in Nat
  BY <1>0, HeldNat DEF Pools
<1>2. /\ r.alive = q.alive /\ r.st = q.st /\ r.lastRowsPerChunk = q.lastRowsPerChunk
      /\ r.objects = {o \in q.objects : o.pool # p}
      /\ r.list = IF p = "image" THEN <<>> ELSE q.list
  BY <1>0 DEF FreePool, Managers
<1>3. r.heap = q.heap + held
  BY <1>0 DEF FreePool, Managers
<1>4. r.total = q.total - held
  BY <1>0 DEF FreePool, Managers
<1>5. r.small = [q.small EXCEPT ![p] = <<>>]
  BY <1>0 DEF FreePool, Managers
<1>6. r.large = [q.large EXCEPT ![p] = <<>>]
  BY <1>0 DEF FreePool, Managers
<1>7. r = [q EXCEPT !.small = r.small, !.large = r.large, !.heap = r.heap, !.total = r.total,
                    !.objects = r.objects, !.list = r.list]
  BY <1>0, <1>2, <1>3, <1>4, <1>5, <1>6 DEF FreePool, Managers
<1> HIDE DEF r
<1>8. /\ r.small[p] = <<>> /\ r.large[p] = <<>>
      /\ \A p2 \in Pools \ {p} : r.small[p2] = q.small[p2] /\ r.large[p2] = q.large[p2]
  BY <1>0, <1>5, <1>6
<1>9. r.small \in [Pools -> Seq(Segment)] /\ r.large \in [Pools -> Seq(Nat)]
  <2>1. <<>> \in Seq(Segment) /\ <<>> \in Seq(Nat)
    OBVIOUS
  <2>2. QED
    BY <1>0, <1>5, <1>6, <2>1
<1>10. /\ q.total = (IF q.alive THEN MgrSize ELSE 0) + Held(q, "permanent") + Held(q, "image")
       /\ q.total + q.heap \in Heaps
  BY DEF Sound, Counted
<1>11. /\ Held(r, p) = 0 /\ \A p2 \in Pools \ {p} : Held(r, p2) = Held(q, p2)
  BY <1>8, HeldOfNone DEF Held
<1>12. Held(r, "permanent") + Held(r, "image") = Held(q, "permanent") + Held(q, "image") - held
  <2>1. CASE p = "permanent"
    BY <1>1, <1>11, <2>1 DEF Pools
  <2>2. CASE p = "image"
    BY <1>1, <1>11, <2>2 DEF Pools
  <2>3. QED
    BY <2>1, <2>2 DEF Pools
<1>13. held <= Held(q, "permanent") + Held(q, "image")
  BY <1>1 DEF Pools
<1>14. /\ Held(r, "permanent") \in Nat /\ Held(r, "image") \in Nat
  <2>1. CASE p = "permanent"
    BY <1>1, <1>11, <2>1 DEF Pools
  <2>2. CASE p = "image"
    BY <1>1, <1>11, <2>2 DEF Pools
  <2>3. QED
    BY <2>1, <2>2 DEF Pools
<1> DEFINE own == IF q.alive THEN MgrSize ELSE 0
<1>15. own \in Nat /\ own = (IF r.alive THEN MgrSize ELSE 0) /\ q.total = own + Held(q, "permanent") + Held(q, "image")
  BY <1>0, <1>2, <1>10
<1> HIDE DEF own, held
<1>16. r.total = own + Held(r, "permanent") + Held(r, "image") /\ r.total \in Nat
  <2>1. own \in Nat /\ q.total = own + Held(q, "permanent") + Held(q, "image")
    BY <1>15
  <2>2. r.total = own + Held(r, "permanent") + Held(r, "image")
    BY <1>1, <1>4, <1>12, <1>14, <2>1
  <2>3. QED
    BY <1>14, <2>1, <2>2
<1>17. r.heap \in Nat /\ r.total + r.heap = q.total + q.heap
  BY <1>0, <1>1, <1>3, <1>4, SMTT(30)
<1>18. r.list \in Seq(Arrays)
  <2>1. <<>> \in Seq(Arrays)
    OBVIOUS
  <2>2. QED
    BY <1>0, <1>2, <2>1
<1>19. r.objects \in SUBSET Objects
  BY <1>0, <1>2
<1>20. r \in Managers
  BY <1>0, <1>7, <1>9, <1>16, <1>17, <1>18, <1>19 DEF Managers
<1>21. AllLie(r.small, r.large, r.objects)
  <2>1. ASSUME NEW o \in r.objects PROVE Lies(r.small, r.large, o)
    <3>1. Lies(q.small, q.large, o) /\ o.pool \in Pools \ {p}
      BY <1>0, <1>2 DEF Sound, AllLie, Objects
    <3>2. r.small[o.pool] = q.small[o.pool] /\ r.large[o.pool] = q.large[o.pool]
      BY <1>8, <3>1
    <3>3. QED
      BY <3>1, <3>2 DEF Lies
  <2>2. QED
    BY <1>2, <2>1 DEF Sound, AllLie
<1>22. SegmentsFit(r.small, r.large)
  <2>1. ASSUME NEW p2 \in Pools
        PROVE  /\ \A i \in 1 .. Len(r.small[p2]) :
                     /\ r.small[p2][i].used % Align = 0
                     /\ r.small[p2][i].used + r.small[p2][i].left + Hdr <= MaxChunk
               /\ \A i \in 1 .. Len(r.large[p2]) : r.large[p2][i] + Hdr <= MaxChunk
    <3>1. CASE p2 = p
      BY <1>8, <3>1
    <3>2. CASE p2 # p
      <4>1. r.small[p2] = q.small[p2] /\ r.large[p2] = q.large[p2]
        BY <1>8, <3>2
      <4>2. QED
        BY <4>1 DEF Sound, SegmentsFit
    <3>3. QED
      BY <3>1, <3>2
  <2>2. QED
    BY <2>1 DEF SegmentsFit
<1>23. Counted(r)
  BY <1>10, <1>15, <1>16, <1>17 DEF Counted
<1>24. ~r.alive => \A p2 \in Pools : r.small[p2] = <<>> /\ r.large[p2] = <<>>
  BY <1>2, <1>8 DEF Sound
<1>25. Sound(r)
  BY <1>20, <1>21, <1>22, <1>23, <1>24 DEF Sound
<1>26. QED
  BY <1>2, <1>8, <1>25 DEF r

-----------------------------------------------------------------------------
(* The invariant of the manager: between two calls it is sound and knows   *)
(* every virtual array that is requested or has a backing store.            *)
Listed == \A a \in Arrays : requested[a] \/ open[a] => a \in ToSet(m.list)

MemorySound == Sound(m) /\ m.st = "ok" /\ Listed

LEMMA InitMemorySound == MemInit => MemorySound
<1> SUFFICES ASSUME Init, NEW heap \in Heaps, m = NoMgr(heap) PROVE MemorySound
  BY DEF MemInit
<1>1. /\ m.alive = FALSE /\ m.small = NoPools /\ m.large = NoPools /\ m.total = 0
      /\ m.heap = heap /\ m.list = <<>> /\ m.objects = {} /\ m.st = "ok"
  BY DEF NoMgr
<1>2. \A p \in Pools : m.small[p] = <<>> /\ m.large[p] = <<>>
  BY <1>1 DEF NoPools
<1>3. heap \in Nat
  BY SizesAssumption
<1>4. m \in Managers
  <2>1. NoPools \in [Pools -> Seq(Segment)] /\ NoPools \in [Pools -> Seq(Nat)]
    BY DEF NoPools
  <2>2. <<>> \in Seq(Arrays)
    OBVIOUS
  <2>3. m = [alive |-> FALSE, small |-> NoPools, large |-> NoPools, total |-> 0, heap |-> heap,
             lastRowsPerChunk |-> 0, list |-> <<>>, objects |-> {}, st |-> "ok"]
    BY DEF NoMgr
  <2>4. QED
    BY <1>3, <2>1, <2>2, <2>3 DEF Managers
<1>5. Counted(m)
  <2>1. Held(m, "permanent") = 0 /\ Held(m, "image") = 0
    BY <1>2, HeldOfNone DEF Pools
  <2>2. QED
    BY <1>1, <1>3, <2>1 DEF Counted
<1>6. AllLie(m.small, m.large, m.objects) /\ SegmentsFit(m.small, m.large)
  BY <1>1, <1>2 DEF AllLie, SegmentsFit
<1>7. Listed
  BY DEF Init, Listed
<1>8. QED
  BY <1>1, <1>2, <1>4, <1>5, <1>6, <1>7 DEF MemorySound, Sound

(* A call keeps the pools sound if the operator it applies does.            *)
LEMMA BecomesSound ==
  ASSUME NEW q, Sound(q), m' = [q EXCEPT !.st = "ok"]
  PROVE  Sound(m') /\ m'.st = "ok" /\ m'.list = q.list
<1>1. q \in Managers
  BY DEF Sound
<1>2. Sound([q EXCEPT !.st = "ok"]) /\ [q EXCEPT !.st = "ok"].list = q.list
  BY SoundWithStatus
<1>3. [q EXCEPT !.st = "ok"].st = "ok"
  BY <1>1 DEF Managers
<1>4. QED
  BY <1>2, <1>3

LEMMA AllocationSound ==
  ASSUME MemorySound, NEW q \in Descendants(m), m' = [q EXCEPT !.st = "ok"],
         requested' = requested, open' = open
  PROVE  MemorySound'
<1>1. Sound(q) /\ q.list = m.list
  BY DEF Descendants
<1>2. Sound(m') /\ m'.st = "ok" /\ m'.list = m.list
  BY <1>1, BecomesSound
<1>3. Listed'
  BY <1>2 DEF MemorySound, Listed
<1>4. Sound(m)'
  BY <1>2 DEF Sound, Counted
<1>5. QED
  BY <1>2, <1>3, <1>4 DEF MemorySound

LEMMA CreateSound == MemorySound /\ Create => MemorySound'
<1> SUFFICES ASSUME MemorySound, Create PROVE MemorySound'
  OBVIOUS
<1> DEFINE r == [m EXCEPT !.alive = TRUE, !.heap = @ - MgrSize, !.total = MgrSize]
<1>0. /\ Sound(m) /\ m \in Managers /\ m.heap \in Nat /\ m.heap >= MgrSize /\ m.alive = FALSE
      /\ MgrSize \in Nat /\ m.st = "ok" /\ m.total \in Nat
  BY ManagerParts, SizesAssumption DEF MemorySound, Sound, Create
<1>1. /\ r.alive = TRUE /\ r.small = m.small /\ r.large = m.large /\ r.objects = m.objects
      /\ r.list = m.list /\ r.st = m.st /\ r.total = MgrSize
  BY <1>0 DEF Managers
<1>2. r.heap = m.heap - MgrSize
  BY <1>0 DEF Managers
<1>3. r.heap \in Nat
  <2> HIDE DEF r
  <2>1. QED
    BY <1>0, <1>2
<1>4. r \in Managers
  <2>1. r = [m EXCEPT !.alive = TRUE, !.heap = r.heap, !.total = MgrSize]
    BY <1>0, <1>2 DEF Managers
  <2> HIDE DEF r
  <2>2. QED
    BY <1>0, <1>3, <2>1 DEF Managers
<1>5. m' = r /\ UNCHANGED <<requested, open>>
  BY DEF Create, vars
<1> HIDE DEF r
<1>6. \A p \in Pools : r.small[p] = <<>> /\ r.large[p] = <<>> /\ m.small[p] = <<>> /\ m.large[p] = <<>>
  BY <1>0, <1>1 DEF Sound
<1>7. /\ Held(r, "permanent") = 0 /\ Held(r, "image") = 0
      /\ Held(m, "permanent") = 0 /\ Held(m, "image") = 0
  BY <1>6, HeldOfNone DEF Pools
<1>8. m.total = 0 /\ m.total + m.heap \in Heaps
  BY <1>0, <1>7 DEF Sound, Counted
<1>9. Counted(r)
  <2>1. r.total + r.heap = m.total + m.heap
    BY <1>0, <1>1, <1>2, <1>8
  <2>2. r.total = MgrSize + Held(r, "permanent") + Held(r, "image")
    BY <1>0, <1>1, <1>7
  <2>3. QED
    BY <1>1, <1>8, <2>1, <2>2 DEF Counted
<1>10. Sound(r)
  <2>1. /\ AllLie(r.small, r.large, r.objects) /\ SegmentsFit(r.small, r.large)
    BY <1>0, <1>1 DEF Sound
  <2>2. QED
    BY <1>1, <1>4, <1>9, <2>1 DEF Sound
<1>11. Sound(m)' /\ m'.st = "ok" /\ m'.list = m.list
  BY <1>0, <1>1, <1>5, <1>10 DEF Sound, Counted
<1>12. Listed'
  BY <1>5, <1>11 DEF MemorySound, Listed
<1>13. QED
  BY <1>11, <1>12 DEF MemorySound

(* The array is put in front of the list of those to be realized.          *)
LEMMA RequestSound ==
  ASSUME MemorySound, NEW a \in Arrays, Request(a)
  PROVE  MemorySound'
<1> DEFINE q == AllocSmall(m, "image", BlockSize)
<1>1. Sound(m) /\ m.alive /\ "image" \in Pools /\ BlockSize \in Nat
  BY SizesAssumption DEF MemorySound, Request, Usable, Pools
<1>2. q \in Descendants(m)
  BY <1>1, AllocSmallSound
<1>3. CASE q.st = "error"
  <2>1. m' = [q EXCEPT !.st = "ok"] /\ requested' = requested /\ open' = open
    BY <1>3 DEF Request, Becomes
  <2> HIDE DEF q
  <2>2. QED
    BY <1>2, <2>1, AllocationSound
<1>4. CASE ~(q.st = "error")
  <2>1. m' = [q EXCEPT !.list = <<a>> \o @] /\ RequestVirt(a)
    BY <1>4 DEF Request
  <2> HIDE DEF q
  <2>2. /\ q \in Managers /\ Sound(q) /\ q.list = m.list /\ q.list \in Seq(Arrays)
        /\ q.st \in {"ok", "error"}
    BY <1>2, ManagerParts DEF Descendants
  <2>3. /\ m'.alive = q.alive /\ m'.small = q.small /\ m'.large = q.large
        /\ m'.objects = q.objects /\ m'.total = q.total /\ m'.heap = q.heap
        /\ m'.st = q.st
    BY <2>1, <2>2 DEF Managers
  <2>4. m'.list = <<a>> \o q.list
    BY <2>1, <2>2 DEF Managers
  <2>5. m' \in Managers
    <3>1. <<a>> \o q.list \in Seq(Arrays)
      BY <2>2
    <3> DEFINE longer == <<a>> \o q.list
    <3>2. m' = [q EXCEPT !.list = longer]
      BY <2>1
    <3> HIDE DEF longer
    <3>3. QED
      BY <2>2, <3>1, <3>2 DEF longer, Managers
  <2>6. Sound(m')
    BY <2>2, <2>3, <2>5 DEF Sound, Counted, Held
  <2>7. Listed'
    <3>1. \A b \in Arrays : requested'[b] \/ open'[b] => b = a \/ requested[b] \/ open[b]
      BY <2>1 DEF RequestVirt
    <3>2. /\ \A b \in ToSet(m.list) : b \in ToSet(m'.list)
          /\ a \in ToSet(m'.list)
      <4> DEFINE list == q.list
                 longer == <<a>> \o list
      <4>1. list \in Seq(Arrays) /\ m'.list = longer /\ m.list = list
        BY <2>2, <2>4
      <4> HIDE DEF list
      <4>2. /\ Len(longer) = Len(list) + 1 /\ longer[1] = a
            /\ \A i \in 1 .. Len(list) : longer[i + 1] = list[i]
            /\ DOMAIN longer = 1 .. Len(longer) /\ DOMAIN list = 1 .. Len(list) /\ Len(list) \in Nat
        BY <4>1
      <4> HIDE DEF longer
      <4>3. 1 \in DOMAIN longer /\ \A i \in DOMAIN list : i + 1 \in DOMAIN longer
        BY <4>2
      <4>4. QED
        BY <4>1, <4>2, <4>3, ZenonT(40) DEF ToSet
    <3>3. QED
      BY <3>1, <3>2 DEF MemorySound, Listed
  <2>8. m'.st = "ok"
    BY <1>4, <2>2, <2>3 DEF q
  <2>9. Sound(m)'
    BY <2>6 DEF Sound, Counted
  <2>10. QED
    BY <2>7, <2>8, <2>9 DEF MemorySound
<1>5. QED
  BY <1>3, <1>4

(* The buffers are got for listed arrays only, as many as there is room for. *)
LEMMA RealizeSound ==
  ASSUME MemorySound, NEW avail, NEW storeFails, RealizeVirtArrays(avail, storeFails)
  PROVE  MemorySound'
<1> DEFINE todo == Kept(m.list, Unrealized)
           h == MaxMinHeights(avail)
           NoStore(k) == storeFails /\ ~FitsIn(todo[k], h)
           bad == {k \in DOMAIN todo : NoStore(k) \/ Buffers(todo, k, h).st = "error"}
           k == Min(bad)
           q == IF NoStore(k) THEN Buffers(todo, k - 1, h) ELSE Buffers(todo, k, h)
<1>1. /\ Usable
      /\ IF bad = {} THEN Becomes(Buffers(todo, Len(todo), h)) /\ Realize(h)
         ELSE /\ m' = [q EXCEPT !.st = "ok"]
              /\ RealizeFails(h, {todo[i] : i \in 1 .. k - 1}, todo[k],
                              ~NoStore(k) /\ ~FitsIn(todo[k], h))
  BY DEF RealizeVirtArrays
<1>2. Sound(m) /\ m.alive /\ m.list \in Seq(Arrays)
  BY <1>1, ManagerParts DEF MemorySound, Usable, Sound
<1>3. todo \in Seq(Arrays)
  BY <1>2, KeptIsList
<1>4. h \in Heights
  <2>1. CASE bad = {}
    BY <1>1, <2>1 DEF Realize
  <2>2. CASE bad # {}
    BY <1>1, <2>2 DEF RealizeFails
  <2>3. QED
    BY <2>1, <2>2
<1> HIDE DEF todo, h
<1>5. ASSUME NEW i \in 0 .. Len(todo) PROVE Buffers(todo, i, h) \in Descendants(m)
  <2>1. SubSeq(todo, 1, i) \in Seq(Arrays)
    BY <1>3
  <2>2. QED
    BY <1>2, <1>4, <2>1, AllocBuffersSound DEF Buffers
<1>6. \E r \in Descendants(m) : m' = [r EXCEPT !.st = "ok"]
  <2>1. CASE bad = {}
    <3>1. Len(todo) \in 0 .. Len(todo)
      BY <1>3
    <3>2. m' = [Buffers(todo, Len(todo), h) EXCEPT !.st = "ok"]
      BY <1>1, <2>1 DEF Becomes
    <3>3. QED
      BY <1>5, <3>1, <3>2
  <2>2. CASE bad # {}
    <3>1. bad \in SUBSET (1 .. Len(todo))
      BY <1>3
    <3>2. bad \in SUBSET Nat
      BY <3>1
    <3> DEFINE first == Min(bad)
    <3>3. first \in 1 .. Len(todo)
      <4> HIDE DEF bad
      <4>1. QED
        BY <2>2, <3>1, <3>2, MinMember
    <3>4. k = first
      OBVIOUS
    <3>5. Len(todo) \in Nat
      BY <1>3
    <3> HIDE DEF k, first
    <3>6. k \in 0 .. Len(todo) /\ k - 1 \in 0 .. Len(todo)
      BY <3>3, <3>4, <3>5
    <3>7. q \in Descendants(m)
      BY <1>5, <3>6
    <3>8. m' = [q EXCEPT !.st = "ok"]
      BY <1>1, <2>2 DEF k
    <3> HIDE DEF q
    <3>9. QED
      BY <3>7, <3>8
  <2>3. QED
    BY <2>1, <2>2
<1>7. PICK r \in Descendants(m) : m' = [r EXCEPT !.st = "ok"]
  BY <1>6
<1>8. Sound(m') /\ m'.st = "ok" /\ m'.list = m.list
  BY <1>7, BecomesSound DEF Descendants
<1>9. \A a \in Arrays : /\ requested'[a] = requested[a]
                        /\ open'[a] => open[a] \/ requested[a]
  <2>1. CASE bad = {}
    <3>1. Realize(h)
      BY <1>1, <2>1
    <3>2. QED
      BY <3>1 DEF Realize, Realized, Unrealized
  <2>2. CASE bad # {}
    <3>1. PICK done, b, opened : RealizeFails(h, done, b, opened)
      BY <1>1, <2>2
    <3>2. QED
      BY <3>1 DEF RealizeFails, Realized, Unrealized
  <2>3. QED
    BY <2>1, <2>2
<1>10. Listed'
  BY <1>8, <1>9 DEF MemorySound, Listed
<1>11. Sound(m)'
  BY <1>8 DEF Sound, Counted
<1>12. QED
  BY <1>8, <1>10, <1>11 DEF MemorySound

LEMMA AbortImageSound == MemorySound /\ AbortImage => MemorySound'
<1> SUFFICES ASSUME MemorySound, AbortImage PROVE MemorySound'
  OBVIOUS
<1>1. Sound(m) /\ m.st = "ok" /\ "image" \in Pools /\ m' = FreePool(m, "image") /\ FreeImage
  BY DEF MemorySound, AbortImage, Pools
<1>2. Sound(m') /\ m'.st = "ok"
  BY <1>1, FreePoolSound
<1>3. Sound(m)'
  BY <1>2 DEF Sound, Counted
<1>4. Listed'
  BY <1>1 DEF FreeImage, Listed
<1>5. QED
  BY <1>2, <1>3, <1>4 DEF MemorySound

LEMMA SelfDestructSound == MemorySound /\ SelfDestruct => MemorySound'
<1> SUFFICES ASSUME MemorySound, SelfDestruct PROVE MemorySound'
  OBVIOUS
<1> DEFINE i == FreePool(m, "image")
           q == FreePool(i, "permanent")
<1>1. /\ Sound(m) /\ m.st = "ok" /\ m.alive /\ m \in Managers /\ FreeImage
      /\ m' = [q EXCEPT !.alive = FALSE, !.heap = @ + MgrSize, !.total = @ - MgrSize]
  BY DEF MemorySound, Sound, SelfDestruct
<1>2. /\ Sound(i) /\ i.alive = m.alive /\ i.st = m.st
      /\ i.small["image"] = <<>> /\ i.large["image"] = <<>>
  BY <1>1, FreePoolSound DEF Pools
<1> HIDE DEF i
<1>3. /\ Sound(q) /\ q.alive = m.alive /\ q.st = m.st
      /\ \A p \in Pools : q.small[p] = <<>> /\ q.large[p] = <<>>
  BY <1>2, FreePoolSound DEF Pools
<1> HIDE DEF q
<1>4. /\ q \in Managers /\ q.alive = TRUE /\ q.st = "ok" /\ q.total \in Nat /\ q.heap \in Nat
      /\ MgrSize \in Nat
  BY <1>1, <1>3, ManagerParts, SizesAssumption DEF Sound
<1>5. /\ m'.alive = FALSE /\ m'.small = q.small /\ m'.large = q.large /\ m'.objects = q.objects
      /\ m'.st = "ok"
  BY <1>1, <1>4 DEF Managers
<1>6. m'.heap = q.heap + MgrSize
  BY <1>1, <1>4 DEF Managers
<1>7. m'.total = q.total - MgrSize
  BY <1>1, <1>4 DEF Managers
<1>8. /\ Held(q, "permanent") = 0 /\ Held(q, "image") = 0
      /\ Held(m', "permanent") = 0 /\ Held(m', "image") = 0
  BY <1>3, <1>5, HeldOfNone DEF Pools
<1>9. q.total = MgrSize /\ q.total + q.heap \in Heaps
  BY <1>3, <1>4, <1>8 DEF Sound, Counted
<1>10. m'.total = 0 /\ m'.heap \in Nat /\ m'.total + m'.heap = q.total + q.heap
  BY <1>4, <1>6, <1>7, <1>9
<1>11. Counted(m')
  BY <1>5, <1>8, <1>9, <1>10 DEF Counted
<1>12. m' \in Managers
  <2>1. m' = [q EXCEPT !.alive = FALSE, !.heap = m'.heap, !.total = m'.total]
    BY <1>1, <1>4, <1>6, <1>7 DEF Managers
  <2> DEFINE heap == m'.heap
             total == m'.total
  <2>2. heap \in Nat /\ total \in Nat /\ m' = [q EXCEPT !.alive = FALSE, !.heap = heap, !.total = total]
    BY <1>10, <2>1
  <2> HIDE DEF heap, total
  <2>3. QED
    BY <1>4, <2>2 DEF Managers
<1>13. Sound(m')
  BY <1>3, <1>5, <1>11, <1>12 DEF Sound
<1>14. Sound(m)'
  BY <1>13 DEF Sound, Counted
<1>15. Listed'
  BY <1>1 DEF FreeImage, Listed
<1>16. QED
  BY <1>5, <1>14, <1>15 DEF MemorySound

LEMMA MemNextMemorySound == MemorySound /\ [MemNext]_memVars => MemorySound'
<1> SUFFICES ASSUME MemorySound, [MemNext]_memVars PROVE MemorySound'
  OBVIOUS
<1>0. /\ Sound(m) /\ MaxAccess \in [Arrays -> Nat \ {0}]
      /\ SmallSizes \subseteq Nat \ {0} /\ StripRows \subseteq Nat \ {0}
  BY SizesAssumption DEF MemorySound
<1>1. ASSUME m' = m, requested' = requested, open' = open PROVE MemorySound'
  BY <1>1 DEF MemorySound, Listed, Sound, Counted
<1>2. CASE UNCHANGED memVars
  BY <1>1, <1>2 DEF memVars, vars
<1>3. CASE Create
  BY <1>3, CreateSound
<1>4. CASE AbortImage
  BY <1>4, AbortImageSound
<1>5. CASE SelfDestruct
  BY <1>5, SelfDestructSound
<1>6. ASSUME NEW p \in Pools, NEW size \in SmallSizes, SmallObject(p, size) PROVE MemorySound'
  <2>1. m.alive /\ size \in Nat
    BY <1>0, <1>6 DEF SmallObject, MayAsk, Usable
  <2>2. AllocSmall(m, p, size) \in Descendants(m)
    BY <1>0, <2>1, AllocSmallSound
  <2>3. /\ m' = [AllocSmall(m, p, size) EXCEPT !.st = "ok"]
        /\ requested' = requested /\ open' = open
    BY <1>6 DEF SmallObject, Becomes
  <2>4. QED
    BY <2>2, <2>3, AllocationSound
<1>7. ASSUME NEW p \in Pools, NEW size \in SmallSizes, NEW rows \in StripRows,
             StripBuffer(p, size, rows)
      PROVE  MemorySound'
  <2>1. m.alive /\ size \in Nat \ {0} /\ rows \in Nat \ {0}
    BY <1>0, <1>7 DEF StripBuffer, MayAsk, Usable
  <2>2. AllocArray(m, p, size, rows) \in Descendants(m)
    BY <1>0, <2>1, AllocArraySound
  <2>3. /\ m' = [AllocArray(m, p, size, rows) EXCEPT !.st = "ok"]
        /\ requested' = requested /\ open' = open
    BY <1>7 DEF StripBuffer, Becomes
  <2>4. QED
    BY <2>2, <2>3, AllocationSound
<1>8. ASSUME NEW avail, NEW storeFails, RealizeVirtArrays(avail, storeFails) PROVE MemorySound'
  BY <1>8, RealizeSound
<1>9. ASSUME NEW a \in Arrays, Request(a) PROVE MemorySound'
  BY <1>9, RequestSound
<1>10. ASSUME NEW a \in Arrays, NEW s, NEW n, NEW w, AccessRows(a, s, n, w) PROVE MemorySound'
  <2>1. m' = m /\ requested' = requested /\ open' = open
    BY <1>10 DEF AccessRows, Access, Refused, Granted
  <2>2. QED
    BY <1>1, <2>1
<1>11. ASSUME NEW a \in Arrays, NEW r, NEW x, StoreRow(a, r, x) PROVE MemorySound'
  <2>1. m' = m /\ requested' = requested /\ open' = open
    BY <1>11 DEF StoreRow, Store
  <2>2. QED
    BY <1>1, <2>1
<1>12. QED
  BY <1>2, <1>3, <1>4, <1>5, <1>6, <1>7, <1>8, <1>9, <1>10, <1>11 DEF MemNext

LEMMA MemorySoundIsPoolsSound == MemorySound => PoolsSound
<1> SUFFICES ASSUME MemorySound PROVE PoolsSound
  OBVIOUS
<1>0. /\ Sound(m) /\ m \in Managers /\ m.objects \in SUBSET Objects /\ m.list \in Seq(Arrays)
      /\ m.small \in [Pools -> Seq(Segment)] /\ m.large \in [Pools -> Seq(Nat)]
  BY ManagerParts DEF MemorySound, Sound
<1>1. ASSUME NEW o \in m.objects PROVE ObjectFits(o) /\ \A o2 \in m.objects \ {o} : Apart(o, o2)
  <2>1. Lies(m.small, m.large, o) /\ o.pool \in Pools /\ o.kind \in {"small", "large"}
    BY <1>0 DEF Sound, AllLie, Objects
  <2>2. m.small[o.pool] \in Seq(Segment) /\ m.large[o.pool] \in Seq(Nat)
    BY <1>0, <2>1
  <2>3. ObjectFits(o)
    <3>1. CASE o.kind = "small"
      <4>1. o.seg <= Len(m.small[o.pool])
        BY <2>1, <2>2, <3>1 DEF Lies
      <4>2. QED
        BY <2>1, <3>1, <4>1 DEF Lies, ObjectFits
    <3>2. CASE o.kind = "large"
      <4>1. o.seg <= Len(m.large[o.pool])
        BY <2>1, <2>2, <3>2 DEF Lies
      <4>2. QED
        BY <2>1, <3>2, <4>1 DEF Lies, ObjectFits
    <3>3. QED
      BY <2>1, <3>1, <3>2
  <2>4. \A o2 \in m.objects \ {o} : Apart(o, o2)
    BY <1>0 DEF Sound, AllLie
  <2>5. QED
    BY <2>3, <2>4
<1>2. /\ m.total = (IF m.alive THEN MgrSize ELSE 0) + Held(m, "permanent") + Held(m, "image")
      /\ m.total + m.heap \in Heaps
  BY <1>0 DEF Sound, Counted
<1>3. ASSUME NEW p \in Pools
      PROVE  /\ \A i \in DOMAIN m.small[p] :
                   m.small[p][i].used + m.small[p][i].left + Hdr <= MaxChunk
             /\ \A i \in DOMAIN m.large[p] : m.large[p][i] + Hdr <= MaxChunk
  <2>1. DOMAIN m.small[p] = 1 .. Len(m.small[p]) /\ DOMAIN m.large[p] = 1 .. Len(m.large[p])
    <3>1. m.small[p] \in Seq(Segment) /\ m.large[p] \in Seq(Nat)
      BY <1>0
    <3>2. QED
      BY <3>1
  <2>2. QED
    BY <1>0, <2>1 DEF Sound, SegmentsFit
<1>4. \A a \in Arrays : open[a] => \E i \in DOMAIN m.list : m.list[i] = a
  BY DEF MemorySound, Listed, ToSet
<1>5. QED
  BY <1>1, <1>2, <1>3, <1>4 DEF PoolsSound

(* For every size of chunk, header and object, every amount of memory and   *)
(* every order of requests, failures, aborts and destructions, the objects  *)
(* that alloc_small, alloc_large and alloc_sarray hand out lie apart, in    *)
(* segments the manager holds, and total_space_allocated counts exactly     *)
(* those, so that free_pool gives back all of it.                           *)
THEOREM PoolsAlwaysSound == MemSpec => []PoolsSound
<1>1. MemSpec => []MemorySound
  BY InitMemorySound, MemNextMemorySound, PTL DEF MemSpec
<1>2. QED
  BY <1>1, MemorySoundIsPoolsSound, PTL


=============================================================================
