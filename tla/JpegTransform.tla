--------------------------- MODULE JpegTransform ----------------------------
(***************************************************************************)
(* Lossless transformation of JPEG images (transupp.c): the coefficient    *)
(* arrays of a decompressor become those of a compressor, block by block,  *)
(* without decoding the pixels.  The application turns one file over and   *)
(* over: each step reads the file of the step before and writes it anew    *)
(* (jpeg_read_coefficients, jpeg_copy_critical_parameters, the transform,  *)
(* jpeg_write_coefficients).                                               *)
(*                                                                         *)
(* An image is its parameters and, by component, the blocks of its rows.   *)
(* A block is its coefficients by row and column of frequency.             *)
(***************************************************************************)
EXTENDS Lists

CONSTANTS DctSize,   \* DCTSIZE
          Basis,     \* the waves of the inverse DCT: sample s of frequency k
          Images,    \* the files the application begins with
          MaxSteps   \* bound on the transformations of one file

VARIABLES image,     \* the file now
          before,    \* the file it was made from
          did,       \* the last transformation and its options
          steps      \* transformations so far
transformVars == <<image, before, did, steps>>

Transposing == {"transpose", "transverse", "rot_90", "rot_270"}
Transforms  == {"none", "flip_h", "flip_v", "rot_180"} \cup Transposing

RoundUp(a, b) == (a + b - 1) \div b
MaxOf(f)      == CHOOSE m \in {f[i] : i \in DOMAIN f} : \A i \in DOMAIN f : f[i] <= m
Freqs         == 0 .. DctSize - 1

\* The blocks of a component, and of those the ones inside complete iMCUs, which
\* are the ones that can be mirrored.
BlockCols(im, ci)  == RoundUp(im.width * im.h[ci], MaxOf(im.h) * DctSize)
BlockRows(im, ci)  == RoundUp(im.height * im.v[ci], MaxOf(im.v) * DctSize)
MirrorCols(im, ci) == (im.width \div (MaxOf(im.h) * DctSize)) * im.h[ci]
MirrorRows(im, ci) == (im.height \div (MaxOf(im.v) * DctSize)) * im.v[ci]

File(width, height, h, v, tbl, quant, coef) ==
  [width |-> width, height |-> height, h |-> h, v |-> v, tbl |-> tbl, quant |-> quant, coef |-> coef]

\* The files that initial_setup accepts, with a quantization table for every component.
MaxSampFactor == 4
MaxComponents == 10
Block == [Freqs -> [Freqs -> Int]]
Grid(rows, cols) == [0 .. rows - 1 -> [0 .. cols - 1 -> Block]]

WellFormedParameters(im) ==
  /\ im = File(im.width, im.height, im.h, im.v, im.tbl, im.quant, im.coef)
  /\ im.width \in Nat \ {0} /\ im.height \in Nat \ {0}
  /\ \E n \in 1..MaxComponents : /\ im.h \in [1..n -> 1..MaxSampFactor]
                                 /\ im.v \in [1..n -> 1..MaxSampFactor]
                                 /\ im.tbl \in [1..n -> DOMAIN im.quant]
  /\ im.quant \in [DOMAIN im.quant -> Block]

WellFormed(im) ==
  /\ WellFormedParameters(im)
  /\ im.coef = [ci \in DOMAIN im.h |-> im.coef[ci]]
  /\ \A ci \in DOMAIN im.h : im.coef[ci] \in Grid(BlockRows(im, ci), BlockCols(im, ci))

ASSUME DctSizeAssumption == DctSize \in Nat \ {0}
\* The cosines: those of even frequencies are symmetric in the block, the others
\* change their sign.
ASSUME BasisAssumption ==
  /\ Basis \in [Freqs -> [Freqs -> Int]]
  /\ \A k, s \in Freqs :
       Basis[k][DctSize - 1 - s] = IF k % 2 = 1 THEN -Basis[k][s] ELSE Basis[k][s]

ASSUME ImagesAssumption  == \A im \in Images : WellFormed(im)

-----------------------------------------------------------------------------
\* The parameters: jtransform_adjust_parameters.

Transposed(q) == [i \in Freqs |-> [j \in Freqs |-> q[j][i]]]

TransposeCriticalParameters(im) ==
  File(im.height, im.width, im.v, im.h, im.tbl, [tbl \in DOMAIN im.quant |-> Transposed(im.quant[tbl])], im.coef)

\* "can't trim to 0 pixels"
TrimRightEdge(im) ==
  LET imcu == MaxOf(im.h) * DctSize
      n    == im.width \div imcu
  IN File(IF n > 0 THEN n * imcu ELSE im.width, im.height, im.h, im.v, im.tbl, im.quant, im.coef)
TrimBottomEdge(im) ==
  LET imcu == MaxOf(im.v) * DctSize
      n    == im.height \div imcu
  IN File(im.width, IF n > 0 THEN n * imcu ELSE im.height, im.h, im.v, im.tbl, im.quant, im.coef)

\* jpeg_set_colorspace(JCS_GRAYSCALE), but for the number of the quantization table.
ForceGrayscale(im) == File(im.width, im.height, <<1>>, <<1>>, <<im.tbl[1]>>, im.quant, im.coef)
CanBeGray(im) == Len(im.h) \in {1, 3}

AdjustParameters(im, t, trim, gray) ==
  LET g == IF gray THEN ForceGrayscale(im) ELSE im
      p == IF t \in Transposing THEN TransposeCriticalParameters(g) ELSE g
      r == IF trim /\ t \in {"flip_h", "rot_180", "rot_90", "transverse"} THEN TrimRightEdge(p) ELSE p
  IN IF trim /\ t \in {"flip_v", "rot_180", "rot_270", "transverse"} THEN TrimBottomEdge(r) ELSE r

-----------------------------------------------------------------------------
\* The blocks.  Each do_ function is written from the destination's side: which
\* block of the source comes to row y and column x, with which signs.

Padding == [i \in Freqs |-> [j \in Freqs |-> 0]]     \* of the source array, to whole iMCUs
SrcBlock(im, ci, y, x) ==
  IF y < BlockRows(im, ci) /\ x < BlockCols(im, ci) THEN im.coef[ci][y][x] ELSE Padding

Mirror(k, n) == IF k < n THEN n - 1 - k ELSE k

\* Mirroring within a block changes the signs of odd rows, or of odd columns.
Negated(i, j, rows, cols) == (rows /\ i % 2 = 1) # (cols /\ j % 2 = 1)
Signed(b, rows, cols) ==
  [i \in Freqs |-> [j \in Freqs |-> IF Negated(i, j, rows, cols) THEN -b[i][j] ELSE b[i][j]]]

DoFlipH(im, dst, ci, y, x) ==
  LET n == MirrorCols(dst, ci) IN Signed(SrcBlock(im, ci, y, Mirror(x, n)), FALSE, x < n)

DoFlipV(im, dst, ci, y, x) ==
  LET n == MirrorRows(dst, ci) IN Signed(SrcBlock(im, ci, Mirror(y, n), x), y < n, FALSE)

DoTranspose(im, dst, ci, y, x) == Transposed(SrcBlock(im, ci, x, y))

\* A bug to be caught: the edge blocks are mirrored about the edge of the image.
DoRotNinetyWide(im, dst, ci, y, x) ==
  LET n == BlockCols(dst, ci) IN Signed(Transposed(SrcBlock(im, ci, Mirror(x, n), y)), FALSE, x < MirrorCols(dst, ci))

\* A bug to be caught: the signs are those of the source's rows.
DoRotNinetyRows(im, dst, ci, y, x) ==
  LET n == MirrorCols(dst, ci) IN Signed(Transposed(SrcBlock(im, ci, Mirror(x, n), y)), x < n, FALSE)

DoRotNinety(im, dst, ci, y, x) ==
  LET n == MirrorCols(dst, ci) IN Signed(Transposed(SrcBlock(im, ci, Mirror(x, n), y)), FALSE, x < n)

DoRotTwoSeventy(im, dst, ci, y, x) ==
  LET n == MirrorRows(dst, ci) IN Signed(Transposed(SrcBlock(im, ci, x, Mirror(y, n))), y < n, FALSE)

DoRotOneEighty(im, dst, ci, y, x) ==
  LET n == MirrorCols(dst, ci)
      m == MirrorRows(dst, ci)
  IN Signed(SrcBlock(im, ci, Mirror(y, m), Mirror(x, n)), y < m, x < n)

DoTransverse(im, dst, ci, y, x) ==
  LET n == MirrorCols(dst, ci)
      m == MirrorRows(dst, ci)
  IN Signed(Transposed(SrcBlock(im, ci, Mirror(x, n), Mirror(y, m))), y < m, x < n)

\* jtransform_execute_transformation
DstBlock(t, im, dst, ci, y, x) ==
  CASE t = "none"       -> SrcBlock(im, ci, y, x)
    [] t = "flip_h"     -> DoFlipH(im, dst, ci, y, x)
    [] t = "flip_v"     -> DoFlipV(im, dst, ci, y, x)
    [] t = "transpose"  -> DoTranspose(im, dst, ci, y, x)
    [] t = "transverse" -> DoTransverse(im, dst, ci, y, x)
    [] t = "rot_90"     -> DoRotNinety(im, dst, ci, y, x)
    [] t = "rot_180"    -> DoRotOneEighty(im, dst, ci, y, x)
    [] t = "rot_270"    -> DoRotTwoSeventy(im, dst, ci, y, x)

\* The blocks that jpeg_write_coefficients writes: those of the destination.
Execute(t, im, dst) ==
  [ci \in DOMAIN dst.h |-> [y \in 0 .. BlockRows(dst, ci) - 1 |->
     [x \in 0 .. BlockCols(dst, ci) - 1 |-> DstBlock(t, im, dst, ci, y, x)]]]

Transcoded(im, t, trim, gray) ==
  LET dst == AdjustParameters(im, t, trim, gray)
  IN File(dst.width, dst.height, dst.h, dst.v, dst.tbl, dst.quant, Execute(t, im, dst))

-----------------------------------------------------------------------------
Nothing == [t |-> "none", trim |-> FALSE, gray |-> FALSE]

TransformInit == image \in Images /\ before = image /\ did = Nothing /\ steps = 0

\* Grayscale is refused for images that are neither YCbCr nor gray.
Transcode(t, trim, gray) ==
  /\ steps < MaxSteps
  /\ gray => CanBeGray(image)
  /\ image' = Transcoded(image, t, trim, gray)
  /\ before' = image /\ did' = [t |-> t, trim |-> trim, gray |-> gray]
  /\ steps' = steps + 1

TransformNext == \E t \in Transforms, trim \in BOOLEAN, gray \in BOOLEAN : Transcode(t, trim, gray)
TransformSpec == TransformInit /\ [][TransformNext]_transformVars

-----------------------------------------------------------------------------
\* Properties.

InverseTransform(t) == IF t = "rot_90" THEN "rot_270" ELSE IF t = "rot_270" THEN "rot_90" ELSE t

\* A transformation that does not trim loses nothing: the inverse one gives back the
\* very file, for images that end in the middle of an iMCU too, whose last blocks
\* do_flip_h and its kin leave in place or only transpose.
Reversible == \A t \in Transforms : Transcoded(Transcoded(image, t, FALSE, FALSE), InverseTransform(t), FALSE, FALSE) = image

\* Sample (y, x) of a component: the inverse DCT of the dequantized block, in exact
\* arithmetic, of each row and then of the column of the results.
Idct(v, s) == Total([k \in 1 .. DctSize |-> v[k - 1] * Basis[k - 1][s]])

SampleOf(b, q, r, c) == Idct([i \in Freqs |-> Idct([j \in Freqs |-> b[i][j] * q[i][j]], c)], r)

Sample(im, ci, y, x) ==
  SampleOf(im.coef[ci][y \div DctSize][x \div DctSize], im.quant[im.tbl[ci]], y % DctSize, x % DctSize)

\* Where a sample of the complete iMCUs comes from: h rows and w columns of them.
From(t, h, w, y, x) ==
  CASE t = "none"       -> <<y, x>>
    [] t = "flip_h"     -> <<y, w - 1 - x>>
    [] t = "flip_v"     -> <<h - 1 - y, x>>
    [] t = "transpose"  -> <<x, y>>
    [] t = "transverse" -> <<w - 1 - x, h - 1 - y>>
    [] t = "rot_90"     -> <<w - 1 - x, y>>
    [] t = "rot_180"    -> <<h - 1 - y, w - 1 - x>>
    [] t = "rot_270"    -> <<x, h - 1 - y>>

\* The luminance of the image is sampled no more coarsely than its colour.
FullLuminance(im) == im.h[1] = MaxOf(im.h) /\ im.v[1] = MaxOf(im.v)

\* In the complete iMCUs the coefficients, their signs and the transposed
\* quantization tables together turn the samples of every component exactly, and
\* an image that was trimmed has nothing else ("-trim"), unless it would have
\* nothing at all.  Making an image gray supposes that its luminance is complete.
PixelExact ==
  (did.gray => FullLuminance(before)) => \A ci \in DOMAIN image.h :
    LET h == DctSize * MirrorRows(image, ci)
        w == DctSize * MirrorCols(image, ci)
    IN /\ \A y \in 0 .. h - 1, x \in 0 .. w - 1 :
            LET at == From(did.t, h, w, y, x) IN Sample(image, ci, y, x) = Sample(before, ci, at[1], at[2])
       /\ did.trim /\ did.t \in {"transverse", "rot_180"} /\ h > 0 /\ w > 0 =>
            h = DctSize * BlockRows(image, ci) /\ w = DctSize * BlockCols(image, ci)
=============================================================================
