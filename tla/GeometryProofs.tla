--------------------------- MODULE GeometryProofs ---------------------------
(***************************************************************************)
(* Proofs about the arithmetic of Detections, for any image, frame and     *)
(* rows: which images the letterbox refuses, what the overlap of two boxes *)
(* is, and where the boxes of the frame lie in the original image.         *)
(***************************************************************************)
EXTENDS DecodingProofs

(* A scaled side becomes zero only if it is at most a pixel long, and      *)
(* always if it is shorter (the casts of resizeWithPadding).               *)
LEMMA TruncatedToZero ==
  ASSUME NEW side \in Nat \ {0}, NEW num \in Nat \ {0}, NEW den \in Nat \ {0},
         NEW w \in Truncated(side, [num |-> num, den |-> den])
  PROVE  /\ w = 0 => side * num <= den
         /\ side * num < den => w = 0
<1> DEFINE product == side * num
           whole == product \div den
           rest == product % den
<1>1. product \in Nat \ {0} OBVIOUS
<1>2. whole \in Nat /\ rest \in Nat /\ rest < den /\ product = den * whole + rest
  BY <1>1, Division
<1>3. w \in (IF rest = 0 THEN {whole, whole - 1} ELSE {whole})
  BY DEF Truncated
<1> HIDE DEF product, whole, rest
<1>4. w = 0 => product <= den
  <2>1. SUFFICES ASSUME w = 0 PROVE product <= den OBVIOUS
  <2>2. CASE whole = 0 BY <1>2, <2>2
  <2>3. CASE rest = 0 /\ whole = 1 BY <1>2, <2>3
  <2>4. QED BY <1>2, <1>3, <2>1, <2>2, <2>3
<1>5. product < den => w = 0
  <2>1. SUFFICES ASSUME product < den PROVE w = 0 OBVIOUS
  <2>2. whole = 0
    <3>1. SUFFICES ASSUME whole >= 1 PROVE FALSE BY <1>2
    <3>2. den * whole >= den BY <1>2, <3>1
    <3>3. QED BY <1>1, <1>2, <2>1, <3>2
  <2>3. rest # 0 BY <1>1, <1>2, <2>2
  <2>4. QED BY <1>3, <2>2, <2>3
<1>6. QED BY <1>4, <1>5 DEF product

(* What the letterbox makes of an image: no side unless it was flat.       *)
LEMMA LetterboxFlat ==
  ASSUME NEW image \in Sizes, Frame.width > 1, Frame.height > 1,
         NEW w \in Truncated(image.width, ScaleOf(image)),
         NEW h \in Truncated(image.height, ScaleOf(image))
  PROVE  /\ w = 0 \/ h = 0 => ScaledAtMostOne(image)
         /\ ScaledBelowOne(image) => w = 0 \/ h = 0
<1> DEFINE iw == image.width
           ih == image.height
           fw == Frame.width
           fh == Frame.height
<1>1. iw \in Nat \ {0} /\ ih \in Nat \ {0} /\ fw \in Nat \ {0, 1} /\ fh \in Nat \ {0, 1}
  BY InputsAssumption DEF Sizes
<1>2. /\ ScaledAtMostOne(image) <=> ih * fw <= iw \/ iw * fh <= ih
      /\ ScaledBelowOne(image) <=> ih * fw < iw \/ iw * fh < ih
  BY DEF ScaledAtMostOne, ScaledBelowOne
<1>3. CASE fw * ih <= fh * iw
  <2>1. w \in Truncated(iw, [num |-> fw, den |-> iw]) /\ h \in Truncated(ih, [num |-> fw, den |-> iw])
    BY <1>3 DEF ScaleOf
  <2> HIDE DEF iw, ih, fw, fh
  <2>2. w # 0
    <3>1. iw * fw > iw BY <1>1
    <3>2. w = 0 => iw * fw <= iw BY <1>1, <2>1, TruncatedToZero
    <3>3. iw * fw \in Nat BY <1>1
    <3>4. QED BY <1>1, <3>1, <3>2, <3>3
  <2>3. (h = 0 => ih * fw <= iw) /\ (ih * fw < iw => h = 0) BY <1>1, <2>1, TruncatedToZero
  <2>4. ~(iw * fh < ih)
    <3>1. ih <= fw * ih BY <1>1
    <3>2. fh * iw = iw * fh /\ iw * fh \in Nat /\ fw * ih \in Nat BY <1>1
    <3>3. QED BY <1>1, <1>3, <3>1, <3>2
  <2>5. QED BY <1>2, <2>2, <2>3, <2>4
<1>4. CASE ~(fw * ih <= fh * iw)
  <2>1. w \in Truncated(iw, [num |-> fh, den |-> ih]) /\ h \in Truncated(ih, [num |-> fh, den |-> ih])
    BY <1>4 DEF ScaleOf
  <2> HIDE DEF iw, ih, fw, fh
  <2>2. h # 0
    <3>1. ih * fh > ih BY <1>1
    <3>2. h = 0 => ih * fh <= ih BY <1>1, <2>1, TruncatedToZero
    <3>3. ih * fh \in Nat BY <1>1
    <3>4. QED BY <1>1, <3>1, <3>2, <3>3
  <2>3. (w = 0 => iw * fh <= ih) /\ (iw * fh < ih => w = 0) BY <1>1, <2>1, TruncatedToZero
  <2>4. ~(ih * fw < iw)
    <3>1. iw <= fh * iw BY <1>1
    <3>2. fw * ih = ih * fw /\ fh * iw \in Nat /\ ih * fw \in Nat BY <1>1
    <3>3. QED BY <1>1, <1>4, <3>1, <3>2
  <2>5. QED BY <1>2, <2>2, <2>3, <2>4
<1>5. QED BY <1>3, <1>4

(* Letterboxing throws for images that are too flat or too thin for the    *)
(* frame, always for those that scale to less than a pixel, and for no     *)
(* others (resizeWithPadding).  The frame is more than a pixel in each     *)
(* direction: into one of a single pixel any image may fail to fit, as the *)
(* product of its own side and scale may be truncated to zero.             *)
THEOREM RefusalsAreFlat ==
  ASSUME Frame.width > 1, Frame.height > 1
  PROVE  Spec => []OnlyFlatImagesThrow
<1> DEFINE Flat == OnlyFlatImagesThrow
<1>1. Init => Flat BY DEF Init, OnlyFlatImagesThrow
<1>2. ASSUME Flat, [Next]_vars PROVE Flat'
  <2>1. ASSUME NEW in \in Inputs, Process(in) PROVE Flat'
    <3>1. in.image \in Sizes /\ input' = in BY <2>1, InputsAssumption DEF Process
    <3>2. CASE in.keep /\ Letterbox(in.image)
      <4>1. PICK w \in Truncated(in.image.width, ScaleOf(in.image)),
                 h \in Truncated(in.image.height, ScaleOf(in.image)) :
              Resize(ScaleOf(in.image), [width |-> w, height |-> h])
        BY <3>2 DEF Letterbox
      <4>2. pc' = IF w = 0 \/ h = 0 THEN "thrown" ELSE "decode" BY <4>1 DEF Resize
      <4>3. QED BY <3>1, <4>2, LetterboxFlat DEF OnlyFlatImagesThrow
    <3>3. CASE ~in.keep /\ Stretch BY <3>1, <3>3 DEF Stretch, OnlyFlatImagesThrow
    <3>4. QED BY <2>1, <3>2, <3>3 DEF Process
  <2>2. CASE Decode \/ Sort \/ Suppress \/ StartKeeping \/ Keep \/ Map
    BY <1>2, <2>2 DEF OnlyFlatImagesThrow, Decode, Sort, Suppress, StartKeeping, Keep, Map
  <2>3. CASE Return BY <2>3 DEF Return, OnlyFlatImagesThrow
  <2>4. CASE UNCHANGED vars BY <1>2, <2>4 DEF OnlyFlatImagesThrow, vars
  <2>5. QED BY <1>2, <2>1, <2>2, <2>3, <2>4 DEF Next
<1>3. QED BY <1>1, <1>2, PTL DEF Spec

-----------------------------------------------------------------------------
(* The overlap of two boxes. *)

(* The pixels of a side. *)
Side(from, length) == from..(from + length - 1)

(* A side has as many pixels as it is long. *)
LEMMA SideSize ==
  ASSUME NEW from \in Int, NEW length \in Nat
  PROVE  IsFiniteSet(Side(from, length)) /\ Cardinality(Side(from, length)) = length
<1>1. from + length - 1 \in Int OBVIOUS
<1>2. /\ IsFiniteSet(from..(from + length - 1))
      /\ Cardinality(from..(from + length - 1)) =
           IF from > from + length - 1 THEN 0 ELSE (from + length - 1) - from + 1
  BY <1>1, FS_Interval
<1>3. QED BY <1>2 DEF Side

(* What two sides share is between the later start and the earlier end. *)
LEMMA SidesMeet ==
  ASSUME NEW a \in Int, NEW m \in Nat, NEW b \in Int, NEW n \in Nat
  PROVE  /\ IsFiniteSet(Side(a, m) \cap Side(b, n))
         /\ Cardinality(Side(a, m) \cap Side(b, n))
              = Greater(0, Smaller(a + m, b + n) - Greater(a, b))
<1> DEFINE from == Greater(a, b)
           to == Smaller(a + m, b + n)
<1>1. from \in Int /\ to \in Int BY DEF Greater, Smaller
<1>2. Side(a, m) \cap Side(b, n) = from..(to - 1) BY DEF Side, Greater, Smaller
<1> HIDE DEF from, to
<1>3. to - 1 \in Int BY <1>1
<1>4. /\ IsFiniteSet(from..(to - 1))
      /\ Cardinality(from..(to - 1)) = IF from > to - 1 THEN 0 ELSE (to - 1) - from + 1
  BY <1>1, <1>3, FS_Interval
<1>5. Cardinality(from..(to - 1)) = Greater(0, to - from) BY <1>1, <1>4 DEF Greater
<1>6. QED BY <1>2, <1>4, <1>5 DEF from, to

(* iou of two boxes counts pixels (Postprocessor::iou). *)
LEMMA OverlapCountsPixels ==
  ASSUME NEW a \in Box, NEW b \in Box
  PROVE  Overlap(a, b) <=>   100 * Cardinality(Pixels(a) \cap Pixels(b))
                           > NmsThreshold * Cardinality(Pixels(a) \cup Pixels(b))
<1>1. /\ a.x \in Int /\ a.y \in Int /\ a.width \in Nat /\ a.height \in Nat
      /\ b.x \in Int /\ b.y \in Int /\ b.width \in Nat /\ b.height \in Nat
  BY DEF Box, Even
<1>2. /\ Pixels(a) = Side(a.x, a.width) \X Side(a.y, a.height)
      /\ Pixels(b) = Side(b.x, b.width) \X Side(b.y, b.height)
  BY DEF Pixels, Side
<1>3. /\ IsFiniteSet(Pixels(a)) /\ Cardinality(Pixels(a)) = a.width * a.height
      /\ IsFiniteSet(Pixels(b)) /\ Cardinality(Pixels(b)) = b.width * b.height
  <2>1. /\ IsFiniteSet(Side(a.x, a.width)) /\ Cardinality(Side(a.x, a.width)) = a.width
        /\ IsFiniteSet(Side(a.y, a.height)) /\ Cardinality(Side(a.y, a.height)) = a.height
        /\ IsFiniteSet(Side(b.x, b.width)) /\ Cardinality(Side(b.x, b.width)) = b.width
        /\ IsFiniteSet(Side(b.y, b.height)) /\ Cardinality(Side(b.y, b.height)) = b.height
    BY <1>1, SideSize
  <2>2. QED BY <1>2, <2>1, FS_Product
<1> DEFINE columns == Side(a.x, a.width) \cap Side(b.x, b.width)
           lines == Side(a.y, a.height) \cap Side(b.y, b.height)
<1>4. Pixels(a) \cap Pixels(b) = columns \X lines BY <1>2
<1>5. /\ IsFiniteSet(columns) /\ IsFiniteSet(lines)
      /\ Cardinality(columns) = Greater(0, Smaller(a.x + a.width, b.x + b.width) - Greater(a.x, b.x))
      /\ Cardinality(lines) = Greater(0, Smaller(a.y + a.height, b.y + b.height) - Greater(a.y, b.y))
  <2>1. ASSUME NEW p \in Int, NEW m \in Nat, NEW q \in Int, NEW n \in Nat,
               NEW S, S = Side(p, m) \cap Side(q, n)
        PROVE  /\ IsFiniteSet(S)
               /\ Cardinality(S) = Greater(0, Smaller(p + m, q + n) - Greater(p, q))
    BY <2>1, SidesMeet
  <2>2. PICK p \in Int, m \in Nat, q \in Int, n \in Nat :
          p = a.x /\ m = a.width /\ q = b.x /\ n = b.width
    BY <1>1
  <2>3. PICK r \in Int, k \in Nat, s \in Int, l \in Nat :
          r = a.y /\ k = a.height /\ s = b.y /\ l = b.height
    BY <1>1
  <2>4. columns = Side(p, m) \cap Side(q, n) /\ lines = Side(r, k) \cap Side(s, l)
    BY <2>2, <2>3
  <2> HIDE DEF columns, lines
  <2>5. /\ IsFiniteSet(columns)
        /\ Cardinality(columns) = Greater(0, Smaller(p + m, q + n) - Greater(p, q))
    BY <2>1, <2>4
  <2>6. /\ IsFiniteSet(lines)
        /\ Cardinality(lines) = Greater(0, Smaller(r + k, s + l) - Greater(r, s))
    BY <2>1, <2>4
  <2>7. QED BY <2>2, <2>3, <2>5, <2>6
<1>6. Cardinality(Pixels(a) \cap Pixels(b)) = Intersection(a, b)
  <2> HIDE DEF columns, lines
  <2>1. Cardinality(columns \X lines) = Cardinality(columns) * Cardinality(lines)
    BY <1>5, FS_Product
  <2>2. QED BY <1>4, <1>5, <2>1 DEF Intersection
<1>7. Cardinality(Pixels(a) \cup Pixels(b))
        = a.width * a.height + b.width * b.height - Intersection(a, b)
  BY <1>3, <1>6, FS_Union
<1>8. QED BY <1>6, <1>7 DEF Overlap

(* The test of nms is the ratio of the pixels two boxes share to those     *)
(* they cover, for boxes of any size and position, empty ones included.    *)
THEOREM OverlapCorrect == Spec => []OverlapIsIou
<1>1. DecodeInv => OverlapIsIou
  <2>1. SUFFICES ASSUME DecodeInv, NEW a \in DOMAIN boxes, NEW b \in DOMAIN boxes
                 PROVE  Overlap(boxes[a], boxes[b]) <=>
                            100 * Cardinality(Pixels(boxes[a]) \cap Pixels(boxes[b]))
                          > NmsThreshold * Cardinality(Pixels(boxes[a]) \cup Pixels(boxes[b]))
    BY DEF OverlapIsIou
  <2>2. boxes[a] \in Box /\ boxes[b] \in Box BY <2>1 DEF DecodeInv
  <2>3. QED BY <2>2, OverlapCountsPixels
<1>2. QED BY <1>1, DecodeInvariant, PTL

-----------------------------------------------------------------------------
(* The way back to the original image. *)

(* What truncation takes off a side is at most one pixel of the frame. *)
LEMMA TruncationGap ==
  ASSUME NEW side \in Nat \ {0}, NEW num \in Nat \ {0}, NEW den \in Nat \ {0},
         NEW w \in Truncated(side, [num |-> num, den |-> den])
  PROVE  /\ w \in Nat
         /\ \E gap \in 0..den : side * num = den * w + gap
<1> DEFINE product == side * num
           whole == product \div den
           rest == product % den
<1>1. product \in Nat OBVIOUS
<1>2. whole \in Nat /\ rest \in Nat /\ rest < den /\ product = den * whole + rest
  BY <1>1, Division
<1>3. w \in (IF rest = 0 THEN {whole, whole - 1} ELSE {whole}) BY DEF Truncated
<1>4. w \in Nat BY TruncatedIsNat
<1> HIDE DEF product, whole, rest
<1>5. CASE w = whole BY <1>2, <1>4, <1>5 DEF product
<1>6. CASE rest = 0 /\ w = whole - 1
  <2>1. whole = w + 1 BY <1>2, <1>6
  <2>2. den * (w + 1) = den * w + den BY <1>4
  <2>3. product = den * w + den BY <1>2, <1>6, <2>1, <2>2
  <2>4. QED BY <1>4, <2>3 DEF product
<1>7. QED BY <1>3, <1>5, <1>6

(* A product of smaller factors is smaller. *)
LEMMA SmallerProduct ==
  ASSUME NEW a \in Nat, NEW b \in Nat, NEW c \in Nat, NEW d \in Nat, a <= c, b <= d
  PROVE  a * b \in Nat /\ a * b <= d * c
<1>1. a * b \in Nat /\ a * d \in Nat /\ d * c \in Nat OBVIOUS
<1>2. a * b <= a * d OBVIOUS
<1>3. a * d <= d * c OBVIOUS
<1>4. QED BY <1>1, <1>2, <1>3

(* An edge inside the picture comes back within a pixel of the frame. *)
LEMMA EdgeMapsBack ==
  ASSUME NEW side \in Nat \ {0}, NEW num \in Nat \ {0}, NEW den \in Nat \ {0},
         NEW w \in Truncated(side, [num |-> num, den |-> den]),
         NEW e \in 0..w
  PROVE  /\ (e * den) * w - (e * num) * side <= num * side
         /\ (e * num) * side - (e * den) * w <= num * side
<1>1. w \in Nat /\ e \in Nat /\ e <= w BY TruncationGap
<1>2. PICK gap \in 0..den : side * num = den * w + gap BY TruncationGap
<1> DEFINE all == num * side
           part == den * w
<1>3. all \in Nat /\ part \in Nat BY <1>1
<1>4. all = part + gap BY <1>1, <1>2
<1>5. (e * num) * side = e * all BY <1>1
<1>6. (e * den) * w = e * part BY <1>1
<1>7. e * gap \in Nat /\ e * gap <= part BY <1>1, SmallerProduct
<1> HIDE DEF all, part
<1>8. e * all = e * part + e * gap BY <1>1, <1>3, <1>4
<1>9. e * part \in Nat BY <1>1, <1>3
<1>10. e * part - e * all <= all /\ e * all - e * part <= all
  BY <1>3, <1>4, <1>7, <1>8, <1>9
<1>11. QED BY <1>5, <1>6, <1>10 DEF all

(* While an image is processed, the members of the pre-processor are those *)
(* of its own letterbox.                                                   *)
LetterboxInv ==
  pc \in {"decode", "nms", "keep", "done"} /\ input.keep =>
    /\ scale = ScaleOf(input.image)
    /\ size.width \in Truncated(input.image.width, scale)
    /\ size.height \in Truncated(input.image.height, scale)

(* No step but the next image's letterbox writes those members. *)
LEMMA LetterboxInvStep == LetterboxInv /\ [Next]_vars => LetterboxInv'
<1> SUFFICES ASSUME LetterboxInv, [Next]_vars PROVE LetterboxInv'
  OBVIOUS
<1>1. ASSUME NEW in \in Inputs, Process(in) PROVE LetterboxInv'
  <2>1. CASE in.keep /\ Letterbox(in.image)
    <3>1. PICK w \in Truncated(in.image.width, ScaleOf(in.image)),
               h \in Truncated(in.image.height, ScaleOf(in.image)) :
            Resize(ScaleOf(in.image), [width |-> w, height |-> h])
      BY <2>1 DEF Letterbox
    <3>2. input' = in /\ scale' = ScaleOf(in.image)
          /\ (pc' = "thrown" \/ size' = [width |-> w, height |-> h])
      BY <1>1, <3>1 DEF Process, Resize
    <3>3. QED BY <3>1, <3>2 DEF LetterboxInv
  <2>2. CASE ~in.keep BY <1>1, <2>2 DEF Process, LetterboxInv
  <2>3. QED BY <1>1, <2>1, <2>2 DEF Process
<1>2. CASE Decode \/ Sort \/ Suppress \/ StartKeeping \/ Keep \/ Map
  BY <1>2 DEF Decode, Sort, Suppress, StartKeeping, Keep, Map, geometry, LetterboxInv
<1>3. CASE Return BY <1>3 DEF Return, LetterboxInv
<1>4. CASE UNCHANGED vars BY <1>4 DEF vars, geometry, LetterboxInv
<1>5. QED BY <1>1, <1>2, <1>3, <1>4 DEF Next

(* A detection lies where the network saw it: both its edges, resized and  *)
(* padded as the picture really was, are within one pixel of the frame of  *)
(* the box's (Postprocessor::mapToOriginal), whatever the sizes.           *)
THEOREM DetectionsMapBack == Spec => []MapsBack
<1>1. Init => LetterboxInv BY DEF Init, LetterboxInv
<1>2. Spec => []LetterboxInv BY <1>1, LetterboxInvStep, PTL DEF Spec
<1>3. TypeOK /\ DecodeInv /\ ResultInv /\ LetterboxInv => MapsBack
  <2>1. SUFFICES ASSUME TypeOK, DecodeInv, ResultInv, LetterboxInv,
                        pc = "done", input.keep, NEW j \in DOMAIN result
                 PROVE  LET box == result[j]
                            det == detections[j]
                        IN  /\ box.x >= pad.width /\ box.x + box.width <= pad.width + size.width =>
                                 /\ WithinOnePixel(box.x, pad.width, size.width, input.image.width, det.x)
                                 /\ WithinOnePixel(box.x + box.width, pad.width, size.width,
                                                   input.image.width, det.x + det.width)
                            /\ box.y >= pad.height /\ box.y + box.height <= pad.height + size.height =>
                                 /\ WithinOnePixel(box.y, pad.height, size.height, input.image.height, det.y)
                                 /\ WithinOnePixel(box.y + box.height, pad.height, size.height,
                                                   input.image.height, det.y + det.height)
    BY DEF MapsBack
  <2>2. /\ input.image.width \in Nat \ {0} /\ input.image.height \in Nat \ {0}
        /\ pad.width \in Nat /\ pad.height \in Nat
    BY <2>1, InputsAssumption DEF DecodeInv, TypeOK, Sizes
  <2>3. PICK num \in Nat \ {0}, den \in Nat \ {0} : scale = [num |-> num, den |-> den]
    BY <2>1 DEF TypeOK
  <2>4. /\ size.width \in Truncated(input.image.width, [num |-> num, den |-> den])
        /\ size.height \in Truncated(input.image.height, [num |-> num, den |-> den])
    BY <2>1, <2>3 DEF LetterboxInv
  <2>5. result[j] \in Box /\ j \in 1..Len(result) BY <2>1 DEF ResultInv
  <2>6. detections[j] = MapToOriginal(result[j]) BY <2>1, <2>5 DEF ResultInv
  <2>7. /\ detections[j].x = Unpadded(result[j].x, pad.width, [num |-> num, den |-> den])
        /\ detections[j].y = Unpadded(result[j].y, pad.height, [num |-> num, den |-> den])
        /\ detections[j].width = result[j].width * den
        /\ detections[j].height = result[j].height * den
    BY <2>3, <2>6 DEF MapToOriginal
  <2>8. ASSUME NEW side \in Nat \ {0}, NEW padding \in Nat,
               NEW resized \in Truncated(side, [num |-> num, den |-> den]),
               NEW from \in Int, NEW length \in Nat,
               from >= padding, from + length <= padding + resized
        PROVE  LET c == Unpadded(from, padding, [num |-> num, den |-> den])
               IN  /\ WithinOnePixel(from, padding, resized, side, c)
                   /\ WithinOnePixel(from + length, padding, resized, side, c + length * den)
    <3>1. resized \in Nat BY TruncationGap
    <3>2. from - padding \in 0..resized /\ from + length - padding \in 0..resized
      BY <2>8, <3>1
    <3> DEFINE e == from - padding
               d == from + length - padding
    <3>3. e \in Nat /\ d \in Nat /\ d = e + length BY <3>2
    <3>4. e * den \in Nat /\ d * den = e * den + length * den BY <3>3
    <3>5. Unpadded(from, padding, [num |-> num, den |-> den]) = e * den
      BY <3>4 DEF Unpadded, Greater
    <3>6. \A f \in 0..resized : /\ (f * den) * resized - (f * num) * side <= num * side
                                /\ (f * num) * side - (f * den) * resized <= num * side
      BY EdgeMapsBack
    <3> HIDE DEF e, d
    <3>7. /\ WithinOnePixel(from, padding, resized, side, e * den)
      BY <2>3, <3>2, <3>6 DEF WithinOnePixel, e
    <3>8. WithinOnePixel(from + length, padding, resized, side, d * den)
      BY <2>3, <3>2, <3>6 DEF WithinOnePixel, d
    <3>9. QED BY <3>4, <3>5, <3>7, <3>8
  <2>9. /\ result[j].x \in Int /\ result[j].y \in Int
        /\ result[j].width \in Nat /\ result[j].height \in Nat
    BY <2>5 DEF Box, Even
  <2>10. QED BY <2>2, <2>4, <2>7, <2>8, <2>9
<1>4. QED BY <1>2, <1>3, TypeCorrect, DecodeInvariant, ResultInvariant, PTL

=============================================================================
