----------------------------- MODULE Detections -----------------------------
(***************************************************************************)
(* What happens to one image between the caller and the network, and to    *)
(* the network's rows on the way back: the letterbox of the pre-processor  *)
(* (scale, padding), then the post-processor's decoding, non-maximum       *)
(* suppression, naming and mapping to original coordinates.  One thread,   *)
(* one image after another, the loops of the code one iteration per step.  *)
(*                                                                         *)
(* Coordinates are whole frame pixels, scores and thresholds percentages.  *)
(* The scale is the exact fraction num / den; the float it is rounded to   *)
(* shows in Truncated only.  A detection's coordinates are in units of     *)
(* 1 / scale.num of a pixel of the original image, hence integers.         *)
(***************************************************************************)
EXTENDS Integers, Sequences, FiniteSets

CONSTANTS Inputs,         \* [image, keep, rows]: an image, its model's
                          \* keep_aspect_ratio, and the network's answer
          Frame,          \* the network's input: [width, height]
          Classes,        \* num_classes
          ClassNames,     \* config->class_names, None where it has no name
          None,
          ConfThreshold,  \* percent
          NmsThreshold    \* percent

Sizes == [width : Nat \ {0}, height : Nat \ {0}]

(* A row of the network's output: centre, size, objectness, class scores.  *)
(* Half a size is a whole pixel.                                           *)
Even == {n \in Nat : n % 2 = 0}
Rows == [cx : Int, cy : Int, w : Even, h : Even, obj : Nat, scores : [0..(Classes - 1) -> Nat]]

ASSUME InputsAssumption == /\ Inputs \subseteq [image : Sizes, keep : BOOLEAN, rows : Seq(Rows)]
                           /\ Frame \in Sizes
ASSUME NoneAssumption == None \notin Inputs
ASSUME ThresholdsAssumption == ConfThreshold \in Nat /\ NmsThreshold \in Nat
ASSUME ConfigAssumption ==
  /\ Classes \in Nat
  /\ ClassNames = [c \in 1..Classes |-> ClassNames[c]]
  /\ \A a, b \in 1..Classes : a < b /\ ClassNames[b] # None => ClassNames[a] # None

VARIABLES pc, input,
          scale, pad, size,   \* Preprocessor: scale_, pad_w_/pad_h_, size after cv::resize
          boxes,              \* decoded boxes
          suppressed,         \* suppressed[k]: boxes[k] was dropped by NMS
          i,                  \* loop counter
          result,             \* boxes NMS kept
          detections          \* what the caller gets

vars == <<pc, input, scale, pad, size, boxes, suppressed, i, result, detections>>
geometry == <<scale, pad, size>>

One == [num |-> 1, den |-> 1]

Init == /\ pc = "idle"
        /\ input = None
        /\ scale = One
        /\ pad = [width |-> 0, height |-> 0]
        /\ size = Frame
        /\ boxes = <<>> /\ suppressed = <<>> /\ result = <<>> /\ detections = <<>>
        /\ i = 1

-----------------------------------------------------------------------------
(* Preprocessor::resizeWithPadding. *)

Bug_LargerScale(image) ==
  IF Frame.width * image.height >= Frame.height * image.width
  THEN [num |-> Frame.width, den |-> image.width]
  ELSE [num |-> Frame.height, den |-> image.height]

(* The smaller of the two ratios. *)
ScaleOf(image) ==
  IF Frame.width * image.height <= Frame.height * image.width
  THEN [num |-> Frame.width, den |-> image.width]
  ELSE [num |-> Frame.height, den |-> image.height]

Bug_RoundedUp(side, s) == {(side * s.num + s.den - 1) \div s.den}

(* static_cast<int>(side * scale_): a product that is a whole number may   *)
(* come out just below it (w * (640.0f / w) does for many w).              *)
Truncated(side, s) ==
  LET product == side * s.num
      whole == product \div s.den
  IN  IF product % s.den = 0 THEN {whole, whole - 1} ELSE {whole}

PaddingOf(resized) == [width  |-> (Frame.width - resized.width) \div 2,
                       height |-> (Frame.height - resized.height) \div 2]

(* cv::resize throws when a side of the requested size is zero: scale_ has *)
(* been stored by then, the padding not.                                   *)
Resize(s, resized) ==
  /\ scale' = s
  /\ IF resized.width = 0 \/ resized.height = 0
     THEN pc' = "thrown" /\ UNCHANGED <<pad, size>>
     ELSE pc' = "decode" /\ size' = resized /\ pad' = PaddingOf(resized)

Letterbox(image) ==
  LET s == ScaleOf(image)
  IN  \E w \in Truncated(image.width, s), h \in Truncated(image.height, s) :
        Resize(s, [width |-> w, height |-> h])

Stretch == /\ scale' = One
           /\ pad' = [width |-> 0, height |-> 0]
           /\ size' = Frame
           /\ pc' = "decode"

(* Preprocessor::process, the network (external: any rows), and            *)
(* Postprocessor::process up to its first loop.                            *)
Process(in) == /\ pc = "idle"
               /\ \/ in.keep /\ Letterbox(in.image)
                  \/ ~in.keep /\ Stretch
               /\ input' = in
               /\ UNCHANGED <<boxes, suppressed, i, result, detections>>

-----------------------------------------------------------------------------
(* Postprocessor::decodeOutput. *)

Bug_LastBest(scores) ==
  LET best[c \in -1..(Classes - 1)] ==
        IF c = -1 THEN [class |-> 0, score |-> 0]
        ELSE IF scores[c] >= best[c - 1].score THEN [class |-> c, score |-> scores[c]]
        ELSE best[c - 1]
  IN  best[Classes - 1]

(* The loop over the classes: a later class must be strictly better. *)
BestClass(scores) ==
  LET best[c \in -1..(Classes - 1)] ==
        IF c = -1 THEN [class |-> 0, score |-> 0]
        ELSE IF scores[c] > best[c - 1].score THEN [class |-> c, score |-> scores[c]]
        ELSE best[c - 1]
  IN  best[Classes - 1]

(* The confidence is a product of percentages. *)
BoxOf(row) == LET best == BestClass(row.scores)
              IN  [x |-> row.cx - row.w \div 2, y |-> row.cy - row.h \div 2,
                   width |-> row.w, height |-> row.h,
                   class_id |-> best.class, confidence |-> row.obj * best.score]

Confident(box) == box.confidence >= 100 * ConfThreshold

Decode == /\ pc = "decode" /\ i <= Len(input.rows)
          /\ LET box == BoxOf(input.rows[i])
             IN  boxes' = IF Confident(box) THEN Append(boxes, box) ELSE boxes
          /\ i' = i + 1
          /\ UNCHANGED <<pc, input, geometry, suppressed, result, detections>>

-----------------------------------------------------------------------------
(* Postprocessor::nms. *)

Orders(n) == {p \in [1..n -> 1..n] : \A a, b \in 1..n : p[a] = p[b] => a = b}

Bug_Ascending(s) == \A a, b \in DOMAIN s : a < b => s[a].confidence <= s[b].confidence

ByConfidence(s) == \A a, b \in DOMAIN s : a < b => s[a].confidence >= s[b].confidence

(* std::sort: equal confidences come in any order. *)
Sort == /\ pc = "decode" /\ i > Len(input.rows)
        /\ \E p \in Orders(Len(boxes)) :
             LET sorted == [k \in 1..Len(boxes) |-> boxes[p[k]]]
             IN  ByConfidence(sorted) /\ boxes' = sorted
        /\ suppressed' = [k \in 1..Len(boxes) |-> FALSE]
        /\ i' = 1
        /\ pc' = "nms"
        /\ UNCHANGED <<input, geometry, result, detections>>

Greater(a, b) == IF a >= b THEN a ELSE b
Smaller(a, b) == IF a <= b THEN a ELSE b

Intersection(a, b) ==
    Greater(0, Smaller(a.x + a.width, b.x + b.width) - Greater(a.x, b.x))
  * Greater(0, Smaller(a.y + a.height, b.y + b.height) - Greater(a.y, b.y))

Bug_UnionIsSum(a, b) ==
  100 * Intersection(a, b) > NmsThreshold * (a.width * a.height + b.width * b.height)

(* iou(a, b) > threshold. *)
Overlap(a, b) ==
  LET inter == Intersection(a, b)
      union == a.width * a.height + b.width * b.height - inter
  IN  100 * inter > NmsThreshold * union

Duplicate(a, b) == a.class_id = b.class_id /\ Overlap(a, b)

(* A suppressed box suppresses others too; or a box is compared with its *)
(* neighbour only.                                                         *)
Bug_ChainedDrop(k)  == i < k /\ Duplicate(boxes[i], boxes[k])
Bug_NextOnly(k)     == ~suppressed[i] /\ k = i + 1 /\ Duplicate(boxes[i], boxes[k])

(* The inner loop: does boxes[i] drop boxes[k]? *)
Drops(k) == ~suppressed[i] /\ i < k /\ Duplicate(boxes[i], boxes[k])

Suppress == /\ pc = "nms" /\ i <= Len(boxes)
            /\ suppressed' = [k \in 1..Len(boxes) |-> suppressed[k] \/ Drops(k)]
            /\ i' = i + 1
            /\ UNCHANGED <<pc, input, geometry, boxes, result, detections>>

StartKeeping == /\ pc = "nms" /\ i > Len(boxes)
                /\ i' = 1
                /\ pc' = "keep"
                /\ UNCHANGED <<input, geometry, boxes, suppressed, result, detections>>

Keep == /\ pc = "keep" /\ i <= Len(boxes)
        /\ result' = IF suppressed[i] THEN result ELSE Append(result, boxes[i])
        /\ i' = i + 1
        /\ UNCHANGED <<pc, input, geometry, boxes, suppressed, detections>>

-----------------------------------------------------------------------------
(* Postprocessor::process: names and original coordinates. *)

(* crkit_load_model copies the names that are not null. *)
class_names ==
  LET names[c \in 0..Classes] ==
        IF c = 0 THEN <<>>
        ELSE IF ClassNames[c] # None THEN Append(names[c - 1], ClassNames[c])
        ELSE names[c - 1]
  IN  names[Classes]

Bug_NameAfter(c) == IF c + 1 < Len(class_names) THEN class_names[c + 2] ELSE [class |-> c]

NameOf(c) == IF c < Len(class_names) THEN class_names[c + 1] ELSE [class |-> c]

Bug_PaddingAdded(coordinate, padding, s) == Greater(0, (coordinate + padding) * s.den)

Unpadded(coordinate, padding, s) == Greater(0, (coordinate - padding) * s.den)

(* mapToOriginal; a scale that is not positive is replaced by 1. *)
MapToOriginal(box) ==
  LET s == IF scale.num <= 0 THEN One ELSE scale
  IN  [x |-> Unpadded(box.x, pad.width, s), y |-> Unpadded(box.y, pad.height, s),
       width |-> box.width * s.den, height |-> box.height * s.den,
       class_id |-> box.class_id, name |-> NameOf(box.class_id),
       confidence |-> box.confidence]

Map == /\ pc = "keep" /\ i > Len(boxes)
       /\ detections' = [k \in 1..Len(result) |-> MapToOriginal(result[k])]
       /\ pc' = "done"
       /\ UNCHANGED <<input, geometry, boxes, suppressed, i, result>>

(* The locals go, the members of the two processors stay for the next      *)
(* image.                                                                  *)
Return == /\ pc \in {"thrown", "done"}
          /\ pc' = "idle"
          /\ input' = None
          /\ boxes' = <<>> /\ suppressed' = <<>> /\ result' = <<>> /\ detections' = <<>>
          /\ i' = 1
          /\ UNCHANGED geometry

Next == \/ \E in \in Inputs : Process(in)
        \/ Decode \/ Sort \/ Suppress \/ StartKeeping \/ Keep \/ Map \/ Return

Spec == Init /\ [][Next]_vars

-----------------------------------------------------------------------------
(* Type invariant. *)
Box == [x : Int, y : Int, width : Even, height : Even, class_id : 0..Classes, confidence : Nat]

TypeOK ==
  /\ pc \in {"idle", "thrown", "decode", "nms", "keep", "done"}
  /\ pc = "idle" <=> input = None
  /\ scale \in [num : Nat \ {0}, den : Nat \ {0}]
  /\ pad \in [width : Nat, height : Nat] /\ size \in Sizes
  /\ boxes \in Seq(Box) /\ result \in Seq(Box)
  /\ suppressed \in Seq(BOOLEAN)
  /\ i \in Nat \ {0}
  /\ Len(detections) <= Len(boxes)

(* The resized picture and its padding stay inside the frame, whatever the *)
(* rounding: the region of interest that resizeWithPadding copies into     *)
(* never makes OpenCV throw (preprocessor.cpp:183).                        *)
RoiInFrame ==
  pc \in {"decode", "nms", "keep", "done"} =>
    /\ pad.width >= 0 /\ pad.width + size.width <= Frame.width
    /\ pad.height >= 0 /\ pad.height + size.height <= Frame.height

(* A picture is refused by an exception only if it is so flat (or so thin) *)
(* that its scaled side is at most one pixel, and always if it is less.    *)
ScaledAtMostOne(image)  == \/ image.height * Frame.width <= image.width
                           \/ image.width * Frame.height <= image.height
ScaledBelowOne(image) == \/ image.height * Frame.width < image.width
                         \/ image.width * Frame.height < image.height

OnlyFlatImagesThrow ==
  /\ pc = "thrown" => ScaledAtMostOne(input.image)
  /\ pc \in {"decode", "nms", "keep", "done"} /\ input.keep => ~ScaledBelowOne(input.image)

(* After decoding, the boxes are those of the confident rows, one each:    *)
(* the class is the first of those with the highest score, the threshold   *)
(* itself is confident enough.                                             *)
FirstBest(scores) ==
  CHOOSE c \in 0..(Classes - 1) : \A d \in 0..(Classes - 1) :
    scores[d] <= scores[c] /\ (d < c => scores[d] < scores[c])

BoxesAreConfidentRows ==
  pc = "nms" =>
    LET confidence(row) == row.obj * row.scores[FirstBest(row.scores)]
        confident == {k \in DOMAIN input.rows : confidence(input.rows[k]) >= 100 * ConfThreshold}
    IN  \E f \in [DOMAIN boxes -> confident] :
          /\ \A k \in confident : \E a \in DOMAIN boxes : f[a] = k
          /\ \A a, b \in DOMAIN boxes : f[a] = f[b] => a = b
          /\ \A a \in DOMAIN boxes :
               LET row == input.rows[f[a]]
               IN  /\ boxes[a].class_id = FirstBest(row.scores)
                   /\ boxes[a].confidence = confidence(row)
                   /\ 2 * boxes[a].x + boxes[a].width = 2 * row.cx
                   /\ 2 * boxes[a].y + boxes[a].height = 2 * row.cy

(* The IoU test is the ratio of the pixels two boxes share to the pixels   *)
(* they cover, and two boxes that only touch share none.                   *)
Pixels(box) == (box.x..(box.x + box.width - 1)) \X (box.y..(box.y + box.height - 1))

OverlapIsIou ==
  pc = "nms" =>
    \A a, b \in DOMAIN boxes :
      Overlap(boxes[a], boxes[b]) <=>
          100 * Cardinality(Pixels(boxes[a]) \cap Pixels(boxes[b]))
        > NmsThreshold * Cardinality(Pixels(boxes[a]) \cup Pixels(boxes[b]))

(* No two boxes the caller gets are duplicates of each other: same class   *)
(* and an IoU above the threshold.                                         *)
KeptApart == \A a, b \in DOMAIN result : a < b => ~Duplicate(result[a], result[b])

(* Nothing is lost without a reason: every confident box is kept, or it is *)
(* a duplicate of a box that IS kept (not of one dropped itself) and is at *)
(* least as confident.                                                     *)
LostHasBetter ==
  pc = "done" =>
    \A k \in DOMAIN boxes : \E r \in DOMAIN result :
      \/ result[r] = boxes[k]
      \/ Duplicate(result[r], boxes[k]) /\ result[r].confidence >= boxes[k].confidence

(* What is reported lies where the network saw it: both edges of a box     *)
(* inside the picture, put through the resize that was really done (whole  *)
(* pixels, rounded down) and the padding, come back within one frame pixel *)
(* (postprocessor.h:23, coordinates are mapped back to the original image).*)
(* Not so for a stretched picture: see the README.                         *)
WithinOnePixel(edge, padding, resized, original, coordinate) ==
  LET shown == coordinate * resized
      seen  == (edge - padding) * scale.num * original
  IN  shown - seen <= scale.num * original /\ seen - shown <= scale.num * original

MapsBack ==
  pc = "done" /\ input.keep =>
    \A k \in DOMAIN result :
      LET box == result[k]
          det == detections[k]
      IN  /\ box.x >= pad.width /\ box.x + box.width <= pad.width + size.width =>
               /\ WithinOnePixel(box.x, pad.width, size.width, input.image.width, det.x)
               /\ WithinOnePixel(box.x + box.width, pad.width, size.width,
                                 input.image.width, det.x + det.width)
          /\ box.y >= pad.height /\ box.y + box.height <= pad.height + size.height =>
               /\ WithinOnePixel(box.y, pad.height, size.height, input.image.height, det.y)
               /\ WithinOnePixel(box.y + box.height, pad.height, size.height,
                                 input.image.height, det.y + det.height)

(* A detection is called what the configuration calls its class.           *)
NamesOfConfig ==
  pc = "done" =>
    \A k \in DOMAIN detections :
      LET c == detections[k].class_id
      IN  detections[k].name = IF c < Classes /\ ClassNames[c + 1] # None
                               THEN ClassNames[c + 1] ELSE [class |-> c]
=============================================================================
