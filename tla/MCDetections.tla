---------------------------- MODULE MCDetections ----------------------------
(* Instances of Detections for TLC.  Three kinds of inputs: every small    *)
(* image without rows (for the letterbox), an enlarged and a reduced image *)
(* with two or three rows, and a stretched one.  The rows' boxes form a    *)
(* chain a - b - c of which only neighbours overlap enough, and one box    *)
(* touches the edge; confidences are above, at and below the threshold.    *)
EXTENDS Detections

CONSTANT car

MCFrame == [width |-> 8, height |-> 6]

Image(w, h) == [width |-> w, height |-> h]
SmallImages == {Image(w, h) : w \in 1..18, h \in 1..8} \cup {Image(1, 7), Image(2, 13)}
FewImages   == {Image(2, 3), Image(14, 20)}

Row(cx, cy, obj, s0, s1) == [cx |-> cx, cy |-> cy, w |-> 2, h |-> 2, obj |-> obj,
                             scores |-> [c \in 0..1 |-> IF c = 0 THEN s0 ELSE s1]]

MCRows == {Row(x, 3, 100, 90, 0) : x \in {3, 4, 5}}
     \cup {Row(x, 3, 100, 50, 50) : x \in {3, 4, 5}}
     \cup {Row(4, 3, 60, 0, 100), Row(1, 1, 50, 100, 20), Row(4, 3, 50, 90, 0), Row(4, 3, 100, 0, 0)}

MCInputs == {[image |-> image, keep |-> TRUE, rows |-> <<>>] : image \in SmallImages}
       \cup {[image |-> image, keep |-> TRUE, rows |-> rows] :
               image \in FewImages, rows \in [1..2 -> MCRows]}
       \cup {[image |-> Image(14, 20), keep |-> TRUE, rows |-> rows] : rows \in [1..3 -> MCRows]}
       \cup {[image |-> Image(3, 2), keep |-> FALSE, rows |-> <<row>>] : row \in MCRows}

MCClassNames == <<car, None>>
=============================================================================
