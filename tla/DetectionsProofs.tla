-------------------------- MODULE DetectionsProofs --------------------------
(***************************************************************************)
(* Proofs about Detections, for any inputs, frame, classes and thresholds: *)
(* the picture is copied inside its frame, and non-maximum suppression     *)
(* hands over boxes of which no two are duplicates, and drops none without *)
(* a better one that stays.                                                *)
(*                                                                         *)
(* Nothing is assumed of Duplicate, which is never expanded: the argument  *)
(* is about the order of the loops, not about the arithmetic of IoU.       *)
(***************************************************************************)
EXTENDS Detections, SequenceTheorems, TLAPS

IsSeq(s) == s \in Seq({s[k] : k \in DOMAIN s})

-----------------------------------------------------------------------------
(* The inductive invariant. *)

Counts ==
  /\ pc \in {"idle", "thrown", "decode", "nms", "keep", "done"}
  /\ i \in Nat \ {0}
  /\ IsSeq(boxes) /\ IsSeq(result)
  /\ pc \in {"nms", "keep", "done"} => suppressed \in [1..Len(boxes) -> BOOLEAN]
  /\ pc \in {"idle", "thrown", "decode", "nms"} => result = <<>>
  /\ pc = "done" => i > Len(boxes)

(* How far the outer loop of nms has come: boxes before it have had their  *)
(* turn, and no later turn changes whether they are suppressed.            *)
HadTurn(j) == pc = "nms" => j < i

Suppression ==
  pc \in {"nms", "keep", "done"} =>
    /\ ByConfidence(boxes)
    /\ \A j, k \in 1..Len(boxes) :
         j < k /\ HadTurn(j) /\ ~suppressed[j] /\ ~suppressed[k] => ~Duplicate(boxes[j], boxes[k])
    /\ \A k \in 1..Len(boxes) : suppressed[k] =>
         \E j \in 1..Len(boxes) :
           j < k /\ HadTurn(j) /\ ~suppressed[j] /\ Duplicate(boxes[j], boxes[k])

(* result has the boxes below i that were not suppressed, in their order. *)
IsBox(r, j) == j < i /\ ~suppressed[j] /\ result[r] = boxes[j]

Selection ==
  pc \in {"keep", "done"} =>
    /\ \A j \in 1..Len(boxes) : j < i /\ ~suppressed[j] => \E r \in DOMAIN result : IsBox(r, j)
    /\ \A a \in DOMAIN result : \E j \in 1..Len(boxes) : IsBox(a, j)
    /\ \A a, b \in DOMAIN result : a < b =>
         \E j, k \in 1..Len(boxes) : j < k /\ IsBox(a, j) /\ IsBox(b, k)

NmsInv == Counts /\ Suppression /\ Selection

-----------------------------------------------------------------------------
(* What appending to a sequence of anything does to it. *)
LEMMA AppendToSeq ==
  ASSUME NEW s, IsSeq(s), NEW e
  PROVE  /\ IsSeq(Append(s, e))
         /\ Len(s) \in Nat /\ DOMAIN s = 1..Len(s)
         /\ Len(Append(s, e)) = Len(s) + 1
         /\ DOMAIN Append(s, e) = 1..(Len(s) + 1)
         /\ \A k \in 1..Len(s) : Append(s, e)[k] = s[k]
         /\ Append(s, e)[Len(s) + 1] = e
<1> DEFINE S == {s[k] : k \in DOMAIN s} \cup {e}
           a == Append(s, e)
<1>1. s \in Seq(S) /\ e \in S
  BY DEF IsSeq
<1>2. /\ a \in Seq(S) /\ Len(a) = Len(s) + 1
      /\ \A k \in 1..Len(s) : a[k] = s[k]
      /\ a[Len(s) + 1] = e
  BY <1>1, AppendProperties
<1>3. Len(s) \in Nat /\ DOMAIN s = 1..Len(s) /\ DOMAIN a = 1..(Len(s) + 1)
  BY <1>1, <1>2, LenProperties
<1>4. a \in Seq({a[k] : k \in DOMAIN a})
  <2>1. a \in [1..Len(a) -> S]
    BY <1>2, LenProperties
  <2>2. a \in [1..Len(a) -> {a[k] : k \in DOMAIN a}]
    BY <2>1
  <2> QED
    BY <2>2, <1>2, <1>3, SeqDef
<1> QED
  BY <1>2, <1>3, <1>4 DEF IsSeq

(* A function from 1..n is a sequence of length n. *)
LEMMA FunctionIsSeq ==
  ASSUME NEW n \in Nat, NEW s, DOMAIN s = 1..n, s = [k \in 1..n |-> s[k]]
  PROVE  IsSeq(s) /\ Len(s) = n
<1>1. s \in [1..n -> {s[k] : k \in DOMAIN s}]
  OBVIOUS
<1>2. s \in Seq({s[k] : k \in DOMAIN s})
  BY <1>1, SeqDef
<1> QED
  BY <1>2, LenProperties DEF IsSeq

(* The empty sequence is one. *)
LEMMA EmptyIsSeq == IsSeq(<<>>) /\ Len(<<>>) = 0 /\ DOMAIN <<>> = {}
BY EmptySeq DEF IsSeq

-----------------------------------------------------------------------------
(* The loop of decodeOutput collects any boxes; nothing is selected yet. *)
LEMMA DecodeStep ==
  ASSUME NmsInv, Decode
  PROVE  NmsInv'
<1>1. IsSeq(boxes')
  BY AppendToSeq DEF NmsInv, Counts, Decode
<1>2. Counts'
  BY <1>1 DEF NmsInv, Counts, Decode
<1> QED
  BY <1>2 DEF NmsInv, Suppression, Selection, Decode

(* std::sort leaves a sequence of the same length, in descending order. *)
LEMMA SortStep ==
  ASSUME NmsInv, Sort
  PROVE  NmsInv'
<1>1. Len(boxes) \in Nat
  BY AppendToSeq DEF NmsInv, Counts
<1>2. PICK p \in Orders(Len(boxes)) :
        /\ boxes' = [k \in 1..Len(boxes) |-> boxes[p[k]]]
        /\ ByConfidence(boxes')
  BY DEF Sort
<1>3. IsSeq(boxes') /\ Len(boxes') = Len(boxes)
  BY <1>1, <1>2, FunctionIsSeq
<1>4. suppressed' = [k \in 1..Len(boxes') |-> FALSE]
  BY <1>3 DEF Sort
<1>5. Counts'
  BY <1>3, <1>4 DEF NmsInv, Counts, Sort
<1>6. Suppression'
  <2>1. \A j \in 1..Len(boxes') : ~HadTurn(j)'
    BY DEF HadTurn, Sort
  <2> QED
    BY <1>2, <1>4, <2>1 DEF Suppression
<1> QED
  BY <1>5, <1>6 DEF NmsInv, Selection, Sort

(* A turn of the outer loop of nms: a box suppressed now is worse than     *)
(* box i, which stays; the boxes up to i keep their state for good.        *)
LEMMA SuppressStep ==
  ASSUME NmsInv, Suppress
  PROVE  NmsInv'
<1> DEFINE N == 1..Len(boxes)
<1>1. /\ Len(boxes) \in Nat /\ i \in N
      /\ suppressed \in [N -> BOOLEAN]
      /\ pc = "nms" /\ pc' = "nms" /\ boxes' = boxes /\ i' = i + 1
  BY AppendToSeq DEF NmsInv, Counts, Suppress
<1>2. \A k \in N : suppressed'[k] <=> suppressed[k] \/ Drops(k)
  BY <1>1 DEF Suppress
<1>3. suppressed' \in [N -> BOOLEAN]
  BY <1>1 DEF Suppress, Drops, Duplicate
<1>4. \A j \in N : j <= i => (suppressed'[j] <=> suppressed[j])
  BY <1>1, <1>2 DEF Drops
<1>5. Counts'
  BY <1>1, <1>3 DEF NmsInv, Counts, Suppress
<1>6. ASSUME NEW j \in N, NEW k \in N, j < k, j < i', ~suppressed'[j], ~suppressed'[k]
      PROVE  ~Duplicate(boxes[j], boxes[k])
  <2>1. ~suppressed[j] /\ ~suppressed[k] /\ ~Drops(k)
    BY <1>1, <1>2, <1>6
  <2>2. CASE j = i
    BY <2>1, <2>2, <1>6 DEF Drops
  <2>3. CASE j < i
    BY <2>1, <2>3, <1>1, <1>6 DEF NmsInv, Suppression, HadTurn
  <2> QED
    BY <1>1, <1>6, <2>2, <2>3
<1>7. ASSUME NEW k \in N, suppressed'[k]
      PROVE  \E j \in N : j < k /\ j < i' /\ ~suppressed'[j] /\ Duplicate(boxes[j], boxes[k])
  <2>1. CASE suppressed[k]
    <3>1. PICK j \in N : j < k /\ j < i /\ ~suppressed[j] /\ Duplicate(boxes[j], boxes[k])
      BY <2>1, <1>1 DEF NmsInv, Suppression, HadTurn
    <3> QED
      BY <3>1, <1>1, <1>4
  <2>2. CASE Drops(k)
    BY <2>2, <1>1, <1>4 DEF Drops
  <2> QED
    BY <1>2, <1>7, <2>1, <2>2
<1>8. Suppression'
  <2>1. ByConfidence(boxes)
    BY <1>1 DEF NmsInv, Suppression
  <2>2. \A j : HadTurn(j)' <=> j < i'
    BY <1>1 DEF HadTurn
  <2> QED
    BY <1>1, <1>6, <1>7, <2>1, <2>2 DEF Suppression
<1> QED
  BY <1>1, <1>5, <1>8 DEF NmsInv, Selection

(* When the last box had its turn, all of them had. *)
LEMMA StartKeepingStep ==
  ASSUME NmsInv, StartKeeping
  PROVE  NmsInv'
<1>1. Len(boxes) \in Nat /\ DOMAIN result = {}
  BY AppendToSeq, EmptyIsSeq DEF NmsInv, Counts, StartKeeping
<1>2. Counts'
  BY DEF NmsInv, Counts, StartKeeping
<1>3. Suppression'
  <2>1. \A j \in 1..Len(boxes) : HadTurn(j) /\ HadTurn(j)'
    BY <1>1 DEF NmsInv, Counts, HadTurn, StartKeeping
  <2> QED
    BY <2>1 DEF NmsInv, Suppression, StartKeeping
<1>4. Selection'
  BY <1>1 DEF Selection, StartKeeping
<1> QED
  BY <1>2, <1>3, <1>4 DEF NmsInv
(* A turn of the loop that copies the boxes that stay. *)
LEMMA KeepStep ==
  ASSUME NmsInv, Keep
  PROVE  NmsInv'
<1> DEFINE N == 1..Len(boxes)
           IsNow(r, j) == j < i + 1 /\ ~suppressed[j] /\ result'[r] = boxes[j]
<1>1. /\ Len(boxes) \in Nat /\ i \in N
      /\ pc = "keep" /\ pc' = "keep" /\ i' = i + 1
      /\ boxes' = boxes /\ suppressed' = suppressed
  BY AppendToSeq DEF NmsInv, Counts, Keep
<1>2. /\ IsSeq(result)
      /\ \A r, j : IsBox(r, j)' <=> IsNow(r, j)
  BY <1>1 DEF NmsInv, Counts, IsBox
<1>3. Suppression'
  <2>1. \A j : HadTurn(j) /\ HadTurn(j)'
    BY <1>1 DEF HadTurn
  <2> QED
    BY <1>1, <2>1 DEF NmsInv, Suppression
<1>4. CASE suppressed[i]
  <2>1. result' = result
    BY <1>4 DEF Keep
  <2>2. Counts'
    BY <1>1, <2>1 DEF NmsInv, Counts
  <2>3. \A r, j : j \in N => (IsNow(r, j) <=> IsBox(r, j))
    BY <1>1, <1>2, <1>4, <2>1 DEF IsBox
  <2>4. \A j \in N : j < i + 1 /\ ~suppressed[j] => j < i
    BY <1>1, <1>4
  <2>5. Selection'
    <3>1. \A j \in N : j < i + 1 /\ ~suppressed[j] => \E r \in DOMAIN result : IsNow(r, j)
      BY <1>1, <2>3, <2>4 DEF NmsInv, Selection
    <3>2. \A a \in DOMAIN result : \E j \in N : IsNow(a, j)
      BY <1>1, <2>3 DEF NmsInv, Selection
    <3>3. \A a, b \in DOMAIN result : a < b => \E j, k \in N : j < k /\ IsNow(a, j) /\ IsNow(b, k)
      BY <1>1, <2>3 DEF NmsInv, Selection
    <3> HIDE DEF IsNow
    <3> QED
      BY <1>1, <1>2, <2>1, <3>1, <3>2, <3>3 DEF Selection
  <2> QED
    BY <1>3, <2>2, <2>5 DEF NmsInv
<1>5. CASE ~suppressed[i]
  <2> DEFINE n == Len(result) + 1
  <2>1. result' = Append(result, boxes[i])
    BY <1>5 DEF Keep
  <2>2. /\ IsSeq(result') /\ Len(result) \in Nat
        /\ DOMAIN result = 1..Len(result) /\ DOMAIN result' = 1..n
        /\ \A r \in 1..Len(result) : result'[r] = result[r]
        /\ result'[n] = boxes[i]
    BY <1>2, <2>1, AppendToSeq
  <2>3. Counts'
    BY <1>1, <2>2 DEF NmsInv, Counts
  <2>4. \A r \in DOMAIN result, j \in N : IsBox(r, j) => IsNow(r, j)
    BY <1>1, <1>2, <2>2 DEF IsBox
  <2>5. IsNow(n, i)
    BY <1>1, <1>2, <1>5, <2>2
  <2>6. \A r \in DOMAIN result' : r = n \/ r \in DOMAIN result
    BY <2>2
  <2>7. ASSUME NEW j \in N, j < i + 1, ~suppressed[j]
        PROVE  \E r \in DOMAIN result' : IsNow(r, j)
    <3>1. CASE j = i
      BY <3>1, <2>2, <2>5
    <3>2. CASE j < i
      <4>1. PICK r \in DOMAIN result : IsBox(r, j)
        BY <3>2, <2>7, <1>1 DEF NmsInv, Selection
      <4> QED
        BY <4>1, <2>2, <2>4
    <3> QED
      BY <1>1, <2>7, <3>1, <3>2
  <2>8. ASSUME NEW r \in DOMAIN result
        PROVE  \E j \in N : j < i /\ IsNow(r, j)
    BY <1>1, <2>4 DEF NmsInv, Selection, IsBox
  <2>9. ASSUME NEW a \in DOMAIN result', NEW b \in DOMAIN result', a < b
        PROVE  \E j, k \in N : j < k /\ IsNow(a, j) /\ IsNow(b, k)
    <3>1. a \in DOMAIN result
      BY <2>2, <2>9
    <3>2. CASE b = n
      BY <1>1, <2>5, <2>8, <3>1, <3>2
    <3>3. CASE b \in DOMAIN result
      BY <1>1, <2>4, <2>9, <3>1, <3>3 DEF NmsInv, Selection
    <3> QED
      BY <2>6, <3>2, <3>3
  <2>10. Selection'
    BY <1>1, <1>2, <2>5, <2>6, <2>7, <2>8, <2>9 DEF Selection
  <2> QED
    BY <1>3, <2>3, <2>10 DEF NmsInv
<1> QED
  BY <1>4, <1>5

(* The invariant holds in the initial state and is kept by every step.     *)
LEMMA NmsInvInit == Init => NmsInv
BY EmptyIsSeq DEF Init, NmsInv, Counts, Suppression, Selection

(* No step of the two processors breaks the invariant. *)
LEMMA NmsInvStep == NmsInv /\ [Next]_vars => NmsInv'
<1> SUFFICES ASSUME NmsInv, [Next]_vars
             PROVE  NmsInv'
  OBVIOUS
<1>1. ASSUME NEW in \in Inputs, Process(in)
      PROVE  NmsInv'
  <2>1. pc' \in {"thrown", "decode"} /\ UNCHANGED <<boxes, suppressed, i, result>> /\ pc = "idle"
    BY <1>1 DEF Process, Letterbox, Stretch, Resize
  <2> QED
    BY <2>1 DEF NmsInv, Counts, Suppression, Selection
<1>2. CASE Map
  BY <1>2, AppendToSeq DEF NmsInv, Counts, Suppression, Selection, HadTurn, IsBox, Map
<1>3. CASE Return
  BY <1>3, EmptyIsSeq DEF NmsInv, Counts, Suppression, Selection, Return
<1>4. CASE UNCHANGED vars
  BY <1>4 DEF NmsInv, Counts, Suppression, Selection, HadTurn, IsBox, vars
<1> QED
  BY <1>1, <1>2, <1>3, <1>4, DecodeStep, SortStep, SuppressStep, StartKeepingStep, KeepStep
  DEF Next

(* In every reachable state, the sequences and loops are where the code    *)
(* of Postprocessor::nms says they are.                                    *)
THEOREM NmsInvariant == Spec => []NmsInv
BY NmsInvInit, NmsInvStep, PTL DEF Spec

(* No two detections of one image are duplicates: same class and an IoU    *)
(* above the threshold (Postprocessor::nms).                               *)
THEOREM DetectionsApart == Spec => []KeptApart
<1>1. NmsInv => KeptApart
  <2> SUFFICES ASSUME NmsInv, NEW a \in DOMAIN result, NEW b \in DOMAIN result, a < b
               PROVE  ~Duplicate(result[a], result[b])
    BY DEF KeptApart
  <2>1. pc \in {"keep", "done"}
    BY EmptyIsSeq DEF NmsInv, Counts
  <2>2. PICK j, k \in 1..Len(boxes) : j < k /\ IsBox(a, j) /\ IsBox(b, k)
    BY <2>1 DEF NmsInv, Selection
  <2>3. ~Duplicate(boxes[j], boxes[k])
    BY <2>1, <2>2 DEF NmsInv, Suppression, HadTurn, IsBox
  <2> QED
    BY <2>2, <2>3 DEF IsBox
<1> QED
  BY <1>1, NmsInvariant, PTL

(* A confident box is handed over, or it is a duplicate of one that is and *)
(* that is at least as confident (Postprocessor::nms).                     *)
THEOREM NothingLostForNothing == Spec => []LostHasBetter
<1>1. NmsInv => LostHasBetter
  <2> SUFFICES ASSUME NmsInv, pc = "done", NEW k \in DOMAIN boxes
               PROVE  \E r \in DOMAIN result :
                        \/ result[r] = boxes[k]
                        \/ /\ Duplicate(result[r], boxes[k])
                           /\ result[r].confidence >= boxes[k].confidence
    BY DEF LostHasBetter
  <2>1. /\ Len(boxes) \in Nat /\ DOMAIN boxes = 1..Len(boxes)
        /\ \A j \in 1..Len(boxes) : j < i
    BY AppendToSeq DEF NmsInv, Counts
  <2>2. \A j \in 1..Len(boxes) : ~suppressed[j] => \E r \in DOMAIN result : result[r] = boxes[j]
    BY <2>1 DEF NmsInv, Selection, IsBox
  <2>3. CASE ~suppressed[k]
    BY <2>1, <2>2, <2>3
  <2>4. CASE suppressed[k]
    <3>1. PICK j \in 1..Len(boxes) : j < k /\ ~suppressed[j] /\ Duplicate(boxes[j], boxes[k])
      BY <2>1, <2>4 DEF NmsInv, Suppression
    <3>2. boxes[j].confidence >= boxes[k].confidence
      BY <2>1, <3>1 DEF NmsInv, Suppression, ByConfidence
    <3> QED
      BY <2>2, <3>1, <3>2
  <2> QED
    BY <2>3, <2>4
<1> QED
  BY <1>1, NmsInvariant, PTL
-----------------------------------------------------------------------------
(* The letterbox. *)

(* A ratio at most q rounds down to at most q. *)
LEMMA QuotientBounded ==
  ASSUME NEW a \in Nat, NEW d \in Nat \ {0}, NEW q \in Nat, a <= q * d
  PROVE  a \div d \in Int /\ a \div d <= q
<1> DEFINE r == a \div d
<1>1. r \in Int /\ d * r <= a
  OBVIOUS
<1>2. d * r <= d * q
  BY <1>1
<1>3. ASSUME r >= q + 1
      PROVE  FALSE
  <2>1. d * r >= d * (q + 1)
    BY <1>1, <1>3
  <2> QED
    BY <1>2, <2>1, <1>1
<1> QED
  BY <1>1, <1>3

(* Truncation only makes a side shorter (resizeWithPadding's casts). *)
LEMMA TruncatedBounded ==
  ASSUME NEW side \in Nat, NEW num \in Nat, NEW den \in Nat \ {0}, NEW q \in Nat,
         side * num <= q * den,
         NEW w \in Truncated(side, [num |-> num, den |-> den])
  PROVE  w \in Int /\ w <= q
<1>1. side * num \in Nat
  OBVIOUS
<1>2. (side * num) \div den \in Int /\ (side * num) \div den <= q
  BY <1>1, QuotientBounded
<1>3. w = (side * num) \div den \/ w = (side * num) \div den - 1
  BY DEF Truncated
<1> QED
  BY <1>2, <1>3

(* With the smaller of the two ratios both sides fit the frame. *)
LEMMA ScaledFits ==
  ASSUME NEW image \in Sizes,
         NEW w \in Truncated(image.width, ScaleOf(image)),
         NEW h \in Truncated(image.height, ScaleOf(image))
  PROVE  w \in Int /\ h \in Int /\ w <= Frame.width /\ h <= Frame.height
<1> DEFINE iw == image.width
           ih == image.height
           fw == Frame.width
           fh == Frame.height
<1>1. iw \in Nat \ {0} /\ ih \in Nat \ {0} /\ fw \in Nat \ {0} /\ fh \in Nat \ {0}
  BY InputsAssumption DEF Sizes
<1>2. /\ iw * fw \in Nat /\ iw * fw = fw * iw
      /\ ih * fh \in Nat /\ ih * fh = fh * ih
      /\ fw * ih \in Nat /\ ih * fw = fw * ih
      /\ fh * iw \in Nat /\ iw * fh = fh * iw
  BY <1>1
<1>3. CASE fw * ih <= fh * iw
  <2>1. ScaleOf(image) = [num |-> fw, den |-> iw]
    BY <1>3 DEF ScaleOf
  <2> HIDE DEF iw, ih, fw, fh
  <2>2. w \in Truncated(iw, [num |-> fw, den |-> iw]) /\ h \in Truncated(ih, [num |-> fw, den |-> iw])
    BY <2>1 DEF iw, ih
  <2>3. w \in Int /\ w <= fw
    <3>1. iw * fw <= fw * iw
      BY <1>2
    <3> QED
      BY <1>1, <2>2, <3>1, TruncatedBounded
  <2>4. h \in Int /\ h <= fh
    <3>1. ih * fw <= fh * iw
      BY <1>2, <1>3
    <3> QED
      BY <1>1, <2>2, <3>1, TruncatedBounded
  <2> QED
    BY <2>3, <2>4 DEF fw, fh
<1>4. CASE ~(fw * ih <= fh * iw)
  <2>1. ScaleOf(image) = [num |-> fh, den |-> ih]
    BY <1>4 DEF ScaleOf
  <2> HIDE DEF iw, ih, fw, fh
  <2>2. w \in Truncated(iw, [num |-> fh, den |-> ih]) /\ h \in Truncated(ih, [num |-> fh, den |-> ih])
    BY <2>1 DEF iw, ih
  <2>3. w \in Int /\ w <= fw
    <3>1. iw * fh <= fw * ih
      BY <1>2, <1>4
    <3> QED
      BY <1>1, <2>2, <3>1, TruncatedBounded
  <2>4. h \in Int /\ h <= fh
    <3>1. ih * fh <= fh * ih
      BY <1>2
    <3> QED
      BY <1>1, <2>2, <3>1, TruncatedBounded
  <2> QED
    BY <2>3, <2>4 DEF fw, fh
<1> QED
  BY <1>3, <1>4

(* The resized picture and its padding stay inside the frame, whatever the *)
(* sizes and the rounding: resizeWithPadding never copies outside it.      *)
THEOREM PictureInFrame == Spec => []RoiInFrame
<1> DEFINE Seen == {"decode", "nms", "keep", "done"}
           Shown == UNCHANGED <<pad, size>> /\ (pc' \in Seen => pc \in Seen)
<1>1. Init => RoiInFrame
  BY DEF Init, RoiInFrame
<1>2. ASSUME RoiInFrame, Shown
      PROVE  RoiInFrame'
  BY <1>2 DEF RoiInFrame
<1>3. ASSUME NEW in \in Inputs, Process(in)
      PROVE  RoiInFrame'
  <2>1. Frame.width \in Nat /\ Frame.height \in Nat /\ in.image \in Sizes
    BY InputsAssumption DEF Sizes
  <2>2. CASE Letterbox(in.image)
    <3>1. PICK w \in Truncated(in.image.width, ScaleOf(in.image)),
               h \in Truncated(in.image.height, ScaleOf(in.image)) :
            Resize(ScaleOf(in.image), [width |-> w, height |-> h])
      BY <2>2 DEF Letterbox
    <3>2. w \in Int /\ h \in Int /\ w <= Frame.width /\ h <= Frame.height
      BY <2>1, ScaledFits
    <3>3. CASE pc' = "thrown"
      BY <3>3 DEF RoiInFrame
    <3>4. CASE /\ pc' = "decode" /\ size' = [width |-> w, height |-> h]
               /\ pad' = [width  |-> (Frame.width - w) \div 2,
                          height |-> (Frame.height - h) \div 2]
      BY <2>1, <3>2, <3>4 DEF RoiInFrame
    <3> QED
      BY <3>1, <3>3, <3>4 DEF Resize, PaddingOf
  <2>3. CASE Stretch
    BY <2>1, <2>3 DEF Stretch, RoiInFrame
  <2> QED
    BY <1>3, <2>2, <2>3 DEF Process
<1>4. ASSUME RoiInFrame, [Next]_vars
      PROVE  RoiInFrame'
  <2>1. CASE Decode \/ Sort \/ Suppress \/ StartKeeping \/ Keep \/ Map \/ Return
    BY <1>2, <1>4, <2>1 DEF Decode, Sort, Suppress, StartKeeping, Keep, Map, Return, geometry
  <2>2. CASE UNCHANGED vars
    BY <1>2, <1>4, <2>2 DEF vars
  <2> QED
    BY <1>3, <1>4, <2>1, <2>2 DEF Next
<1> QED
  BY <1>1, <1>4, PTL DEF Spec
=============================================================================
