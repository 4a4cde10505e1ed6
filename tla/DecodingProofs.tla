--------------------------- MODULE DecodingProofs ---------------------------
(***************************************************************************)
(* Proofs about Detections, for any inputs, frame, classes and thresholds: *)
(* the boxes are those of the confident rows, with the first of the best   *)
(* classes, and are called what the configuration calls it; the types.     *)
(***************************************************************************)
EXTENDS DetectionsProofs, FiniteSetTheorems, WellFoundedInduction

(* Induction over the natural numbers, for the set of those that have a    *)
(* property: its least exception would be a contradiction.                 *)
LEMMA SetInduction ==
  ASSUME NEW S, 0 \in S, \A n \in Nat : n \in S => n + 1 \in S
  PROVE  Nat \subseteq S
<1> DEFINE T == Nat \ S
<1>1. SUFFICES ASSUME T # {} PROVE FALSE OBVIOUS
<1>2. T \subseteq Nat OBVIOUS
<1>3. \A n \in T : n \in Nat /\ n # 0 /\ (n - 1 \in Nat => n - 1 \in T) OBVIOUS
<1> HIDE DEF T
<1>4. PICK x \in T : \A y \in T : ~(<<y, x>> \in OpToRel(<, Nat))
  BY <1>1, <1>2, NatLessThanWellFounded, WFMin
<1>5. \A y \in T : ~(y < x) BY <1>2, <1>4 DEF OpToRel
<1>6. x \in Nat /\ x # 0 /\ x - 1 \in T BY <1>3
<1>7. QED BY <1>5, <1>6

-----------------------------------------------------------------------------
(* The loop over the classes in decodeOutput. *)
Zero == [class |-> 0, score |-> 0]
Better(best, c, scores) == IF scores[c] > best.score THEN [class |-> c, score |-> scores[c]] ELSE best

(* f has the best class below n + 1 for every n in its domain. *)
IsBest(f, n, scores) ==
  f = [c \in -1..(n - 1) |-> IF c = -1 THEN Zero ELSE Better(f[c - 1], c, scores)]

(* The loop is defined for any number of classes. *)
LEMMA BestExists ==
  ASSUME NEW scores
  PROVE  \A n \in Nat : \E f : IsBest(f, n, scores)
<1> DEFINE S == {n \in Nat : \E f : IsBest(f, n, scores)}
<1>1. 0 \in S
  <2>1. IsBest([c \in -1..-1 |-> Zero], 0, scores) BY DEF IsBest
  <2>2. QED BY <2>1
<1>2. ASSUME NEW n \in Nat, n \in S PROVE n + 1 \in S
  <2>1. PICK f : IsBest(f, n, scores) BY <1>2
  <2> DEFINE g == [c \in -1..n |-> IF c = n THEN Better(f[n - 1], n, scores) ELSE f[c]]
  <2>2. \A c \in -1..n : g[c] = IF c = -1 THEN Zero ELSE Better(g[c - 1], c, scores)
    <3>1. TAKE c \in -1..n
    <3>2. CASE c = n BY <3>2
    <3>3. CASE c # n
      <4>1. c \in -1..(n - 1) /\ g[c] = f[c] /\ (c # -1 => g[c - 1] = f[c - 1]) BY <3>3
      <4>2. f[c] = IF c = -1 THEN Zero ELSE Better(f[c - 1], c, scores) BY <2>1, <4>1 DEF IsBest
      <4>3. QED BY <4>1, <4>2
    <3>4. QED BY <3>2, <3>3
  <2>3. g = [c \in -1..n |-> g[c]] OBVIOUS
  <2> HIDE DEF g
  <2>4. g = [c \in -1..n |-> IF c = -1 THEN Zero ELSE Better(g[c - 1], c, scores)]
    BY <2>2, <2>3
  <2>5. IsBest(g, n + 1, scores) BY <2>4 DEF IsBest
  <2>6. QED BY <2>5
<1> HIDE DEF S
<1>3. Nat \subseteq S BY <1>1, <1>2, SetInduction
<1>4. QED BY <1>3 DEF S

(* best is the first of the first n classes with their highest score. *)
FirstOf(best, n, scores) ==
  /\ best.class \in 0..(n - 1) /\ best.score = scores[best.class]
  /\ best = [class |-> best.class, score |-> best.score]
  /\ \A d \in 0..(n - 1) : /\ scores[d] <= best.score
                           /\ d < best.class => scores[d] < best.score

(* What decodeOutput's comparison with > leaves is the first class with the *)
(* highest score.                                                         *)
LEMMA BestIsFirst ==
  ASSUME NEW n \in Nat, NEW scores \in [0..(n - 1) -> Nat], NEW f, IsBest(f, n, scores)
  PROVE  /\ f[-1] = Zero
         /\ n # 0 => FirstOf(f[n - 1], n, scores)
<1>1. f[-1] = Zero BY DEF IsBest
<1>2. \A c \in 0..(n - 1) : f[c] = Better(f[c - 1], c, scores)
  <2>1. TAKE c \in 0..(n - 1)
  <2>2. c \in -1..(n - 1) /\ c # -1 OBVIOUS
  <2>3. QED BY <2>2 DEF IsBest
<1> DEFINE S == {m \in Nat : m < n => FirstOf(f[m], m + 1, scores)}
<1>3. 0 \in S
  <2>1. SUFFICES ASSUME 0 < n PROVE FirstOf(f[0], 1, scores) OBVIOUS
  <2>2. f[0] = Better(Zero, 0, scores) /\ scores[0] \in Nat BY <1>1, <1>2, <2>1
  <2>3. QED BY <2>2 DEF Better, Zero, FirstOf
<1>4. ASSUME NEW m \in Nat, m \in S PROVE m + 1 \in S
  <2>1. SUFFICES ASSUME m + 1 < n PROVE FirstOf(f[m + 1], m + 2, scores) OBVIOUS
  <2>2. FirstOf(f[m], m + 1, scores) BY <1>4, <2>1
  <2>3. f[m + 1] = Better(f[m], m + 1, scores) BY <1>2, <2>1
  <2>4. \A d \in 0..(m + 1) : scores[d] \in Nat /\ (d \in 0..m \/ d = m + 1) BY <2>1
  <2>5. CASE scores[m + 1] > f[m].score BY <2>2, <2>3, <2>4, <2>5 DEF Better, FirstOf
  <2>6. CASE ~(scores[m + 1] > f[m].score)
    <3>1. f[m + 1] = f[m] BY <2>3, <2>6 DEF Better
    <3>2. QED BY <2>2, <2>4, <2>6, <3>1 DEF FirstOf
  <2>7. QED BY <2>5, <2>6
<1> HIDE DEF S
<1>5. Nat \subseteq S BY <1>3, <1>4, SetInduction
<1>6. n # 0 => n - 1 \in S BY <1>5
<1>7. QED BY <1>1, <1>6 DEF S

(* BestClass finds the first of the classes with the highest score. *)
LEMMA BestClassIsFirst ==
  ASSUME NEW scores \in [0..(Classes - 1) -> Nat]
  PROVE  /\ Classes = 0 => BestClass(scores) = Zero
         /\ Classes # 0 => /\ FirstBest(scores) \in 0..(Classes - 1)
                           /\ BestClass(scores).class = FirstBest(scores)
                           /\ BestClass(scores).score = scores[FirstBest(scores)]
<1>1. Classes \in Nat BY ConfigAssumption
<1>2. \E f : IsBest(f, Classes, scores) BY <1>1, BestExists
<1> DEFINE best == CHOOSE f : IsBest(f, Classes, scores)
<1>3. IsBest(best, Classes, scores) /\ BestClass(scores) = best[Classes - 1]
  <2>1. IsBest(best, Classes, scores) BY <1>2
  <2>2. BestClass(scores) = best[Classes - 1] BY DEF IsBest, BestClass, Better, Zero
  <2>3. QED BY <2>1, <2>2
<1> HIDE DEF best
<1>4. CASE Classes = 0
  <2>1. best[-1] = Zero BY <1>1, <1>3, BestIsFirst
  <2>2. Classes - 1 = -1 BY <1>4
  <2>3. QED BY <1>3, <1>4, <2>1, <2>2
<1>5. CASE Classes # 0
  <2>1. FirstOf(BestClass(scores), Classes, scores) BY <1>1, <1>3, <1>5, BestIsFirst
  <2> DEFINE first == BestClass(scores).class
  <2>2. /\ first \in 0..(Classes - 1)
        /\ \A d \in 0..(Classes - 1) : scores[d] <= scores[first] /\ (d < first => scores[d] < scores[first])
    BY <2>1 DEF FirstOf
  <2>3. ASSUME NEW c \in 0..(Classes - 1),
               \A d \in 0..(Classes - 1) : scores[d] <= scores[c] /\ (d < c => scores[d] < scores[c])
        PROVE  c = first
    <3>1. scores[c] \in Nat /\ scores[first] \in Nat BY <1>1, <2>2
    <3> HIDE DEF first
    <3>2. c \in Int /\ first \in Int BY <1>1, <2>2
    <3>3. ~(c < first) BY <2>2, <2>3, <3>1
    <3>4. ~(first < c) BY <2>2, <2>3, <3>1
    <3>5. QED BY <3>2, <3>3, <3>4
  <2> HIDE DEF first
  <2>4. FirstBest(scores) = first BY <2>2, <2>3 DEF FirstBest
  <2>5. QED BY <1>5, <2>1, <2>2, <2>4 DEF FirstOf, first
<1>6. QED BY <1>4, <1>5

-----------------------------------------------------------------------------
(* From rows to boxes. *)

(* The rows among the first n whose boxes are confident, and boxes as      *)
(* those of these rows, each once, in any order.                           *)
ConfidentRows(n) == {k \in 1..n : Confident(BoxOf(input.rows[k]))}
BoxesOf(rows) ==
  \E f \in [DOMAIN boxes -> rows] :
    /\ \A k \in rows : \E a \in DOMAIN boxes : f[a] = k
    /\ \A a, b \in DOMAIN boxes : f[a] = f[b] => a = b
    /\ \A a \in DOMAIN boxes : boxes[a] = BoxOf(input.rows[f[a]])

DecodeInv ==
  /\ pc \in {"idle", "thrown", "decode", "nms", "keep", "done"}
  /\ IF pc = "idle" THEN input = None ELSE input \in Inputs
  /\ i \in Nat \ {0}
  /\ boxes \in Seq(Box)
  /\ pc \in {"idle", "thrown"} => boxes = <<>> /\ i = 1
  /\ pc = "decode" => i <= Len(input.rows) + 1 /\ BoxesOf(ConfidentRows(i - 1))
  /\ pc = "nms" => BoxesOf(ConfidentRows(Len(input.rows)))

(* The box of a row, with its class. *)
LEMMA BoxOfRow ==
  ASSUME NEW row \in Rows
  PROVE  /\ BoxOf(row) \in Box
         /\ 2 * BoxOf(row).x + BoxOf(row).width = 2 * row.cx
         /\ 2 * BoxOf(row).y + BoxOf(row).height = 2 * row.cy
         /\ Classes # 0 => /\ BoxOf(row).class_id = FirstBest(row.scores)
                           /\ BoxOf(row).confidence = row.obj * row.scores[FirstBest(row.scores)]
<1>1. /\ row.cx \in Int /\ row.cy \in Int /\ row.w \in Even /\ row.h \in Even /\ row.obj \in Nat
      /\ row.scores \in [0..(Classes - 1) -> Nat]
      /\ Classes \in Nat
  BY ConfigAssumption DEF Rows
<1>2. \A n \in Even : n \div 2 \in Int /\ 2 * (n \div 2) = n BY DEF Even
<1> DEFINE best == BestClass(row.scores)
<1>3. best.class \in 0..Classes /\ best.score \in Nat
  <2>1. CASE Classes = 0 BY <1>1, <2>1, BestClassIsFirst DEF Zero
  <2>2. CASE Classes # 0 BY <1>1, <2>2, BestClassIsFirst
  <2>3. QED BY <2>1, <2>2
<1>4. /\ BoxOf(row) = [x |-> row.cx - row.w \div 2, y |-> row.cy - row.h \div 2,
                       width |-> row.w, height |-> row.h,
                       class_id |-> best.class, confidence |-> row.obj * best.score]
  BY DEF BoxOf
<1> HIDE DEF best
<1>5. row.obj * best.score \in Nat BY <1>1, <1>3
<1>6. row.cx - row.w \div 2 \in Int /\ row.cy - row.h \div 2 \in Int BY <1>1, <1>2
<1>7. BoxOf(row) \in Box BY <1>1, <1>3, <1>4, <1>5, <1>6 DEF Box
<1>8. 2 * (row.cx - row.w \div 2) + row.w = 2 * row.cx BY <1>1, <1>2
<1>9. 2 * (row.cy - row.h \div 2) + row.h = 2 * row.cy BY <1>1, <1>2
<1>10. Classes # 0 => best.class = FirstBest(row.scores) /\ best.score = row.scores[FirstBest(row.scores)]
  BY <1>1, BestClassIsFirst DEF best
<1>11. QED BY <1>4, <1>7, <1>8, <1>9, <1>10

(* decodeOutput looks at one row after another. *)
LEMMA DecodeKeeps ==
  ASSUME DecodeInv, Decode
  PROVE  DecodeInv'
<1>1. /\ pc = "decode" /\ input \in Inputs /\ i \in Nat \ {0} /\ i <= Len(input.rows)
      /\ boxes \in Seq(Box) /\ BoxesOf(ConfidentRows(i - 1))
      /\ pc' = pc /\ input' = input /\ i' = i + 1
  BY DEF DecodeInv, Decode
<1>2. input.rows \in Seq(Rows) BY <1>1, InputsAssumption
<1>3. input.rows[i] \in Rows BY <1>1, <1>2
<1> DEFINE box == BoxOf(input.rows[i])
           n == Len(boxes)
<1>4. box \in Box BY <1>3, BoxOfRow
<1>5. boxes' = IF Confident(box) THEN Append(boxes, box) ELSE boxes BY DEF Decode
<1>6. boxes' \in Seq(Box) BY <1>1, <1>4, <1>5
<1>7. \E f \in [DOMAIN boxes' -> ConfidentRows(i)] :
        /\ \A k \in ConfidentRows(i) : \E a \in DOMAIN boxes' : f[a] = k
        /\ \A a, b \in DOMAIN boxes' : f[a] = f[b] => a = b
        /\ \A a \in DOMAIN boxes' : boxes'[a] = BoxOf(input.rows[f[a]])
  <2>1. PICK f \in [DOMAIN boxes -> ConfidentRows(i - 1)] :
          /\ \A k \in ConfidentRows(i - 1) : \E a \in DOMAIN boxes : f[a] = k
          /\ \A a, b \in DOMAIN boxes : f[a] = f[b] => a = b
          /\ \A a \in DOMAIN boxes : boxes[a] = BoxOf(input.rows[f[a]])
    BY <1>1 DEF BoxesOf
  <2>2. CASE ~Confident(box)
    <3>1. boxes' = boxes BY <1>5, <2>2
    <3>2. ConfidentRows(i) = ConfidentRows(i - 1) BY <1>1, <2>2 DEF ConfidentRows
    <3>3. QED BY <2>1, <3>1, <3>2
  <2>3. CASE Confident(box)
    <3>1. ConfidentRows(i) = ConfidentRows(i - 1) \cup {i} /\ i \notin ConfidentRows(i - 1)
      BY <1>1, <2>3 DEF ConfidentRows
    <3>2. /\ n \in Nat /\ DOMAIN boxes = 1..n /\ DOMAIN boxes' = 1..(n + 1)
          /\ \A a \in 1..n : boxes'[a] = boxes[a]
          /\ boxes'[n + 1] = box
      BY <1>1, <1>4, <1>5, <2>3
    <3> HIDE DEF n
    <3> DEFINE g == [a \in 1..(n + 1) |-> IF a = n + 1 THEN i ELSE f[a]]
    <3>3. /\ g[n + 1] = i /\ \A a \in 1..n : g[a] = f[a] /\ g[a] \in ConfidentRows(i - 1)
          /\ \A a \in 1..(n + 1) : a \in 1..n \/ a = n + 1
      BY <2>1, <3>2
    <3>4. g \in [DOMAIN boxes' -> ConfidentRows(i)] BY <3>1, <3>2, <3>3
    <3> HIDE DEF g
    <3>5. \A k \in ConfidentRows(i) : \E a \in DOMAIN boxes' : g[a] = k
      BY <2>1, <3>1, <3>2, <3>3
    <3>6. \A a, b \in DOMAIN boxes' : g[a] = g[b] => a = b
      BY <2>1, <3>1, <3>2, <3>3
    <3>7. \A a \in DOMAIN boxes' : boxes'[a] = BoxOf(input.rows[g[a]])
      BY <2>1, <3>2, <3>3
    <3>8. QED BY <3>4, <3>5, <3>6, <3>7
  <2>4. QED BY <2>2, <2>3
<1>8. ConfidentRows(i - 1)' = ConfidentRows(i)
  <2>1. i' - 1 = i BY <1>1
  <2>2. QED BY <1>1, <2>1 DEF ConfidentRows
<1>9. BoxesOf(ConfidentRows(i - 1))' BY <1>1, <1>7, <1>8 DEF BoxesOf
<1>10. i' \in Nat \ {0} /\ i' <= Len(input'.rows) + 1 BY <1>1, <1>2
<1>11. QED BY <1>1, <1>6, <1>9, <1>10 DEF DecodeInv

(* An order of 1..n reaches every number. *)
LEMMA OrderIsOnto ==
  ASSUME NEW n \in Nat, NEW p \in Orders(n)
  PROVE  /\ p \in [1..n -> 1..n]
         /\ \A a, b \in 1..n : p[a] = p[b] => a = b
         /\ \A k \in 1..n : \E a \in 1..n : p[a] = k
<1>1. p \in [1..n -> 1..n] /\ \A a, b \in 1..n : p[a] = p[b] => a = b BY DEF Orders
<1>2. p \in Injection(1..n, 1..n) BY <1>1 DEF Injection, IsInjective
<1>3. IsFiniteSet(1..n) BY FS_Interval
<1>4. p \in Surjection(1..n, 1..n) BY <1>2, <1>3, FS_Injection
<1>5. QED BY <1>1, <1>4 DEF Surjection

(* Sorting leaves the boxes of the same rows. *)
LEMMA SortKeeps ==
  ASSUME DecodeInv, Sort
  PROVE  DecodeInv'
<1> DEFINE n == Len(boxes)
<1>1. /\ pc = "decode" /\ input \in Inputs /\ i \in Nat \ {0} /\ i > Len(input.rows)
      /\ i <= Len(input.rows) + 1
      /\ boxes \in Seq(Box) /\ BoxesOf(ConfidentRows(i - 1))
      /\ pc' = "nms" /\ input' = input /\ i' = 1
  BY DEF DecodeInv, Sort
<1>2. Len(input.rows) \in Nat BY <1>1, InputsAssumption
<1>3. i - 1 = Len(input.rows) BY <1>1, <1>2
<1>4. n \in Nat /\ DOMAIN boxes = 1..n BY <1>1
<1>5. PICK p \in Orders(n) : boxes' = [k \in 1..n |-> boxes[p[k]]] BY DEF Sort
<1>6. /\ p \in [1..n -> 1..n]
      /\ \A a, b \in 1..n : p[a] = p[b] => a = b
      /\ \A k \in 1..n : \E a \in 1..n : p[a] = k
  BY <1>4, OrderIsOnto
<1> HIDE DEF n
<1>7. boxes' \in Seq(Box) /\ DOMAIN boxes' = 1..n
  <2>1. \A k \in 1..n : boxes[p[k]] \in Box BY <1>1, <1>4, <1>6
  <2>2. boxes' \in [1..n -> Box] BY <1>5, <2>1
  <2>3. QED BY <1>4, <1>5, <2>2, SeqDef
<1> DEFINE rows == ConfidentRows(Len(input.rows))
<1>8. \E g \in [DOMAIN boxes' -> rows] :
        /\ \A k \in rows : \E a \in DOMAIN boxes' : g[a] = k
        /\ \A a, b \in DOMAIN boxes' : g[a] = g[b] => a = b
        /\ \A a \in DOMAIN boxes' : boxes'[a] = BoxOf(input.rows[g[a]])
  <2>1. PICK f \in [DOMAIN boxes -> rows] :
          /\ \A k \in rows : \E a \in DOMAIN boxes : f[a] = k
          /\ \A a, b \in DOMAIN boxes : f[a] = f[b] => a = b
          /\ \A a \in DOMAIN boxes : boxes[a] = BoxOf(input.rows[f[a]])
    BY <1>1, <1>3 DEF BoxesOf
  <2> DEFINE g == [k \in 1..n |-> f[p[k]]]
  <2> HIDE DEF rows
  <2>2. g \in [DOMAIN boxes' -> rows] /\ \A k \in 1..n : g[k] = f[p[k]]
    BY <1>4, <1>6, <1>7, <2>1
  <2> HIDE DEF g
  <2>3. \A k \in rows : \E a \in DOMAIN boxes' : g[a] = k BY <1>4, <1>6, <1>7, <2>1, <2>2
  <2>4. \A a, b \in DOMAIN boxes' : g[a] = g[b] => a = b BY <1>4, <1>6, <1>7, <2>1, <2>2
  <2>5. \A a \in DOMAIN boxes' : boxes'[a] = BoxOf(input.rows[g[a]])
    BY <1>4, <1>5, <1>6, <1>7, <2>1, <2>2
  <2>6. QED BY <2>2, <2>3, <2>4, <2>5
<1>9. ConfidentRows(Len(input.rows))' = rows BY <1>1 DEF ConfidentRows
<1>10. BoxesOf(ConfidentRows(Len(input.rows)))' BY <1>1, <1>8, <1>9 DEF BoxesOf
<1>11. QED BY <1>1, <1>7, <1>10 DEF DecodeInv

(* No step breaks DecodeInv. *)
LEMMA DecodeInvStep == DecodeInv /\ [Next]_vars => DecodeInv'
<1> SUFFICES ASSUME DecodeInv, [Next]_vars PROVE DecodeInv'
  OBVIOUS
<1>1. ASSUME NEW in \in Inputs, Process(in) PROVE DecodeInv'
  <2>1. /\ pc = "idle" /\ pc' \in {"thrown", "decode"} /\ input' = in /\ boxes = <<>> /\ i = 1
        /\ boxes' = boxes /\ i' = i
    BY <1>1 DEF Process, Letterbox, Stretch, Resize, DecodeInv
  <2>2. in.rows \in Seq(Rows) BY <1>1, InputsAssumption
  <2>3. Len(in.rows) \in Nat BY <2>2
  <2>4. ConfidentRows(i - 1)' = {} BY <2>1 DEF ConfidentRows
  <2>5. BoxesOf(ConfidentRows(i - 1))'
    <3>1. DOMAIN boxes' = {} BY <2>1
    <3>2. [a \in {} |-> a] \in [{} -> {}] OBVIOUS
    <3>3. QED BY <2>4, <3>1, <3>2 DEF BoxesOf
  <2>6. <<>> \in Seq(Box) OBVIOUS
  <2>7. QED BY <1>1, <2>1, <2>3, <2>5, <2>6 DEF DecodeInv
<1>2. CASE Suppress
  <2>1. pc = "nms" /\ UNCHANGED <<pc, input, boxes>> /\ i' \in Nat \ {0}
    BY <1>2 DEF Suppress, DecodeInv
  <2>2. ConfidentRows(Len(input.rows))' = ConfidentRows(Len(input.rows)) BY <2>1 DEF ConfidentRows
  <2>3. QED BY <2>1, <2>2 DEF DecodeInv, BoxesOf
<1>3. CASE StartKeeping \/ Keep \/ Map
  BY <1>3 DEF StartKeeping, Keep, Map, DecodeInv
<1>4. CASE Return
  <2>1. <<>> \in Seq(Box) OBVIOUS
  <2>2. QED BY <1>4, <2>1 DEF Return, DecodeInv
<1>5. CASE UNCHANGED vars
  <2>1. /\ ConfidentRows(Len(input.rows))' = ConfidentRows(Len(input.rows))
        /\ ConfidentRows(i - 1)' = ConfidentRows(i - 1)
    BY <1>5 DEF ConfidentRows, vars
  <2>2. QED BY <1>5, <2>1 DEF DecodeInv, BoxesOf, vars
<1>6. QED BY <1>1, <1>2, <1>3, <1>4, <1>5, DecodeKeeps, SortKeeps DEF Next

(* While rows are decoded, the boxes are those of the confident ones so    *)
(* far; after that they are those of all of them, in some order.           *)
THEOREM DecodeInvariant == Spec => []DecodeInv
<1>1. Init => DecodeInv
  <2>1. <<>> \in Seq(Box) OBVIOUS
  <2>2. QED BY <2>1 DEF Init, DecodeInv
<1>2. QED BY <1>1, DecodeInvStep, PTL DEF Spec

(* The boxes non-maximum suppression starts with are those of the rows     *)
(* above the threshold, one each, with the first of the best classes and   *)
(* its confidence, centred where the row is (Postprocessor::decodeOutput). *)
(* A network has classes: without one there is no best.                    *)
THEOREM RowsDecoded ==
  ASSUME Classes # 0
  PROVE  Spec => []BoxesAreConfidentRows
<1>1. DecodeInv => BoxesAreConfidentRows
  <2> DEFINE confidence(row) == row.obj * row.scores[FirstBest(row.scores)]
             confident == {k \in DOMAIN input.rows : confidence(input.rows[k]) >= 100 * ConfThreshold}
  <2>1. SUFFICES ASSUME DecodeInv, pc = "nms"
                 PROVE  \E f \in [DOMAIN boxes -> confident] :
                          /\ \A k \in confident : \E a \in DOMAIN boxes : f[a] = k
                          /\ \A a, b \in DOMAIN boxes : f[a] = f[b] => a = b
                          /\ \A a \in DOMAIN boxes :
                               LET row == input.rows[f[a]]
                               IN  /\ boxes[a].class_id = FirstBest(row.scores)
                                   /\ boxes[a].confidence = confidence(row)
                                   /\ 2 * boxes[a].x + boxes[a].width = 2 * row.cx
                                   /\ 2 * boxes[a].y + boxes[a].height = 2 * row.cy
    BY DEF BoxesAreConfidentRows
  <2>2. input.rows \in Seq(Rows) BY <2>1, InputsAssumption DEF DecodeInv
  <2>3. DOMAIN input.rows = 1..Len(input.rows) /\ \A k \in 1..Len(input.rows) : input.rows[k] \in Rows
    BY <2>2
  <2>4. \A k \in 1..Len(input.rows) :
          /\ BoxOf(input.rows[k]).class_id = FirstBest(input.rows[k].scores)
          /\ BoxOf(input.rows[k]).confidence = confidence(input.rows[k])
          /\ 2 * BoxOf(input.rows[k]).x + BoxOf(input.rows[k]).width = 2 * input.rows[k].cx
          /\ 2 * BoxOf(input.rows[k]).y + BoxOf(input.rows[k]).height = 2 * input.rows[k].cy
    BY <2>3, BoxOfRow
  <2> HIDE DEF confidence
  <2>5. confident = ConfidentRows(Len(input.rows)) BY <2>3, <2>4 DEF ConfidentRows, Confident
  <2> HIDE DEF confident
  <2>6. PICK f \in [DOMAIN boxes -> confident] :
          /\ \A k \in confident : \E a \in DOMAIN boxes : f[a] = k
          /\ \A a, b \in DOMAIN boxes : f[a] = f[b] => a = b
          /\ \A a \in DOMAIN boxes : boxes[a] = BoxOf(input.rows[f[a]])
    BY <2>1, <2>5 DEF DecodeInv, BoxesOf
  <2>7. \A a \in DOMAIN boxes : f[a] \in 1..Len(input.rows) BY <2>3, <2>6 DEF confident
  <2>8. QED BY <2>4, <2>6, <2>7
<1>2. QED BY <1>1, DecodeInvariant, PTL

-----------------------------------------------------------------------------
(* What the caller gets. *)

ResultInv ==
  /\ result \in Seq(Box)
  /\ pc \notin {"keep", "done"} => result = <<>>
  /\ pc \in {"keep", "done"} => Len(result) < i /\ i <= Len(boxes) + 1
  /\ suppressed \in Seq(BOOLEAN)
  /\ pc \in {"nms", "keep"} => Len(suppressed) = Len(boxes)
  /\ detections = IF pc = "done" THEN [k \in 1..Len(result) |-> MapToOriginal(result[k])] ELSE <<>>

(* A function from 1..n into S is a sequence of S. *)
LEMMA SeqOfSet ==
  ASSUME NEW n \in Nat, NEW S, NEW s \in [1..n -> S]
  PROVE  s \in Seq(S) /\ Len(s) = n
BY SeqDef

(* No step breaks ResultInv. *)
LEMMA ResultInvStep == DecodeInv /\ ResultInv /\ [Next]_vars => ResultInv'
<1> SUFFICES ASSUME DecodeInv, ResultInv, [Next]_vars PROVE ResultInv'
  OBVIOUS
<1>1. boxes \in Seq(Box) /\ Len(boxes) \in Nat /\ DOMAIN boxes = 1..Len(boxes) /\ i \in Nat \ {0}
      /\ result \in Seq(Box) /\ Len(result) \in Nat
  BY DEF DecodeInv, ResultInv
<1>2. ASSUME NEW in \in Inputs, Process(in) PROVE ResultInv'
  BY <1>2 DEF Process, Letterbox, Stretch, Resize, ResultInv
<1>3. CASE Decode BY <1>3 DEF Decode, ResultInv
<1>4. CASE Sort
  <2>1. PICK p \in Orders(Len(boxes)) : boxes' = [k \in 1..Len(boxes) |-> boxes[p[k]]]
    BY <1>4 DEF Sort
  <2>2. Len(boxes') = Len(boxes) BY <1>1, <2>1, FunctionIsSeq
  <2>3. suppressed' \in [1..Len(boxes) -> BOOLEAN] BY <1>4 DEF Sort
  <2>4. suppressed' \in Seq(BOOLEAN) /\ Len(suppressed') = Len(boxes) BY <1>1, <2>3, SeqOfSet
  <2>5. QED BY <1>4, <2>2, <2>4 DEF Sort, ResultInv
<1>5. CASE Suppress
  <2>1. suppressed' \in [1..Len(boxes) -> BOOLEAN]
    <3>1. Len(suppressed) = Len(boxes) /\ suppressed \in Seq(BOOLEAN) BY <1>5 DEF Suppress, ResultInv
    <3>2. \A k \in 1..Len(boxes) : suppressed[k] \in BOOLEAN BY <3>1
    <3>3. QED BY <1>5, <3>2 DEF Suppress
  <2>2. suppressed' \in Seq(BOOLEAN) /\ Len(suppressed') = Len(boxes) BY <1>1, <2>1, SeqOfSet
  <2>3. QED BY <1>5, <2>2 DEF Suppress, ResultInv
<1>6. CASE StartKeeping BY <1>1, <1>6 DEF StartKeeping, ResultInv
<1>7. CASE Keep
  <2>1. boxes[i] \in Box BY <1>1, <1>7 DEF Keep
  <2>2. result' \in Seq(Box) /\ Len(result') <= Len(result) + 1 BY <1>1, <1>7, <2>1 DEF Keep
  <2>3. Len(result) < i /\ i <= Len(boxes) BY <1>7 DEF Keep, ResultInv
  <2>4. Len(result') < i' /\ i' <= Len(boxes) + 1 BY <1>1, <1>7, <2>2, <2>3 DEF Keep
  <2>5. QED BY <1>7, <2>2, <2>4 DEF Keep, ResultInv
<1>8. CASE Map
  <2>1. pc' = "done" /\ UNCHANGED <<boxes, suppressed, i, result, scale, pad>>
        /\ detections' = [k \in 1..Len(result) |-> MapToOriginal(result[k])]
    BY <1>8 DEF Map, geometry
  <2>2. [k \in 1..Len(result) |-> MapToOriginal(result[k])]'
          = [k \in 1..Len(result) |-> MapToOriginal(result[k])]
    BY <2>1 DEF MapToOriginal
  <2>3. detections' = [k \in 1..Len(result) |-> MapToOriginal(result[k])]' BY <2>1, <2>2
  <2>4. Len(result) < i /\ i <= Len(boxes) + 1 BY <1>8 DEF Map, ResultInv
  <2>5. QED BY <2>1, <2>3, <2>4 DEF ResultInv
<1>9. CASE Return
  <2>1. <<>> \in Seq(Box) /\ <<>> \in Seq(BOOLEAN) OBVIOUS
  <2>2. QED BY <1>9, <2>1 DEF Return, ResultInv
<1>10. CASE UNCHANGED vars
  <2>1. \A box : MapToOriginal(box)' = MapToOriginal(box) BY <1>10 DEF MapToOriginal, vars
  <2>2. QED BY <1>10, <2>1 DEF vars, ResultInv
<1>11. QED BY <1>2, <1>3, <1>4, <1>5, <1>6, <1>7, <1>8, <1>9, <1>10 DEF Next

(* The result has at most one box for each loop iteration, and the         *)
(* detections are the result's boxes in original coordinates.              *)
THEOREM ResultInvariant == Spec => []ResultInv
<1>1. Init => ResultInv
  <2>1. <<>> \in Seq(Box) /\ <<>> \in Seq(BOOLEAN) OBVIOUS
  <2>2. QED BY <2>1 DEF Init, ResultInv
<1>2. QED BY <1>1, ResultInvStep, DecodeInvariant, PTL DEF Spec

-----------------------------------------------------------------------------
(* The types. *)

GeometryTypes ==
  /\ scale \in [num : Nat \ {0}, den : Nat \ {0}]
  /\ pad \in [width : Nat, height : Nat]
  /\ size \in Sizes

(* Division with remainder. *)
LEMMA Division ==
  ASSUME NEW a \in Nat, NEW d \in Nat \ {0}
  PROVE  /\ a \div d \in Nat /\ a % d \in Nat /\ a % d < d
         /\ a = d * (a \div d) + (a % d)
<1>1. a \div d \in Int OBVIOUS
<1>2. a % d \in Nat /\ a % d < d OBVIOUS
<1>3. a = d * (a \div d) + (a % d) BY Z3
<1>4. a \div d >= 0 OBVIOUS
<1>5. QED BY <1>1, <1>2, <1>3, <1>4

(* Half of what is left of a side is padding. *)
LEMMA HalfOfRest ==
  ASSUME NEW n \in Int, n >= 0
  PROVE  n \div 2 \in Nat
OBVIOUS

(* A scaled side is not negative. *)
LEMMA TruncatedIsNat ==
  ASSUME NEW side \in Nat \ {0}, NEW num \in Nat \ {0}, NEW den \in Nat \ {0},
         NEW w \in Truncated(side, [num |-> num, den |-> den])
  PROVE  w \in Nat
<1> DEFINE product == side * num
           whole == product \div den
           rest == product % den
<1>1. product \in Nat \ {0} OBVIOUS
<1>2. whole \in Nat /\ rest \in Nat /\ product = den * whole + rest BY <1>1, Division
<1>3. w \in (IF rest = 0 THEN {whole, whole - 1} ELSE {whole}) BY DEF Truncated
<1> HIDE DEF product, whole, rest
<1>4. rest = 0 => whole # 0
  <2>1. whole = 0 => den * whole = 0 OBVIOUS
  <2>2. QED BY <1>1, <1>2, <2>1
<1>5. QED BY <1>2, <1>3, <1>4

(* resizeWithPadding keeps the types of scale_, pad_w_ and pad_h_. *)
LEMMA LetterboxTypes ==
  ASSUME GeometryTypes, NEW image \in Sizes, Letterbox(image)
  PROVE  GeometryTypes'
<1>1. /\ image.width \in Nat \ {0} /\ image.height \in Nat \ {0}
      /\ Frame.width \in Nat \ {0} /\ Frame.height \in Nat \ {0}
  BY InputsAssumption DEF Sizes
<1>2. PICK num \in Nat \ {0}, den \in Nat \ {0} : ScaleOf(image) = [num |-> num, den |-> den]
  BY <1>1 DEF ScaleOf
<1>3. PICK w \in Truncated(image.width, ScaleOf(image)), h \in Truncated(image.height, ScaleOf(image)) :
        Resize(ScaleOf(image), [width |-> w, height |-> h])
  BY DEF Letterbox
<1>4. w \in Nat /\ h \in Nat BY <1>1, <1>2, TruncatedIsNat
<1>5. w <= Frame.width /\ h <= Frame.height BY ScaledFits
<1>6. scale' \in [num : Nat \ {0}, den : Nat \ {0}] BY <1>2, <1>3 DEF Resize
<1>7. CASE w = 0 \/ h = 0 BY <1>3, <1>6, <1>7 DEF Resize, GeometryTypes
<1>8. CASE ~(w = 0 \/ h = 0)
  <2>1. size' = [width |-> w, height |-> h]
        /\ pad' = [width |-> (Frame.width - w) \div 2, height |-> (Frame.height - h) \div 2]
    BY <1>3, <1>8 DEF Resize, PaddingOf
  <2>2. size' \in Sizes BY <1>4, <1>8, <2>1 DEF Sizes
  <2>3. (Frame.width - w) \div 2 \in Nat /\ (Frame.height - h) \div 2 \in Nat
    BY <1>1, <1>4, <1>5, HalfOfRest
  <2>4. QED BY <1>6, <2>1, <2>2, <2>3 DEF GeometryTypes
<1>9. QED BY <1>7, <1>8

(* The two processors' members and locals have their types, whatever the   *)
(* image, the network's answer and the configuration.                      *)
THEOREM TypeCorrect == Spec => []TypeOK
<1>1. Init => GeometryTypes
  <2>1. Frame \in Sizes BY InputsAssumption
  <2>2. QED BY <2>1 DEF Init, GeometryTypes, One
<1>2. ASSUME GeometryTypes, [Next]_vars PROVE GeometryTypes'
  <2>1. ASSUME NEW in \in Inputs, Process(in) PROVE GeometryTypes'
    <3>1. in.image \in Sizes /\ Frame \in Sizes BY InputsAssumption
    <3>2. CASE Letterbox(in.image) BY <1>2, <3>1, <3>2, LetterboxTypes
    <3>3. CASE Stretch BY <3>1, <3>3 DEF Stretch, GeometryTypes, One
    <3>4. QED BY <2>1, <3>2, <3>3 DEF Process
  <2>2. CASE geometry' = geometry BY <1>2, <2>2 DEF geometry, GeometryTypes
  <2>3. QED
    BY <1>2, <2>1, <2>2 DEF Next, vars, geometry, Decode, Sort, Suppress, StartKeeping, Keep, Map, Return
<1>3. DecodeInv /\ ResultInv /\ GeometryTypes => TypeOK
  <2>1. SUFFICES ASSUME DecodeInv, ResultInv, GeometryTypes PROVE TypeOK OBVIOUS
  <2>2. Len(result) \in Nat /\ Len(boxes) \in Nat /\ i \in Nat BY <2>1 DEF DecodeInv, ResultInv
  <2>3. Len(detections) = IF pc = "done" THEN Len(result) ELSE 0
    <3>1. CASE pc = "done"
      <4>1. detections = [k \in 1..Len(result) |-> MapToOriginal(result[k])]
        BY <2>1, <3>1 DEF ResultInv
      <4>2. Len(detections) = Len(result) BY <2>2, <4>1, FunctionIsSeq
      <4>3. QED BY <3>1, <4>2
    <3>2. CASE pc # "done" BY <2>1, <3>2, EmptyIsSeq DEF ResultInv
    <3>3. QED BY <3>1, <3>2
  <2>4. Len(detections) <= Len(boxes) BY <2>1, <2>2, <2>3 DEF ResultInv
  <2>5. pc = "idle" <=> input = None BY <2>1, NoneAssumption DEF DecodeInv
  <2>6. QED BY <2>1, <2>4, <2>5 DEF TypeOK, DecodeInv, ResultInv, GeometryTypes
<1>4. QED BY <1>1, <1>2, <1>3, DecodeInvariant, ResultInvariant, PTL DEF Spec

-----------------------------------------------------------------------------
(* The names. *)
IsNames(f, n) ==
  f = [c \in 0..n |-> IF c = 0 THEN <<>>
                      ELSE IF ClassNames[c] # None THEN Append(f[c - 1], ClassNames[c])
                      ELSE f[c - 1]]

(* crkit_load_model's loop is defined for any number of names. *)
LEMMA NamesExist == \A n \in Nat : \E f : IsNames(f, n)
<1> DEFINE S == {n \in Nat : \E f : IsNames(f, n)}
<1>1. 0 \in S
  <2>1. IsNames([c \in 0..0 |-> <<>>], 0) BY DEF IsNames
  <2>2. QED BY <2>1
<1>2. ASSUME NEW n \in Nat, n \in S PROVE n + 1 \in S
  <2>1. PICK f : IsNames(f, n) BY <1>2
  <2> DEFINE last == IF ClassNames[n + 1] # None THEN Append(f[n], ClassNames[n + 1]) ELSE f[n]
             g == [c \in 0..(n + 1) |-> IF c = n + 1 THEN last ELSE f[c]]
  <2>2. \A c \in 0..(n + 1) :
          g[c] = IF c = 0 THEN <<>>
                 ELSE IF ClassNames[c] # None THEN Append(g[c - 1], ClassNames[c])
                 ELSE g[c - 1]
    <3>1. TAKE c \in 0..(n + 1)
    <3>2. CASE c = n + 1
      <4>1. g[c] = last /\ g[n] = f[n] /\ c # 0 /\ c - 1 = n BY <3>2
      <4>2. QED BY <3>2, <4>1
    <3>3. CASE c # n + 1
      <4>1. c \in 0..n /\ g[c] = f[c] /\ (c # 0 => g[c - 1] = f[c - 1]) BY <3>3
      <4>2. f[c] = IF c = 0 THEN <<>>
                   ELSE IF ClassNames[c] # None THEN Append(f[c - 1], ClassNames[c])
                   ELSE f[c - 1]
        BY <2>1, <4>1 DEF IsNames
      <4> HIDE DEF g
      <4>3. QED BY <4>1, <4>2
    <3>4. QED BY <3>2, <3>3
  <2>3. g = [c \in 0..(n + 1) |-> g[c]] OBVIOUS
  <2> HIDE DEF g
  <2>4. IsNames(g, n + 1) BY <2>2, <2>3 DEF IsNames
  <2>5. QED BY <2>4
<1> HIDE DEF S
<1>3. Nat \subseteq S BY <1>1, <1>2, SetInduction
<1>4. QED BY <1>3 DEF S

(* names are those of the classes up to n, of which only the last have none. *)
NamesUpTo(names, n) ==
  /\ IsSeq(names) /\ Len(names) \in 0..n
  /\ \A c \in 1..Len(names) : names[c] = ClassNames[c] /\ ClassNames[c] # None
  /\ \A c \in (Len(names) + 1)..n : ClassNames[c] = None

(* crkit_load_model's loop keeps each name at its class, if null entries are last. *)
LEMMA NamesAreThose == NamesUpTo(class_names, Classes)
<1>1. Classes \in Nat
      /\ \A a, b \in 1..Classes : a < b /\ ClassNames[b] # None => ClassNames[a] # None
  BY ConfigAssumption
<1> DEFINE f == CHOOSE g : IsNames(g, Classes)
<1>2. IsNames(f, Classes) BY <1>1, NamesExist
<1>3. class_names = f[Classes] BY DEF class_names, IsNames
<1> HIDE DEF f
<1>4. f[0] = <<>> BY <1>1, <1>2 DEF IsNames
<1>5. ASSUME NEW c \in 1..Classes
      PROVE  f[c] = IF ClassNames[c] # None THEN Append(f[c - 1], ClassNames[c]) ELSE f[c - 1]
  <2>1. c \in 0..Classes /\ c # 0 BY <1>1
  <2>2. f[c] = IF c = 0 THEN <<>>
               ELSE IF ClassNames[c] # None THEN Append(f[c - 1], ClassNames[c])
               ELSE f[c - 1]
    BY <1>2, <2>1 DEF IsNames
  <2>3. QED BY <2>1, <2>2
<1> DEFINE S == {n \in Nat : n <= Classes => NamesUpTo(f[n], n)}
<1>6. 0 \in S BY <1>4, EmptyIsSeq DEF NamesUpTo
<1>7. ASSUME NEW n \in Nat, n \in S PROVE n + 1 \in S
  <2>1. SUFFICES ASSUME n + 1 <= Classes PROVE NamesUpTo(f[n + 1], n + 1) OBVIOUS
  <2>2. NamesUpTo(f[n], n) BY <1>1, <1>7, <2>1
  <2>3. f[n + 1] = IF ClassNames[n + 1] # None THEN Append(f[n], ClassNames[n + 1]) ELSE f[n]
    BY <1>1, <1>5, <2>1
  <2>4. CASE ClassNames[n + 1] = None
    BY <2>2, <2>3, <2>4 DEF NamesUpTo
  <2>5. CASE ClassNames[n + 1] # None
    <3>1. \A c \in 1..n : ClassNames[c] # None BY <1>1, <2>1, <2>5
    <3>2. Len(f[n]) = n BY <2>2, <3>1 DEF NamesUpTo
    <3>3. /\ IsSeq(f[n + 1]) /\ Len(f[n + 1]) = n + 1
          /\ \A c \in 1..n : f[n + 1][c] = f[n][c]
          /\ f[n + 1][n + 1] = ClassNames[n + 1]
      BY <2>2, <2>3, <2>5, <3>2, AppendToSeq DEF NamesUpTo
    <3>4. \A c \in 1..(n + 1) : f[n + 1][c] = ClassNames[c] /\ ClassNames[c] # None
      BY <2>2, <2>5, <3>2, <3>3 DEF NamesUpTo
    <3>5. QED BY <3>3, <3>4 DEF NamesUpTo
  <2>6. QED BY <2>4, <2>5
<1> HIDE DEF S
<1>8. Nat \subseteq S BY <1>6, <1>7, SetInduction
<1>9. Classes \in S BY <1>1, <1>8
<1>10. QED BY <1>1, <1>3, <1>9 DEF S

(* Each detection is called what the configuration calls its class, or by  *)
(* the class's number where it has no name (crkit_load_model copies the    *)
(* names, Postprocessor::process looks them up).                           *)
THEOREM NamesCorrect == Spec => []NamesOfConfig
<1>1. \A c \in 0..Classes : NameOf(c) = IF c < Classes /\ ClassNames[c + 1] # None
                                        THEN ClassNames[c + 1] ELSE [class |-> c]
  <2>1. TAKE c \in 0..Classes
  <2>2. PICK m \in 0..Classes : m = Len(class_names) BY NamesAreThose DEF NamesUpTo
  <2>3. /\ Classes \in Nat /\ c \in Nat /\ m \in Nat
        /\ \A k \in 1..m : class_names[k] = ClassNames[k] /\ ClassNames[k] # None
        /\ \A k \in (m + 1)..Classes : ClassNames[k] = None
    <3>1. Classes \in Nat BY ConfigAssumption
    <3>2. /\ \A k \in 1..m : class_names[k] = ClassNames[k] /\ ClassNames[k] # None
          /\ \A k \in (m + 1)..Classes : ClassNames[k] = None
      BY <2>2, NamesAreThose DEF NamesUpTo
    <3>3. QED BY <2>1, <2>2, <3>1, <3>2
  <2>4. CASE c < m
    <3>1. c + 1 \in 1..m /\ c < Classes BY <2>3, <2>4
    <3>2. QED BY <2>2, <2>3, <2>4, <3>1 DEF NameOf
  <2>5. CASE ~(c < m)
    <3>1. c < Classes => c + 1 \in (m + 1)..Classes BY <2>3, <2>5
    <3>2. c < Classes => ClassNames[c + 1] = None BY <2>3, <3>1
    <3>3. NameOf(c) = [class |-> c] BY <2>2, <2>5 DEF NameOf
    <3>4. QED BY <3>2, <3>3
  <2>6. QED BY <2>4, <2>5
<1>2. DecodeInv /\ ResultInv => NamesOfConfig
  <2>1. SUFFICES ASSUME ResultInv, pc = "done", NEW k \in DOMAIN detections
                 PROVE  detections[k].name =
                          LET c == detections[k].class_id
                          IN  IF c < Classes /\ ClassNames[c + 1] # None
                              THEN ClassNames[c + 1] ELSE [class |-> c]
    BY DEF NamesOfConfig
  <2>2. detections = [j \in 1..Len(result) |-> MapToOriginal(result[j])] BY <2>1 DEF ResultInv
  <2>3. result[k] \in Box /\ detections[k] = MapToOriginal(result[k]) BY <2>1, <2>2 DEF ResultInv
  <2>4. /\ detections[k].name = NameOf(result[k].class_id)
        /\ detections[k].class_id = result[k].class_id
    BY <2>3 DEF MapToOriginal
  <2>5. result[k].class_id \in 0..Classes BY <2>3 DEF Box
  <2>6. QED BY <1>1, <2>4, <2>5
<1>3. QED BY <1>2, DecodeInvariant, ResultInvariant, PTL

=============================================================================
