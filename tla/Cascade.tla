------------------------------- MODULE Cascade -------------------------------
(***************************************************************************)
(* Face detection, mtcnn::findFace: P-net proposes boxes at several        *)
(* scales, R-net and O-net each look at the boxes that are left, and after *)
(* each of the three nets nms keeps the best of the boxes that overlap and *)
(* refineAndSquareBbox moves them by the net's regression.                 *)
(*                                                                         *)
(* The lists of boxes are fields of the object: findFace returns early     *)
(* when a net accepts nothing, and what is in them then is still there     *)
(* when the next picture comes.                                            *)
(*                                                                         *)
(* What the nets say of a box is arbitrary.  Coordinates are pixels: x1    *)
(* and x2 are rows, y1 and y2 columns.  Scores and thresholds are tenths,  *)
(* regressions quarters of a side.  Indices start at 1.                    *)
(***************************************************************************)
EXTENDS Integers, Sequences, SequencesExt

CONSTANTS
  Height, Width,   \* of the picture
  Scales,          \* the pyramid: n stands for a picture n times smaller
  Cells,           \* Cells[n]: the cells of P-net's map at that scale, <<row, col>>,
                   \* in the order they are gone through
  PnetVerdicts,    \* what P-net may say of a cell
  RnetVerdicts,    \* what R-net may say of a box
  OnetVerdicts,    \* and what O-net
  MaxPictures,     \* bound: pictures
  MaxBoxes         \* bound: boxes in a list when a picture comes

Verdict == [score : 0 .. 10, reg : (-4 .. 4) \X (-4 .. 4) \X (-4 .. 4) \X (-4 .. 4)]

ASSUME CascadeAssumption ==
  /\ {Height, Width, MaxPictures, MaxBoxes} \subseteq Nat \ {0}
  /\ Scales \in Seq(Nat \ {0})
  /\ \A n \in ToSet(Scales) : Cells[n] \in Seq(Nat \X Nat)
  /\ PnetVerdicts \cup RnetVerdicts \cup OnetVerdicts \subseteq Verdict

Pthreshold == 6
Rthreshold == 7
Othreshold == 9
nms_threshold == <<5, 6, 6>>
stride   == 2
cellsize == 12

VARIABLES
  stage,           \* "idle", or the net that comes next: "rnet", "onet"
  picture,         \* pictures seen
  firstBbox_, firstOrderScore_, secondBbox_, secondBboxScore_,
  thirdBbox_, thirdBboxScore_,
  detections,      \* what findFace hands back
  clean,           \* history: all lists were empty when the picture came
  sifted           \* history: the boxes as refineAndSquareBbox last got them

lists == <<firstBbox_, firstOrderScore_, secondBbox_, secondBboxScore_,
           thirdBbox_, thirdBboxScore_>>
vars  == <<stage, picture, lists, detections, clean, sifted>>

Init ==
  /\ stage = "idle" /\ picture = 0
  /\ firstBbox_ = <<>> /\ firstOrderScore_ = <<>> /\ secondBbox_ = <<>>
  /\ secondBboxScore_ = <<>> /\ thirdBbox_ = <<>> /\ thirdBboxScore_ = <<>>
  /\ detections = <<>> /\ clean = TRUE /\ sifted = <<>>

Larger(a, b)  == IF a > b THEN a ELSE b
Smaller(a, b) == IF a < b THEN a ELSE b
Area(b)       == (b.x2 - b.x1) * (b.y2 - b.y1)

(***************************************************************************)
(* nms.  A threshold is compared without dividing; a quotient whose        *)
(* denominator is negative is below every threshold.                       *)
(***************************************************************************)
Shared(a, b) ==
  Larger(Smaller(a.x2, b.x2) - Larger(a.x1, b.x1) + 1, 0)
  * Larger(Smaller(a.y2, b.y2) - Larger(a.y1, b.y1) + 1, 0)

Overlapping(a, b, threshold, model) ==
  LET whole == IF model = "Union" THEN a.area + b.area - Shared(a, b)
                                  ELSE Smaller(a.area, b.area)
  IN  whole >= 0 /\ 10 * Shared(a, b) > threshold * whole

\* The last of the entries with the highest score: sort is stable on short lists.
Back(order) ==
  CHOOSE i \in DOMAIN order : \A j \in DOMAIN order :
    order[j].score < order[i].score \/ (order[j].score = order[i].score /\ j <= i)

LiveSet(boxes) == {n \in DOMAIN boxes : boxes[n].exist}

\* One turn of the loop: the best box becomes a hero, the boxes it overlaps go.
Turn(s, boxes, threshold, model) ==
  LET back == Back(s.order)
      hero == s.order[back].oriOrder
      rest == RemoveAt(s.order, back)
      gone == {n \in s.alive \ {hero} : Overlapping(boxes[n], boxes[hero], threshold, model)}
  IN  IF hero < 0
        THEN [s EXCEPT !.order = rest]
        ELSE [alive |-> s.alive \ (gone \cup {hero}),
              order |-> [i \in DOMAIN rest |-> [rest[i] EXCEPT
                           !.oriOrder = IF @ \in gone THEN -1 ELSE @]],
              heros |-> s.heros \cup {hero}]

Turns(boxes, order, threshold, model) ==
  LET after[k \in 0 .. Len(order)] ==
        IF k = 0 THEN [alive |-> LiveSet(boxes), order |-> order, heros |-> {}]
                 ELSE Turn(after[k - 1], boxes, threshold, model)
  IN  after[Len(order)]

Sifted(boxes, order, threshold, model) ==
  LET end == Turns(boxes, order, threshold, model)
  IN  [n \in DOMAIN boxes |-> [boxes[n] EXCEPT !.exist = n \in end.alive \cup end.heros]]

SiftedButLast(boxes, order, threshold, model) ==   \* mutant: the last score is dropped
  Sifted(boxes, SubSeq(order, 1, Len(order) - 1), threshold, model)

nms(boxes, order, threshold, model) == Sifted(boxes, order, threshold, model)

(***************************************************************************)
(* refineAndSquareBbox, square = true, in eighths of a pixel.              *)
(***************************************************************************)
round(eighths) == IF eighths >= 0 THEN (eighths + 4) \div 8 ELSE -((4 - eighths) \div 8)

\* The sides as the regression moves them, the side of the square, and where a
\* square with the same centre begins.
Low(b)   == 8 * b.x1 + 2 * b.reg[2] * (b.x2 - b.x1 + 1)
High(b)  == 8 * b.x2 + 2 * b.reg[4] * (b.x2 - b.x1 + 1)
Left(b)  == 8 * b.y1 + 2 * b.reg[1] * (b.y2 - b.y1 + 1)
Right(b) == 8 * b.y2 + 2 * b.reg[3] * (b.y2 - b.y1 + 1)
Side(b)  == Larger(High(b) - Low(b) + 8, Right(b) - Left(b) + 8)
Begin(from, to, side) == from + (to - from + 8 - side) \div 2

Squared(b) ==
  LET x == Begin(Low(b), High(b), Side(b))
      y == Begin(Left(b), Right(b), Side(b))
  IN  [b EXCEPT !.x1 = round(x), !.x2 = round(x + Side(b) - 8),
                !.y1 = round(y), !.y2 = round(y + Side(b) - 8)]

Unbounded(b) == b                            \* mutant: no boundary check
Bounded(b) ==
  [b EXCEPT !.x1 = Larger(@, 0), !.x2 = IF @ > Height THEN Height - 1 ELSE @,
            !.y1 = Larger(@, 0), !.y2 = IF @ > Width  THEN Width - 1  ELSE @]

BoundaryCheck(b) == Bounded(b)

Refined(b) == LET r == BoundaryCheck(Squared(b)) IN [r EXCEPT !.area = Area(r)]

refineAndSquareBbox(boxes) ==
  [n \in DOMAIN boxes |-> IF boxes[n].exist THEN Refined(boxes[n]) ELSE boxes[n]]

\* A crop of the picture, and not an empty one: any other throws.
Inside(b) == 0 <= b.x1 /\ b.x1 < b.x2 /\ b.x2 <= Height
             /\ 0 <= b.y1 /\ b.y1 < b.y2 /\ b.y2 <= Width

Cropped(boxes) == \A n \in LiveSet(boxes) : Inside(boxes[n])

(***************************************************************************)
(* P-net.  Its scale is 1 / n, so that the round of a corner changes       *)
(* nothing.                                                                *)
(***************************************************************************)
Proposal(cell, n, verdict) ==
  LET x1 == (stride * cell[1] + 1) * n
      y1 == (stride * cell[2] + 1) * n
      x2 == (stride * cell[1] + 1 + cellsize) * n
      y2 == (stride * cell[2] + 1 + cellsize) * n
  IN  [x1 |-> x1, y1 |-> y1, x2 |-> x2, y2 |-> y2, area |-> (x2 - x1) * (y2 - y1),
       score |-> verdict.score, reg |-> verdict.reg, exist |-> verdict.score > Pthreshold,
       passed |-> 0]                 \* history: the picture in which O-net accepted it

\* Those that exist, in their order.
Existing(boxes) ==
  LET upTo[k \in 0 .. Len(boxes)] ==
        IF k = 0 THEN <<>>
        ELSE IF boxes[k].exist THEN Append(upTo[k - 1], boxes[k]) ELSE upTo[k - 1]
  IN  upTo[Len(boxes)]

cpu_generateBbox(map, n) ==
  Existing([i \in DOMAIN Cells[n] |-> Proposal(Cells[n][i], n, map[i])])

Orders(boxes) == [i \in DOMAIN boxes |-> [score |-> boxes[i].score, oriOrder |-> i]]

OfScale(map, n) ==
  LET boxes == cpu_generateBbox(map, n)
  IN  Existing(nms(boxes, Orders(boxes), nms_threshold[1], "Union"))

\* maps[n]: P-net's map at scale n; the scales are gone through from the last.
Proposals(maps) ==
  LET upTo[k \in 0 .. Len(Scales)] ==
        IF k = 0 THEN <<>>
        ELSE LET n == Scales[Len(Scales) + 1 - k] IN upTo[k - 1] \o OfScale(maps[n], n)
  IN  upTo[Len(Scales)]

Maps == {m \in [ToSet(Scales) -> UNION {[DOMAIN Cells[n] -> PnetVerdicts] : n \in ToSet(Scales)}] :
           \A n \in ToSet(Scales) : DOMAIN m[n] = DOMAIN Cells[n]}

Pnet ==
  /\ stage = "idle" /\ picture < MaxPictures /\ Len(firstBbox_) <= MaxBoxes
  /\ picture' = picture + 1 /\ detections' = <<>>
  /\ clean' = (firstBbox_ = <<>> /\ secondBbox_ = <<>>)
  /\ \E maps \in Maps :
       LET proposed == Proposals(maps)
           boxes    == firstBbox_ \o proposed
           order    == firstOrderScore_ \o Orders(proposed)
           kept     == nms(boxes, order, nms_threshold[1], "Union")
       IN  IF proposed = <<>>
             THEN UNCHANGED <<stage, lists, sifted>>
             ELSE /\ stage' = "rnet" /\ sifted' = kept
                  /\ firstBbox_' = refineAndSquareBbox(kept) /\ firstOrderScore_' = <<>>
                  /\ UNCHANGED <<secondBbox_, secondBboxScore_, thirdBbox_, thirdBboxScore_>>

(***************************************************************************)
(* R-net and O-net look at the boxes that exist.  Those they accept go on  *)
(* with a new score and regression, the others are gone.  When one of them *)
(* cannot be cropped nothing follows: nobody catches what that throws.     *)
(***************************************************************************)
JudgedByPlace(b, verdict) ==                  \* mutant: the score is read from location_
  [b EXCEPT !.score = verdict.reg[2], !.reg = verdict.reg, !.area = Area(b)]
Judged(b, verdict) == [b EXCEPT !.score = verdict.score, !.reg = verdict.reg, !.area = Area(b)]

AfterNet(boxes, says, threshold) ==
  [n \in DOMAIN boxes |->
     IF n \notin LiveSet(boxes) THEN boxes[n]
     ELSE IF says[n].score > threshold THEN Judged(boxes[n], says[n])
     ELSE [boxes[n] EXCEPT !.exist = FALSE]]

Rnet ==
  /\ stage = "rnet" /\ Cropped(firstBbox_)
  /\ \E says \in [LiveSet(firstBbox_) -> RnetVerdicts] :
       LET seen     == AfterNet(firstBbox_, says, Rthreshold)
           accepted == Existing(seen)
           boxes    == secondBbox_ \o accepted
           order    == secondBboxScore_ \o Orders(accepted)
           kept     == nms(boxes, order, nms_threshold[2], "Union")
       IN  /\ firstBbox_' = seen
           /\ IF accepted = <<>>
                THEN stage' = "idle" /\ UNCHANGED <<secondBbox_, secondBboxScore_, sifted>>
                ELSE /\ stage' = "onet" /\ sifted' = kept
                     /\ secondBbox_' = refineAndSquareBbox(kept) /\ secondBboxScore_' = <<>>
  /\ UNCHANGED <<picture, firstOrderScore_, thirdBbox_, thirdBboxScore_, detections, clean>>

Emptied(boxes)   == <<>>
NotEmptied(boxes) == boxes                    \* mutant: a list is not cleared
Cleared(boxes)   == Emptied(boxes)

Onet ==
  /\ stage = "onet" /\ stage' = "idle" /\ Cropped(secondBbox_)
  /\ \E says \in [LiveSet(secondBbox_) -> OnetVerdicts] :
       LET seen     == AfterNet(secondBbox_, says, Othreshold)
           accepted == [i \in DOMAIN Existing(seen) |->
                          [Existing(seen)[i] EXCEPT !.passed = picture]]
           boxes    == thirdBbox_ \o accepted
           order    == thirdBboxScore_ \o Orders(accepted)
           kept     == nms(refineAndSquareBbox(boxes), order, nms_threshold[3], "Min")
       IN  IF accepted = <<>>
             THEN /\ secondBbox_' = seen
                  /\ UNCHANGED <<firstBbox_, firstOrderScore_, secondBboxScore_,
                                 thirdBbox_, thirdBboxScore_, detections, sifted>>
             ELSE /\ detections' = kept /\ sifted' = boxes
                  /\ firstBbox_' = <<>> /\ firstOrderScore_' = <<>>
                  /\ secondBbox_' = <<>> /\ secondBboxScore_' = <<>>
                  /\ thirdBbox_' = Cleared(kept) /\ thirdBboxScore_' = <<>>
  /\ UNCHANGED <<picture, clean>>

Next == Pnet \/ Rnet \/ Onet
Spec == Init /\ [][Next]_vars

(***************************************************************************)
(* Properties.                                                             *)
(***************************************************************************)
IsBox(b) ==
  /\ {b.x1, b.y1, b.x2, b.y2, b.area} \subseteq Int /\ b.exist \in BOOLEAN
  /\ b.score \in 0 .. 10 /\ b.reg \in (-4 .. 4) \X (-4 .. 4) \X (-4 .. 4) \X (-4 .. 4)
  /\ b.passed \in 0 .. picture

IsOrder(order, boxes) ==
  \A i \in DOMAIN order : order[i].oriOrder \in DOMAIN boxes \cup {-1}

\* The types of the lists; an index in a list of scores is one of a box.
TypeOK ==
  /\ stage \in {"idle", "rnet", "onet"} /\ picture \in 0 .. MaxPictures /\ clean \in BOOLEAN
  /\ \A boxes \in {firstBbox_, secondBbox_, thirdBbox_, detections, sifted} :
       \A n \in DOMAIN boxes : IsBox(boxes[n])
  /\ IsOrder(firstOrderScore_, firstBbox_) /\ IsOrder(secondBboxScore_, secondBbox_)
  /\ IsOrder(thirdBboxScore_, thirdBbox_)

\* What nms is for: a box exists if and only if no existing box that is better
\* overlaps it.  Of two boxes with one score the later is better.
Better(boxes, j, i) ==
  boxes[j].score > boxes[i].score \/ (boxes[j].score = boxes[i].score /\ j > i)

BestOnly(boxes, threshold, model) ==
  \A i \in DOMAIN boxes : boxes[i].exist <=>
    ~\E j \in LiveSet(boxes) :
       Better(boxes, j, i) /\ Overlapping(boxes[i], boxes[j], threshold, model)

\* The faces handed on are the best of the boxes that overlap, whatever earlier
\* pictures left in the lists of the first two nets (mtcnn.cpp:250).
DetectionsBest == BestOnly(detections, nms_threshold[3], "Min")

\* Every face handed on was accepted by O-net in this very picture, though the
\* nets' lists outlive a picture in which they accept nothing.
DetectionsOfPicture ==
  \A n \in DOMAIN detections : detections[n].passed = picture

\* After a picture that left nothing behind, the first two nets too go on with
\* the best boxes only.  (After one that did, they need not: see README.)
SiftedBest ==
  clean => /\ stage = "rnet" => BestOnly(sifted, nms_threshold[1], "Union")
           /\ stage = "onet" => BestOnly(sifted, nms_threshold[2], "Union")

\* What findFace may find in its lists when a picture comes: no score, no box
\* of O-net, and no existing box of R-net; nms would index past the boxes, or
\* hand on faces of the past, otherwise (network.cpp:32, mtcnn.cpp:248).
LeftoversDead ==
  stage = "idle" =>
    /\ firstOrderScore_ = <<>> /\ secondBboxScore_ = <<>> /\ thirdBboxScore_ = <<>>
    /\ thirdBbox_ = <<>> /\ LiveSet(secondBbox_) = {}

\* What is cropped next: for R-net, for O-net, and for whoever gets the faces.
Crops == CASE stage = "rnet" -> firstBbox_
           [] stage = "onet" -> secondBbox_
           [] OTHER          -> detections

\* The net leaves the centre of the box in the picture, and its longer side is
\* two pixels or more.
Centred(b) ==
  /\ 0 <= Low(b) + High(b) /\ Low(b) + High(b) < 16 * (Height - 1)
  /\ 0 <= Left(b) + Right(b) /\ Left(b) + Right(b) < 16 * (Width - 1)
  /\ Side(b) >= 16

\* What is cropped is a part of the picture, and not an empty one, if the net
\* before left its centre in the picture; no other crop than one that is inside
\* out throws (mtcnn.cpp:151, :205, alignment.cpp:113).
CropsInside ==
  \A n \in LiveSet(Crops) :
    Centred(sifted[n]) \/ (Crops[n].x1 < Crops[n].x2 /\ Crops[n].y1 < Crops[n].y2)
      => Inside(Crops[n])
=============================================================================
