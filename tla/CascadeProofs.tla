---------------------------- MODULE CascadeProofs ----------------------------
(***************************************************************************)
(* Proofs about Cascade for pictures of any size, any scales, whatever the *)
(* nets say and however many boxes there are.                              *)
(***************************************************************************)
EXTENDS Cascade, WellFoundedInduction, TLAPS

(***************************************************************************)
(* Induction over the natural numbers, stated with a set                   *)
(***************************************************************************)
LEMMA LessThan == OpToRel(<, Nat) = {ss \in Nat \X Nat : ss[1] < ss[2]}
BY Zenon DEF OpToRel

LEMMA Least ==
  ASSUME NEW T \in SUBSET Nat, T # {}
  PROVE  \E x \in T : \A y \in T : x <= y
<1> DEFINE R == {ss \in Nat \X Nat : ss[1] < ss[2]}
<1>1. IsWellFoundedOn(R, Nat)
  BY NatLessThanWellFounded, LessThan, Zenon
<1>2. \E x \in T : \A y \in T : ~(<<y, x>> \in R)
  <2> HIDE DEF R
  <2> QED  BY <1>1, WFMin, Zenon
<1>3. PICK x \in T : \A y \in T : ~(<<y, x>> \in R)  BY <1>2
<1>4. ASSUME NEW y \in T PROVE x <= y
  <2>1. x \in Nat /\ y \in Nat /\ ~(<<y, x>> \in R)  BY <1>3
  <2> QED  BY <2>1
<1> QED  BY <1>4

LEMMA Induction ==
  ASSUME NEW n \in Nat, NEW T, 0 \in T, \A k \in 1 .. n : k - 1 \in T => k \in T
  PROVE  0 .. n \subseteq T
<1> DEFINE Rest == {k \in 0 .. n : k \notin T}
<1>1. CASE Rest = {}
  BY <1>1
<1>2. CASE Rest # {}
  <2>1. Rest \in SUBSET Nat  OBVIOUS
  <2>2. PICK k \in Rest : \A j \in Rest : k <= j
    <3> HIDE DEF Rest
    <3> QED  BY <1>2, <2>1, Least
  <2>3. k \in 1 .. n /\ k - 1 \in 0 .. n /\ k \notin T  BY <2>2
  <2>4. k - 1 \notin Rest  BY <2>2, <2>3
  <2> QED  BY <2>3, <2>4
<1> QED  BY <1>1, <1>2

(***************************************************************************)
(* Definitions by recursion: if step k leads from S[k - 1] to S[k], it can *)
(* be gone on with from S[0]                                               *)
(***************************************************************************)
\* f starts at a and goes on by step[k].
Iterates(f, n, a, step) == f = [k \in 0 .. n |-> IF k = 0 THEN a ELSE step[k][f[k - 1]]]

LEMMA Recursion ==
  ASSUME NEW n \in Nat, NEW S, NEW a \in S[0], NEW step,
         \A k \in 1 .. n : \A s \in S[k - 1] : step[k][s] \in S[k]
  PROVE  \E f : Iterates(f, n, a, step) /\ \A k \in 0 .. n : f[k] \in S[k]
<1> DEFINE P(f, m) == Iterates(f, m, a, step) /\ \A k \in 0 .. m : f[k] \in S[k]
           T == {m \in 0 .. n : \E f : P(f, m)}
<1>1. 0 \in T
  <2> DEFINE f == [k \in 0 .. 0 |-> a]
  <2>1. P(f, 0)  BY DEF Iterates
  <2> HIDE DEF P, f
  <2> QED  BY <2>1
<1>2. ASSUME NEW m \in 1 .. n, m - 1 \in T PROVE m \in T
  <2>1. PICK f : P(f, m - 1)  BY <1>2
  <2>2. \A k \in 0 .. m - 1 : f[k] = IF k = 0 THEN a ELSE step[k][f[k - 1]]
    BY <2>1, Zenon DEF Iterates
  <2>3. step[m][f[m - 1]] \in S[m]  BY <2>1
  <2> DEFINE g == [k \in 0 .. m |-> IF k = m THEN step[m][f[m - 1]] ELSE f[k]]
  <2>4. \A k \in 0 .. m : g[k] \in S[k]  BY <2>1, <2>3
  <2>5. ASSUME NEW k \in 0 .. m PROVE g[k] = IF k = 0 THEN a ELSE step[k][g[k - 1]]
    <3>1. CASE k = m
      <4>1. g[k] = step[m][f[m - 1]] /\ g[k - 1] = f[m - 1]  BY <3>1
      <4> QED  BY <3>1, <4>1
    <3>2. CASE k # m /\ k # 0
      <4>1. g[k] = f[k] /\ g[k - 1] = f[k - 1]  BY <3>2
      <4> QED  BY <2>2, <3>2, <4>1
    <3>3. CASE k = 0
      <4>1. g[k] = f[k]  BY <3>3
      <4> QED  BY <2>2, <3>3, <4>1
    <3> QED  BY <3>1, <3>2, <3>3
  <2>6. Iterates(g, m, a, step)
    <3>1. g = [k \in 0 .. m |-> g[k]]  OBVIOUS
    <3> HIDE DEF g
    <3> QED  BY <2>5, <3>1 DEF Iterates
  <2>7. P(g, m)  BY <2>4, <2>6
  <2> HIDE DEF g, P
  <2> QED  BY <2>7
<1>3. 0 .. n \subseteq T
  <2> HIDE DEF T
  <2> QED  BY <1>1, <1>2, Induction
<1>4. n \in T  BY <1>3
<1> QED  BY <1>4

\* Any two that start at a and go on alike are the same.
LEMMA OneIterate ==
  ASSUME NEW n \in Nat, NEW f, NEW g, f[0] = g[0],
         \A k \in 1 .. n : f[k - 1] = g[k - 1] => f[k] = g[k]
  PROVE  f[n] = g[n]
<1> DEFINE T == {k \in 0 .. n : f[k] = g[k]}
<1>1. 0 .. n \subseteq T
  <2>1. 0 \in T  OBVIOUS
  <2>2. \A k \in 1 .. n : k - 1 \in T => k \in T  OBVIOUS
  <2> HIDE DEF T
  <2> QED  BY <2>1, <2>2, Induction
<1> QED  BY <1>1

LEMMA TurnsIterate ==
  ASSUME NEW boxes, NEW order, NEW threshold, NEW model, Len(order) \in Nat, NEW S,
         [alive |-> LiveSet(boxes), order |-> order, heros |-> {}] \in S[0],
         \A k \in 1 .. Len(order) : \A s \in S[k - 1] : Turn(s, boxes, threshold, model) \in S[k]
  PROVE  Turns(boxes, order, threshold, model) \in S[Len(order)]
<1> DEFINE n == Len(order)
           a == [alive |-> LiveSet(boxes), order |-> order, heros |-> {}]
           T(s) == Turn(s, boxes, threshold, model)
           step == [k \in 1 .. n |-> [s \in S[k - 1] |-> T(s)]]
           after == CHOOSE g : g = [k \in 0 .. n |-> IF k = 0 THEN a ELSE T(g[k - 1])]
<1>1. n \in Nat /\ a \in S[0] /\ \A k \in 1 .. n : \A s \in S[k - 1] : T(s) \in S[k]  OBVIOUS
<1>2. Turns(boxes, order, threshold, model) = after[n]  BY DEF Turns
<1> HIDE DEF n, a, T
<1>3. \A k \in 1 .. n : \A s \in S[k - 1] : step[k][s] = T(s)  OBVIOUS
<1> HIDE DEF step
<1>4. PICK f : Iterates(f, n, a, step) /\ \A k \in 0 .. n : f[k] \in S[k]
  <2>1. \A k \in 1 .. n : \A s \in S[k - 1] : step[k][s] \in S[k]  BY <1>1, <1>3
  <2> QED  BY <1>1, <2>1, Recursion
<1>5. f = [k \in 0 .. n |-> IF k = 0 THEN a ELSE step[k][f[k - 1]]]
  BY <1>4 DEF Iterates
<1>6. f = [k \in 0 .. n |-> IF k = 0 THEN a ELSE T(f[k - 1])]
  <2>1. \A k \in 0 .. n : (IF k = 0 THEN a ELSE step[k][f[k - 1]]) = IF k = 0 THEN a ELSE T(f[k - 1])
    BY <1>1, <1>3, <1>4
  <2> QED  BY <1>5, <2>1
<1>7. after = [k \in 0 .. n |-> IF k = 0 THEN a ELSE T(after[k - 1])]
  BY <1>6, Zenon
<1> HIDE DEF after
<1>8. f[n] = after[n]
  <2>1. f[0] = after[0]  BY <1>1, <1>6, <1>7
  <2>2. \A k \in 1 .. n : f[k] = T(f[k - 1]) /\ after[k] = T(after[k - 1])
    BY <1>1, <1>6, <1>7
  <2>3. \A k \in 1 .. n : f[k - 1] = after[k - 1] => f[k] = after[k]  BY <2>2
  <2> QED  BY <1>1, <2>1, <2>3, OneIterate, Zenon
<1> QED  BY <1>1, <1>2, <1>4, <1>8 DEF n

(***************************************************************************)
(* Existing and Proposals                                                  *)
(***************************************************************************)
LEMMA ExistingIterates ==
  ASSUME NEW B, NEW boxes \in Seq(B)
  PROVE  \E f :
           /\ \A k \in 0 .. Len(boxes) : f[k] \in Seq({b \in B : b.exist})
           /\ f[0] = <<>>
           /\ \A k \in 1 .. Len(boxes) :
                f[k] = IF boxes[k].exist THEN Append(f[k - 1], boxes[k]) ELSE f[k - 1]
           /\ Existing(boxes) = f[Len(boxes)]
<1> DEFINE n == Len(boxes)
           S == Seq({b \in B : b.exist})
           T(k, s) == IF boxes[k].exist THEN Append(s, boxes[k]) ELSE s
           step == [k \in 1 .. n |-> [s \in S |-> T(k, s)]]
           all == [k \in 0 .. n |-> S]
           upTo == CHOOSE g : g = [k \in 0 .. n |-> IF k = 0 THEN <<>> ELSE T(k, g[k - 1])]
<1>1. n \in Nat /\ <<>> \in S  OBVIOUS
<1>2. ASSUME NEW k \in 1 .. n, NEW s \in S PROVE T(k, s) \in S
  <2>1. CASE boxes[k].exist
    <3>1. boxes[k] \in {b \in B : b.exist}  BY <2>1
    <3> QED  BY <2>1, <3>1
  <2>2. CASE ~boxes[k].exist  BY <2>2
  <2> QED  BY <2>1, <2>2
<1>3. Existing(boxes) = upTo[n]  BY DEF Existing
<1> HIDE DEF n, T, S
<1>4. \A k \in 1 .. n : \A s \in S : step[k][s] = T(k, s)  OBVIOUS
<1>5. PICK f : Iterates(f, n, <<>>, step) /\ \A k \in 0 .. n : f[k] \in S
  <2>1. <<>> \in all[0] /\ \A k \in 1 .. n : \A s \in all[k - 1] : step[k][s] \in all[k]
    BY <1>1, <1>2, <1>4
  <2>2. \A k \in 0 .. n : all[k] = S  OBVIOUS
  <2> HIDE DEF step, all
  <2>3. \E f : Iterates(f, n, <<>>, step) /\ \A k \in 0 .. n : f[k] \in all[k]
    BY <1>1, <2>1, Recursion
  <2> QED  BY <2>2, <2>3
<1>6. f = [k \in 0 .. n |-> IF k = 0 THEN <<>> ELSE step[k][f[k - 1]]]
  BY <1>5 DEF Iterates
<1>7. f = [k \in 0 .. n |-> IF k = 0 THEN <<>> ELSE T(k, f[k - 1])]
  <2>1. \A k \in 0 .. n : (IF k = 0 THEN <<>> ELSE step[k][f[k - 1]])
                            = IF k = 0 THEN <<>> ELSE T(k, f[k - 1])
    BY <1>1, <1>4, <1>5
  <2> HIDE DEF step
  <2> QED  BY <1>6, <2>1
<1>8. upTo = [k \in 0 .. n |-> IF k = 0 THEN <<>> ELSE T(k, upTo[k - 1])]
  BY <1>7, Zenon
<1> HIDE DEF upTo
<1>9. f[0] = <<>> /\ upTo[0] = <<>>
  BY <1>1, <1>7, <1>8
<1>10. \A k \in 1 .. n : f[k] = T(k, f[k - 1]) /\ upTo[k] = T(k, upTo[k - 1])
  BY <1>1, <1>7, <1>8
<1>11. f[n] = upTo[n]
  <2>1. f[0] = upTo[0]  BY <1>9
  <2>2. \A k \in 1 .. n : f[k - 1] = upTo[k - 1] => f[k] = upTo[k]  BY <1>10
  <2> QED  BY <1>1, <2>1, <2>2, OneIterate, Zenon
<1> QED  BY <1>3, <1>5, <1>9, <1>10, <1>11 DEF n, S, T

LEMMA AppendNotEmpty ==
  ASSUME NEW S, NEW s \in Seq(S), NEW e \in S
  PROVE  Append(s, e) # <<>>
<1>1. Len(Append(s, e)) = Len(s) + 1 /\ Len(s) \in Nat  OBVIOUS
<1>2. Len(<<>>) = 0  OBVIOUS
<1> QED  BY <1>1, <1>2

\* What exists, and only that, is in the list.
LEMMA ExistingFacts ==
  ASSUME NEW B, NEW boxes \in Seq(B)
  PROVE  /\ Existing(boxes) \in Seq({b \in B : b.exist})
         /\ Existing(boxes) = <<>> => LiveSet(boxes) = {}
<1>1. PICK f :
           /\ \A k \in 0 .. Len(boxes) : f[k] \in Seq({b \in B : b.exist})
           /\ f[0] = <<>>
           /\ \A k \in 1 .. Len(boxes) :
                f[k] = IF boxes[k].exist THEN Append(f[k - 1], boxes[k]) ELSE f[k - 1]
           /\ Existing(boxes) = f[Len(boxes)]
  BY ExistingIterates
<1> DEFINE n == Len(boxes)
           T == {k \in 0 .. n : f[k] = <<>> => \A i \in 1 .. k : ~boxes[i].exist}
<1>2. 0 .. n \subseteq T
  <2>1. n \in Nat /\ 0 \in T  OBVIOUS
  <2>2. ASSUME NEW k \in 1 .. n, k - 1 \in T PROVE k \in T
    <3>1. CASE boxes[k].exist
      <4> DEFINE S == {b \in B : b.exist}
      <4>1. boxes[k] \in S  BY <3>1
      <4>2. f[k - 1] \in Seq(S)  BY <1>1
      <4>3. f[k] = Append(f[k - 1], boxes[k])  BY <1>1, <3>1
      <4> HIDE DEF S, T
      <4>4. f[k] # <<>>  BY <4>1, <4>2, <4>3, AppendNotEmpty
      <4> QED  BY <4>4 DEF T
    <3>2. CASE ~boxes[k].exist
      <4>1. f[k] = f[k - 1]  BY <1>1, <3>2
      <4> QED  BY <2>2, <3>2, <4>1
    <3> QED  BY <3>1, <3>2
  <2> HIDE DEF T
  <2> QED  BY <2>1, <2>2, Induction
<1>3. n \in T  BY <1>2
<1> QED  BY <1>1, <1>3 DEF LiveSet

(***************************************************************************)
(* The types of the lists                                                  *)
(***************************************************************************)
Reg    == (-4 .. 4) \X (-4 .. 4) \X (-4 .. 4) \X (-4 .. 4)
\* A box O-net accepted in picture p at the latest.
Box(p) == [x1 : Int, y1 : Int, x2 : Int, y2 : Int, area : Int, score : 0 .. 10, reg : Reg,
           exist : BOOLEAN, passed : 0 .. p]
Live(p) == {b \in Box(p) : b.exist}

LEMMA ListType ==
  ASSUME NEW S, NEW n \in Nat, NEW f \in [1 .. n -> S]
  PROVE  f \in Seq(S) /\ Len(f) = n
OBVIOUS

LEMMA WithExist ==
  ASSUME NEW p, NEW b \in Box(p), NEW v \in BOOLEAN
  PROVE  [b EXCEPT !.exist = v] \in Box(p)
BY DEF Box

LEMMA SiftedType ==
  ASSUME NEW p \in Nat, NEW boxes \in Seq(Box(p)), NEW order, NEW threshold, NEW model
  PROVE  /\ nms(boxes, order, threshold, model) \in Seq(Box(p))
         /\ Len(nms(boxes, order, threshold, model)) = Len(boxes)
<1> DEFINE end == Turns(boxes, order, threshold, model)
           e(i) == i \in end.alive \cup end.heros
           f == [i \in DOMAIN boxes |-> [boxes[i] EXCEPT !.exist = e(i)]]
<1>1. nms(boxes, order, threshold, model) = f  BY DEF nms, Sifted
<1> HIDE DEF end
<1>2. ASSUME NEW i \in 1 .. Len(boxes) PROVE f[i] \in Box(p)
  <2>1. boxes[i] \in Box(p)  OBVIOUS
  <2>2. f[i] = [boxes[i] EXCEPT !.exist = e(i)]  OBVIOUS
  <2>3. [boxes[i] EXCEPT !.exist = e(i)] \in Box(p)
    <3>1. e(i) \in BOOLEAN  OBVIOUS
    <3> HIDE DEF e
    <3> QED  BY <2>1, <3>1, WithExist
  <2> QED  BY <2>2, <2>3, Zenon
<1>3. Len(boxes) \in Nat  OBVIOUS
<1> HIDE DEF e
<1>4. f \in [1 .. Len(boxes) -> Box(p)]
  <2>1. f = [i \in 1 .. Len(boxes) |-> f[i]]  OBVIOUS
  <2> HIDE DEF f
  <2> QED  BY <1>2, <2>1
<1> HIDE DEF f
<1> QED  BY <1>1, <1>3, <1>4, ListType

LEMMA ProposalType ==
  ASSUME NEW cell \in Nat \X Nat, NEW n \in Nat, NEW verdict \in Verdict
  PROVE  Proposal(cell, n, verdict) \in Box(0)
BY DEF Proposal, Box, Verdict, stride, cellsize, Reg, Pthreshold

LEMMA OfScaleType ==
  ASSUME NEW maps \in Maps, NEW n \in ToSet(Scales)
  PROVE  OfScale(maps[n], n) \in Seq(Live(0))
<1> DEFINE map == maps[n]
           all == [i \in DOMAIN Cells[n] |-> Proposal(Cells[n][i], n, map[i])]
           boxes == cpu_generateBbox(map, n)
           kept == nms(boxes, Orders(boxes), nms_threshold[1], "Union")
<1>1. n \in Nat /\ Cells[n] \in Seq(Nat \X Nat)
  BY CascadeAssumption DEF ToSet
<1>2. map \in [DOMAIN Cells[n] -> Verdict]
  <2>1. PICK k \in ToSet(Scales) : map \in [DOMAIN Cells[k] -> PnetVerdicts]
    BY DEF Maps
  <2>2. DOMAIN map = DOMAIN Cells[n]  BY DEF Maps
  <2> HIDE DEF map
  <2> QED  BY <2>1, <2>2, CascadeAssumption
<1>3. all \in Seq(Box(0))
  <2>1. \A i \in 1 .. Len(Cells[n]) : all[i] \in Box(0)
    BY <1>1, <1>2, ProposalType
  <2>2. DOMAIN all = 1 .. Len(Cells[n]) /\ Len(Cells[n]) \in Nat
    BY <1>1
  <2>3. all = [i \in 1 .. Len(Cells[n]) |-> all[i]]  BY <2>2
  <2> HIDE DEF all
  <2>4. all \in [1 .. Len(Cells[n]) -> Box(0)]  BY <2>1, <2>3
  <2> QED  BY <2>2, <2>4, ListType
<1>4. boxes \in Seq(Box(0))
  <2>1. boxes \in Seq({b \in Box(0) : b.exist})  BY <1>3, ExistingFacts DEF cpu_generateBbox
  <2> QED  BY <2>1
<1>5. kept \in Seq(Box(0))  BY <1>4, SiftedType
<1>6. Existing(kept) \in Seq({b \in Box(0) : b.exist})  BY <1>5, ExistingFacts
<1> QED  BY <1>6 DEF OfScale, Live

LEMMA ProposalsType ==
  ASSUME NEW maps \in Maps
  PROVE  Proposals(maps) \in Seq(Live(0))
<1> DEFINE n == Len(Scales)
           S == Seq(Live(0))
           T(k, s) == s \o OfScale(maps[Scales[n + 1 - k]], Scales[n + 1 - k])
           step == [k \in 1 .. n |-> [s \in S |-> T(k, s)]]
           all == [k \in 0 .. n |-> S]
           upTo == CHOOSE g : g = [k \in 0 .. n |-> IF k = 0 THEN <<>> ELSE T(k, g[k - 1])]
<1>1. n \in Nat /\ <<>> \in S  BY CascadeAssumption
<1>2. ASSUME NEW k \in 1 .. n, NEW s \in S PROVE T(k, s) \in S
  <2>1. Scales[n + 1 - k] \in ToSet(Scales)
    BY CascadeAssumption DEF ToSet
  <2>2. OfScale(maps[Scales[n + 1 - k]], Scales[n + 1 - k]) \in S
    BY <2>1, OfScaleType
  <2> QED  BY <2>2
<1>3. Proposals(maps) = upTo[n]  BY DEF Proposals
<1> HIDE DEF n, T, S
<1>4. \A k \in 1 .. n : \A s \in S : step[k][s] = T(k, s)  OBVIOUS
<1>5. PICK f : Iterates(f, n, <<>>, step) /\ \A k \in 0 .. n : f[k] \in S
  <2>1. <<>> \in all[0] /\ \A k \in 1 .. n : \A s \in all[k - 1] : step[k][s] \in all[k]
    BY <1>1, <1>2, <1>4
  <2>2. \A k \in 0 .. n : all[k] = S  OBVIOUS
  <2> HIDE DEF step, all
  <2>3. \E f : Iterates(f, n, <<>>, step) /\ \A k \in 0 .. n : f[k] \in all[k]
    BY <1>1, <2>1, Recursion
  <2> QED  BY <2>2, <2>3
<1>6. f = [k \in 0 .. n |-> IF k = 0 THEN <<>> ELSE step[k][f[k - 1]]]
  BY <1>5 DEF Iterates
<1>7. f = [k \in 0 .. n |-> IF k = 0 THEN <<>> ELSE T(k, f[k - 1])]
  <2>1. \A k \in 0 .. n : (IF k = 0 THEN <<>> ELSE step[k][f[k - 1]])
                            = IF k = 0 THEN <<>> ELSE T(k, f[k - 1])
    BY <1>1, <1>4, <1>5
  <2> HIDE DEF step
  <2> QED  BY <1>6, <2>1
<1>8. upTo = [k \in 0 .. n |-> IF k = 0 THEN <<>> ELSE T(k, upTo[k - 1])]
  BY <1>7, Zenon
<1> HIDE DEF upTo
<1>9. f[n] = upTo[n]
  <2>1. f[0] = upTo[0]  BY <1>1, <1>7, <1>8
  <2>2. \A k \in 1 .. n : f[k] = T(k, f[k - 1]) /\ upTo[k] = T(k, upTo[k - 1])
    BY <1>1, <1>7, <1>8
  <2>3. \A k \in 1 .. n : f[k - 1] = upTo[k - 1] => f[k] = upTo[k]  BY <2>2
  <2> QED  BY <1>1, <2>1, <2>3, OneIterate, Zenon
<1> QED  BY <1>1, <1>3, <1>5, <1>9 DEF S

LEMMA MoreBoxes ==
  ASSUME NEW p \in Nat, NEW q \in Nat, p <= q
  PROVE  /\ Box(p) \subseteq Box(q) /\ Seq(Box(p)) \subseteq Seq(Box(q))
         /\ Seq(Live(p)) \subseteq Seq(Box(q))
<1>1. Box(p) \subseteq Box(q)  BY DEF Box
<1> QED  BY <1>1 DEF Live

LEMMA SquaredSides ==
  ASSUME NEW p, NEW b \in Box(p)
  PROVE  /\ Low(b) \in Int /\ High(b) \in Int /\ Left(b) \in Int /\ Right(b) \in Int
         /\ Side(b) \in Int
<1>1. \A i \in 1 .. 4 : b.reg[i] \in Int  BY DEF Box, Reg
<1>2. b.x2 - b.x1 + 1 \in Int /\ b.y2 - b.y1 + 1 \in Int /\ b.x1 \in Int /\ b.x2 \in Int
      /\ b.y1 \in Int /\ b.y2 \in Int
  BY DEF Box
<1>3. Low(b) \in Int /\ High(b) \in Int /\ Left(b) \in Int /\ Right(b) \in Int
  BY <1>1, <1>2 DEF Low, High, Left, Right
<1> QED  BY <1>3 DEF Side, Larger

LEMMA RefinedType ==
  ASSUME NEW p, NEW b \in Box(p)
  PROVE  Refined(b) \in Box(p) /\ Refined(b).exist = b.exist
<1> DEFINE s == Squared(b)
           t == BoundaryCheck(s)
<1>1. \A e \in Int : round(e) \in Int  BY DEF round
<1>2. ASSUME NEW x \in Int, NEW y \in Int PROVE Larger(x, y) \in Int  BY DEF Larger
<1>3. s \in Box(p) /\ s.exist = b.exist
  <2>1. \E x1, x2, y1, y2 \in Int : s = [b EXCEPT !.x1 = x1, !.x2 = x2, !.y1 = y1, !.y2 = y2]
    <3> DEFINE x == Begin(Low(b), High(b), Side(b))
               y == Begin(Left(b), Right(b), Side(b))
    <3>1. /\ Low(b) \in Int /\ High(b) \in Int /\ Left(b) \in Int /\ Right(b) \in Int
          /\ Side(b) \in Int
      BY SquaredSides
    <3>2. x \in Int /\ y \in Int  BY <3>1 DEF Begin
    <3>3. s = [b EXCEPT !.x1 = round(x), !.x2 = round(x + Side(b) - 8),
                        !.y1 = round(y), !.y2 = round(y + Side(b) - 8)]
      BY Zenon DEF Squared
    <3> HIDE DEF x, y, s
    <3>4. /\ round(x) \in Int /\ round(x + Side(b) - 8) \in Int
          /\ round(y) \in Int /\ round(y + Side(b) - 8) \in Int
      BY <1>1, <3>1, <3>2
    <3> QED  BY <3>3, <3>4
  <2> HIDE DEF s
  <2> QED  BY <2>1 DEF Box
<1> HIDE DEF s
<1>4. t \in Box(p) /\ t.exist = b.exist
  <2> DEFINE x1 == Larger(s.x1, 0)
             x2 == IF s.x2 > Height THEN Height - 1 ELSE s.x2
             y1 == Larger(s.y1, 0)
             y2 == IF s.y2 > Width THEN Width - 1 ELSE s.y2
  <2>1. x1 \in Int /\ x2 \in Int /\ y1 \in Int /\ y2 \in Int
    BY <1>3, CascadeAssumption DEF Larger, Box
  <2>2. t = [s EXCEPT !.x1 = x1, !.x2 = x2, !.y1 = y1, !.y2 = y2]
    BY DEF BoundaryCheck, Bounded
  <2> HIDE DEF x1, x2, y1, y2, t
  <2> QED  BY <1>3, <2>1, <2>2 DEF Box
<1>5. Refined(b) = [t EXCEPT !.area = Area(t)]  BY DEF Refined, s
<1> HIDE DEF t
<1>6. Area(t) \in Int  BY <1>4 DEF Area, Box
<1> QED  BY <1>4, <1>5, <1>6 DEF Box

LEMMA RefinedListType ==
  ASSUME NEW p, NEW boxes \in Seq(Box(p))
  PROVE  /\ refineAndSquareBbox(boxes) \in Seq(Box(p))
         /\ Len(refineAndSquareBbox(boxes)) = Len(boxes)
         /\ LiveSet(refineAndSquareBbox(boxes)) = LiveSet(boxes)
         /\ \A i \in DOMAIN boxes : /\ refineAndSquareBbox(boxes)[i].score = boxes[i].score
                                    /\ refineAndSquareBbox(boxes)[i].passed = boxes[i].passed
<1> DEFINE f == [i \in 1 .. Len(boxes) |-> IF boxes[i].exist THEN Refined(boxes[i]) ELSE boxes[i]]
<1>1. f = refineAndSquareBbox(boxes)  BY DEF refineAndSquareBbox
<1>2. \A i \in 1 .. Len(boxes) :
         f[i] \in Box(p) /\ f[i].exist = boxes[i].exist
  BY RefinedType
<1>3. \A i \in 1 .. Len(boxes) :
         f[i].score = boxes[i].score /\ f[i].passed = boxes[i].passed
  <2> TAKE i \in 1 .. Len(boxes)
  <2>1. boxes[i] \in Box(p)  OBVIOUS
  <2>2. ASSUME NEW b \in Box(p) PROVE Refined(b).score = b.score /\ Refined(b).passed = b.passed
    BY DEF Refined, BoundaryCheck, Bounded, Squared, Box
  <2> QED  BY <2>1, <2>2
<1>4. DOMAIN f = 1 .. Len(boxes) /\ Len(boxes) \in Nat /\ DOMAIN boxes = 1 .. Len(boxes)  OBVIOUS
<1>5. f = [i \in 1 .. Len(boxes) |-> f[i]]  OBVIOUS
<1> HIDE DEF f
<1>6. f \in [1 .. Len(boxes) -> Box(p)]  BY <1>2, <1>5
<1>7. f \in Seq(Box(p)) /\ Len(f) = Len(boxes)  BY <1>4, <1>6, ListType
<1>8. LiveSet(f) = LiveSet(boxes)  BY <1>2, <1>4 DEF LiveSet
<1> QED  BY <1>1, <1>3, <1>4, <1>7, <1>8

LEMMA JudgedType ==
  ASSUME NEW p, NEW b \in Box(p), NEW verdict \in Verdict
  PROVE  Judged(b, verdict) \in Box(p)
<1>1. Area(b) \in Int  BY DEF Area, Box
<1> QED  BY <1>1 DEF Judged, Box, Verdict, Reg

LEMMA AfterNetType ==
  ASSUME NEW p, NEW boxes \in Seq(Box(p)), NEW V \in SUBSET Verdict,
         NEW says \in [LiveSet(boxes) -> V], NEW threshold
  PROVE  AfterNet(boxes, says, threshold) \in Seq(Box(p))
<1> DEFINE f == AfterNet(boxes, says, threshold)
<1>1. DOMAIN f = 1 .. Len(boxes) /\ Len(boxes) \in Nat  BY DEF AfterNet
<1>2. ASSUME NEW i \in 1 .. Len(boxes) PROVE f[i] \in Box(p)
  <2>1. boxes[i] \in Box(p)  OBVIOUS
  <2>2. CASE i \notin LiveSet(boxes)  BY <2>1, <2>2 DEF AfterNet
  <2>3. CASE i \in LiveSet(boxes) /\ says[i].score > threshold
    <3>1. says[i] \in Verdict /\ f[i] = Judged(boxes[i], says[i])  BY <2>3 DEF AfterNet
    <3> HIDE DEF f
    <3> QED  BY <2>1, <3>1, JudgedType
  <2>4. CASE i \in LiveSet(boxes) /\ ~(says[i].score > threshold)
    <3>1. i \in DOMAIN boxes  OBVIOUS
    <3>2. f[i] = [boxes[i] EXCEPT !.exist = FALSE]  BY <2>4, <3>1, Zenon DEF AfterNet
    <3> HIDE DEF f
    <3> QED  BY <2>1, <3>2, WithExist
  <2> QED  BY <2>2, <2>3, <2>4
<1>3. f = [i \in 1 .. Len(boxes) |-> f[i]]  BY DEF AfterNet
<1> HIDE DEF f
<1>4. f \in [1 .. Len(boxes) -> Box(p)]  BY <1>2, <1>3
<1> QED  BY <1>1, <1>4, ListType DEF f

LEMMA WithPassed ==
  ASSUME NEW p \in Nat, NEW b \in Box(p)
  PROVE  [b EXCEPT !.passed = p] \in Box(p) /\ [b EXCEPT !.passed = p].passed = p
BY DEF Box

\* What O-net accepts is of the picture.
Stamped(boxes, p) == [i \in DOMAIN boxes |-> [boxes[i] EXCEPT !.passed = p]]

LEMMA AcceptedType ==
  ASSUME NEW p \in Nat, NEW boxes \in Seq(Live(p)), NEW f, f = Stamped(boxes, p)
  PROVE  /\ f \in Seq(Live(p)) /\ Len(f) = Len(boxes)
         /\ \A i \in DOMAIN f : f[i].passed = p
<1>1. DOMAIN f = 1 .. Len(boxes) /\ Len(boxes) \in Nat  BY DEF Stamped
<1>2. ASSUME NEW i \in 1 .. Len(boxes) PROVE f[i] \in Live(p) /\ f[i].passed = p
  <2>1. boxes[i] \in Live(p) /\ f[i] = [boxes[i] EXCEPT !.passed = p]  BY DEF Stamped
  <2>2. boxes[i] \in Box(p) /\ boxes[i].exist  BY <2>1 DEF Live
  <2>3. f[i] \in Box(p) /\ f[i].passed = p  BY <2>1, <2>2, WithPassed
  <2>4. f[i].exist  BY <2>1, <2>2 DEF Box
  <2> QED  BY <2>3, <2>4 DEF Live
<1>3. f \in [1 .. Len(boxes) -> Live(p)]
  <2>1. f = [i \in 1 .. Len(boxes) |-> f[i]]  BY <1>1 DEF Stamped
  <2> QED  BY <1>2, <2>1
<1> QED  BY <1>1, <1>2, <1>3, ListType

\* nms and refineAndSquareBbox change no score and no picture.
LEMMA SiftedKeeps ==
  ASSUME NEW p, NEW boxes \in Seq(Box(p)), NEW order, NEW threshold, NEW model, NEW i \in DOMAIN boxes
  PROVE  nms(boxes, order, threshold, model)[i].passed = boxes[i].passed
<1>1. boxes[i] \in Box(p)  OBVIOUS
<1> QED  BY <1>1 DEF nms, Sifted, Box

(***************************************************************************)
(* nms keeps the best of the boxes that overlap                            *)
(***************************************************************************)
Entry == [score : 0 .. 10, oriOrder : Int]

LEMMA BackFacts ==
  ASSUME NEW order \in Seq(Entry), Len(order) > 0
  PROVE  /\ Back(order) \in DOMAIN order
         /\ \A j \in DOMAIN order :
              \/ order[j].score < order[Back(order)].score
              \/ order[j].score = order[Back(order)].score /\ j <= Back(order)
<1> DEFINE n == Len(order)
           Short == {10 - order[i].score : i \in 1 .. n}
<1>1. n \in Nat /\ n > 0 /\ DOMAIN order = 1 .. n
      /\ \A i \in 1 .. n : order[i].score \in 0 .. 10
  <2>1. n \in Nat /\ n > 0 /\ DOMAIN order = 1 .. n /\ \A i \in 1 .. n : order[i] \in Entry
    OBVIOUS
  <2> HIDE DEF n
  <2> QED  BY <2>1 DEF Entry
<1> HIDE DEF n
<1>2. PICK i \in 1 .. n : \A j \in 1 .. n : order[j].score <= order[i].score
  <2>1. Short \in SUBSET Nat /\ Short # {}  BY <1>1
  <2>2. PICK x \in Short : \A y \in Short : x <= y
    <3> HIDE DEF Short
    <3> QED  BY <2>1, Least
  <2>3. PICK i \in 1 .. n : x = 10 - order[i].score  BY <2>2
  <2>4. ASSUME NEW j \in 1 .. n PROVE order[j].score <= order[i].score
    <3>1. 10 - order[i].score <= 10 - order[j].score  BY <2>2, <2>3
    <3>2. order[i].score \in 0 .. 10 /\ order[j].score \in 0 .. 10  BY <1>1
    <3>3. \A x1, y1 \in 0 .. 10 : 10 - x1 <= 10 - y1 => y1 <= x1  OBVIOUS
    <3> QED  BY <3>1, <3>2, <3>3, Zenon
  <2> QED  BY <2>4
<1> DEFINE Far == {n - j : j \in {j \in 1 .. n : order[j].score = order[i].score}}
<1>3. PICK b \in 1 .. n : /\ order[b].score = order[i].score
                          /\ \A j \in 1 .. n : order[j].score = order[i].score => j <= b
  <2>1. Far \in SUBSET Nat /\ Far # {}  BY <1>1
  <2>2. PICK x \in Far : \A y \in Far : x <= y
    <3> HIDE DEF Far
    <3> QED  BY <2>1, Least
  <2>3. PICK b \in 1 .. n : x = n - b /\ order[b].score = order[i].score  BY <2>2
  <2>4. ASSUME NEW j \in 1 .. n, order[j].score = order[i].score PROVE j <= b
    <3>1. n - j \in Far  BY <2>4
    <3>2. n - b <= n - j  BY <2>2, <2>3, <3>1
    <3> QED  BY <1>1, <3>2
  <2> QED  BY <2>3, <2>4
<1> DEFINE Highest(k) == \A j \in DOMAIN order :
                        \/ order[j].score < order[k].score
                        \/ order[j].score = order[k].score /\ j <= k
<1>4. b \in DOMAIN order /\ Highest(b)
  <2>1. ASSUME NEW j \in 1 .. n
        PROVE  \/ order[j].score < order[b].score
               \/ order[j].score = order[b].score /\ j <= b
    <3>1. order[j].score \in 0 .. 10 /\ order[b].score \in 0 .. 10  BY <1>1
    <3>2. order[j].score <= order[b].score  BY <1>2, <1>3
    <3>3. \A x, y \in 0 .. 10 : x <= y => x < y \/ x = y  OBVIOUS
    <3>4. order[j].score < order[b].score \/ order[j].score = order[b].score
      BY <3>1, <3>2, <3>3, Zenon
    <3> QED  BY <1>3, <3>4
  <2> QED  BY <1>1, <2>1
<1>5. Back(order) = CHOOSE k \in DOMAIN order : Highest(k)  BY DEF Back
<1> HIDE DEF Highest
<1>6. Back(order) \in DOMAIN order /\ Highest(Back(order))  BY <1>4, <1>5, Zenon
<1> QED  BY <1>6 DEF Highest

LEMMA RestFacts ==
  ASSUME NEW order \in Seq(Entry), NEW b \in DOMAIN order
  PROVE  /\ RemoveAt(order, b) \in Seq(Entry)
         /\ Len(RemoveAt(order, b)) = Len(order) - 1
         /\ \A i \in 1 .. Len(order) - 1 :
               RemoveAt(order, b)[i] = IF i < b THEN order[i] ELSE order[i + 1]
<1> DEFINE s == SubSeq(order, 1, b - 1)
           t == SubSeq(order, b + 1, Len(order))
<1>1. s \in Seq(Entry) /\ Len(s) = b - 1 /\ \A i \in 1 .. b - 1 : s[i] = order[i]
  OBVIOUS
<1>2. /\ t \in Seq(Entry) /\ Len(t) = Len(order) - b
      /\ \A i \in 1 .. Len(order) - b : t[i] = order[b + i]
  OBVIOUS
<1>3. RemoveAt(order, b) = s \o t  BY DEF RemoveAt
<1> HIDE DEF s, t
<1> QED  BY <1>1, <1>2, <1>3

\* The loop of nms: the scores that are left are those of the boxes that are
\* alive, in their order; a hero is better than what is alive and overlaps none
\* of it; what is gone was overlapped by a better hero.
ScoresLeft(s, boxes) ==
  /\ \A i \in 1 .. Len(s.order) : s.order[i].oriOrder >= 0 =>
        /\ s.order[i].oriOrder \in s.alive
        /\ s.order[i].score = boxes[s.order[i].oriOrder].score
  /\ \A i, j \in 1 .. Len(s.order) :
        i < j /\ s.order[i].oriOrder >= 0 /\ s.order[j].oriOrder >= 0
           => s.order[i].oriOrder < s.order[j].oriOrder
  /\ \A n \in s.alive : \E i \in 1 .. Len(s.order) : s.order[i].oriOrder = n
HerosBest(s, boxes, threshold, model) ==
  /\ \A h \in s.heros : \A n \in s.alive :
        n # h /\ Better(boxes, h, n) /\ ~Overlapping(boxes[n], boxes[h], threshold, model)
  /\ \A g, h \in s.heros :
        Better(boxes, h, g) => ~Overlapping(boxes[g], boxes[h], threshold, model)
  /\ \A n \in DOMAIN boxes \ (s.alive \cup s.heros) : \E h \in s.heros :
        Better(boxes, h, n) /\ Overlapping(boxes[n], boxes[h], threshold, model)
State(boxes) == [alive : SUBSET DOMAIN boxes, order : Seq(Entry), heros : SUBSET DOMAIN boxes]
Looping(s, boxes, threshold, model) ==
  s \in State(boxes) /\ ScoresLeft(s, boxes) /\ HerosBest(s, boxes, threshold, model)

\* The boxes that go when hero becomes one.
Gone(s, hero, boxes, threshold, model) ==
  {n \in s.alive \ {hero} : Overlapping(boxes[n], boxes[hero], threshold, model)}

\* What a turn does to s, with the best score's place b: it leads to t.
Led(s, b, hero, gone, t) ==
  /\ Len(t.order) = Len(s.order) - 1
  /\ \A i \in 1 .. Len(s.order) - 1 :
       LET e == s.order[IF i < b THEN i ELSE i + 1]
       IN  /\ t.order[i].score = e.score
           /\ t.order[i].oriOrder = IF hero >= 0 /\ e.oriOrder \in gone THEN -1 ELSE e.oriOrder
  /\ IF hero < 0 THEN t.alive = s.alive /\ t.heros = s.heros
     ELSE t.alive = s.alive \ (gone \cup {hero}) /\ t.heros = s.heros \cup {hero}

LEMMA TurnFacts ==
  ASSUME NEW p, NEW boxes \in Seq(Box(p)), NEW threshold, NEW model, NEW s \in State(boxes),
         Len(s.order) > 0, NEW b, b = Back(s.order), NEW hero, hero = s.order[b].oriOrder,
         NEW gone, gone = Gone(s, hero, boxes, threshold, model),
         hero \in Int, hero >= 0 => hero \in DOMAIN boxes, NEW t, t = Turn(s, boxes, threshold, model)
  PROVE  t \in State(boxes) /\ Led(s, b, hero, gone, t)
<1> DEFINE rest == RemoveAt(s.order, b)
<1>1. s.order \in Seq(Entry) /\ s.alive \subseteq DOMAIN boxes /\ s.heros \subseteq DOMAIN boxes
  BY DEF State
<1>2. b \in DOMAIN s.order  BY <1>1, BackFacts
<1>3. /\ rest \in Seq(Entry) /\ Len(rest) = Len(s.order) - 1
      /\ \A i \in 1 .. Len(s.order) - 1 :
            rest[i] = IF i < b THEN s.order[i] ELSE s.order[i + 1]
  BY <1>1, <1>2, RestFacts
<1>4. CASE hero < 0
  <2>1. t = [s EXCEPT !.order = rest]  BY <1>4 DEF Turn, Gone
  <2> HIDE DEF rest
  <2>2. t \in State(boxes) /\ t.order = rest /\ t.alive = s.alive /\ t.heros = s.heros
    BY <1>3, <2>1 DEF State
  <2> QED  BY <1>3, <1>4, <2>2 DEF Led
<1>5. CASE hero >= 0
  <2> DEFINE left == [i \in DOMAIN rest |-> [rest[i] EXCEPT !.oriOrder = IF @ \in gone THEN -1 ELSE @]]
  <2>1. t = [alive |-> s.alive \ (gone \cup {hero}), order |-> left, heros |-> s.heros \cup {hero}]
    BY <1>5 DEF Turn, Gone
  <2> HIDE DEF rest
  <2>2. Len(rest) \in Nat /\ DOMAIN rest = 1 .. Len(rest) /\ \A i \in 1 .. Len(rest) : rest[i] \in Entry
    BY <1>3
  <2>3. \A i \in 1 .. Len(rest) :
           /\ left[i] \in Entry /\ left[i].score = rest[i].score
           /\ left[i].oriOrder = IF rest[i].oriOrder \in gone THEN -1 ELSE rest[i].oriOrder
    BY <2>2 DEF Entry
  <2>4. left \in Seq(Entry) /\ Len(left) = Len(rest)
    <3>1. left = [i \in 1 .. Len(rest) |-> left[i]]  BY <2>2
    <3> HIDE DEF left
    <3>2. left \in [1 .. Len(rest) -> Entry]  BY <2>3, <3>1
    <3> QED  BY <2>2, <3>2, ListType
  <2> HIDE DEF left
  <2>5. t \in State(boxes)  BY <1>1, <1>5, <2>1, <2>4 DEF State
  <2>6. ASSUME NEW i \in 1 .. Len(s.order) - 1
        PROVE  LET e == s.order[IF i < b THEN i ELSE i + 1]
               IN  /\ left[i].score = e.score
                   /\ left[i].oriOrder = IF hero >= 0 /\ e.oriOrder \in gone THEN -1 ELSE e.oriOrder
    <3>1. i \in 1 .. Len(rest) /\ rest[i] = s.order[IF i < b THEN i ELSE i + 1]  BY <1>3
    <3> QED  BY <1>5, <2>3, <3>1
  <2> QED  BY <1>3, <1>5, <2>1, <2>4, <2>5, <2>6 DEF Led
<1> QED  BY <1>4, <1>5

LEMMA BetterFacts ==
  ASSUME NEW p, NEW boxes \in Seq(Box(p)), NEW i \in DOMAIN boxes, NEW j \in DOMAIN boxes,
         Better(boxes, i, j)
  PROVE  i # j /\ ~Better(boxes, j, i)
<1>1. boxes[i] \in Box(p) /\ boxes[j] \in Box(p) /\ i \in Int /\ j \in Int  OBVIOUS
<1>2. boxes[i].score \in 0 .. 10 /\ boxes[j].score \in 0 .. 10  BY <1>1 DEF Box
<1>3. \A x, y \in 0 .. 10 : x \in Int /\ y \in Int  OBVIOUS
<1>4. boxes[i].score \in Int /\ boxes[j].score \in Int  BY <1>2, <1>3, Zenon
<1> QED  BY <1>1, <1>4 DEF Better

LEMMA LoopingKept ==
  ASSUME NEW p, NEW boxes \in Seq(Box(p)), NEW threshold, NEW model, NEW s,
         Looping(s, boxes, threshold, model), Len(s.order) > 0
  PROVE  /\ Looping(Turn(s, boxes, threshold, model), boxes, threshold, model)
         /\ Len(Turn(s, boxes, threshold, model).order) = Len(s.order) - 1
<1> DEFINE b == Back(s.order)
           hero == s.order[b].oriOrder
           gone == Gone(s, hero, boxes, threshold, model)
           t == Turn(s, boxes, threshold, model)
           n == Len(s.order)
           place(i) == IF i < b THEN i ELSE i + 1
<1>1. /\ s \in State(boxes) /\ s.order \in Seq(Entry) /\ n \in Nat
      /\ s.alive \subseteq DOMAIN boxes /\ s.heros \subseteq DOMAIN boxes
  BY DEF Looping, State
<1>2. /\ b \in 1 .. n
      /\ \A j \in 1 .. n : \/ s.order[j].score < s.order[b].score
                           \/ s.order[j].score = s.order[b].score /\ j <= b
  BY <1>1, BackFacts
<1>3. hero \in Int /\ \A j \in 1 .. n : s.order[j].oriOrder \in Int
  <2>1. \A j \in 1 .. n : s.order[j] \in Entry  BY <1>1
  <2> QED  BY <1>2, <2>1 DEF Entry
<1>4. hero >= 0 => hero \in s.alive /\ hero \in DOMAIN boxes
  BY <1>1, <1>2 DEF Looping, ScoresLeft
<1>5. /\ t \in State(boxes) /\ Len(t.order) = n - 1
      /\ \A i \in 1 .. n - 1 :
            /\ t.order[i].score = s.order[place(i)].score
            /\ t.order[i].oriOrder = IF hero >= 0 /\ s.order[place(i)].oriOrder \in gone
                                     THEN -1 ELSE s.order[place(i)].oriOrder
      /\ IF hero < 0 THEN t.alive = s.alive /\ t.heros = s.heros
         ELSE t.alive = s.alive \ (gone \cup {hero}) /\ t.heros = s.heros \cup {hero}
  <2>1. /\ b = Back(s.order) /\ hero = s.order[b].oriOrder /\ t = Turn(s, boxes, threshold, model)
        /\ gone = Gone(s, hero, boxes, threshold, model)
    OBVIOUS
  <2> HIDE DEF b, hero, gone, t, n
  <2>2. hero \in Int /\ (hero >= 0 => hero \in DOMAIN boxes) /\ Len(s.order) > 0
    BY <1>3, <1>4
  <2>3. s \in State(boxes)  BY <1>1
  <2>4. t \in State(boxes) /\ Led(s, b, hero, gone, t)
    BY <2>1, <2>2, <2>3, TurnFacts
  <2> QED  BY <2>4 DEF n, place, Led
<1> HIDE DEF t, n, b, hero
<1>6. /\ \A i \in 1 .. n - 1 : place(i) \in 1 .. n /\ place(i) # b
      /\ \A i, j \in 1 .. n - 1 : i < j => place(i) < place(j)
      /\ \A j \in 1 .. n : j # b => \E i \in 1 .. n - 1 : place(i) = j
  <2>1. ASSUME NEW j \in 1 .. n, j # b PROVE \E i \in 1 .. n - 1 : place(i) = j
    <3>1. CASE j < b
      <4>1. j \in 1 .. n - 1 /\ place(j) = j  BY <1>1, <1>2, <3>1
      <4> HIDE DEF place
      <4> QED  BY <4>1
    <3>2. CASE j > b
      <4>1. j - 1 \in 1 .. n - 1 /\ place(j - 1) = j  BY <1>1, <1>2, <3>2
      <4> HIDE DEF place
      <4> QED  BY <4>1
    <3> QED  BY <1>1, <1>2, <2>1, <3>1, <3>2
  <2>2. \A i \in 1 .. n - 1 : place(i) \in 1 .. n /\ place(i) # b  BY <1>1, <1>2
  <2>3. \A i, j \in 1 .. n - 1 : i < j => place(i) < place(j)  BY <1>1, <1>2
  <2> QED  BY <2>1, <2>2, <2>3
<1> HIDE DEF place
\* The scores that are left are of boxes other than the hero.
<1>7. hero >= 0 => \A j \in 1 .. n : j # b => s.order[j].oriOrder # hero
  <2> SUFFICES ASSUME hero >= 0, NEW j \in 1 .. n, j # b, s.order[j].oriOrder = hero PROVE FALSE
    OBVIOUS
  <2>1. j < b \/ b < j  BY <1>1, <1>2
  <2>2. hero = s.order[b].oriOrder  BY DEF hero
  <2>3. hero < hero  BY <1>2, <2>1, <2>2 DEF Looping, ScoresLeft, n
  <2> QED  BY <1>3, <2>3
<1>8. ScoresLeft(t, boxes)
  <2>1. ASSUME NEW i \in 1 .. n - 1, t.order[i].oriOrder >= 0
        PROVE  /\ t.order[i].oriOrder = s.order[place(i)].oriOrder
               /\ t.order[i].oriOrder \in t.alive
               /\ t.order[i].score = boxes[t.order[i].oriOrder].score
    <3>1. t.order[i].oriOrder = s.order[place(i)].oriOrder
          /\ ~(hero >= 0 /\ s.order[place(i)].oriOrder \in gone)
      BY <1>5, <2>1
    <3>2. /\ s.order[place(i)].oriOrder \in s.alive
          /\ s.order[place(i)].score = boxes[s.order[place(i)].oriOrder].score
      BY <1>6, <2>1, <3>1 DEF Looping, ScoresLeft, n
    <3>3. hero >= 0 => s.order[place(i)].oriOrder # hero  BY <1>6, <1>7
    <3>4. s.order[place(i)].oriOrder \in t.alive  BY <1>3, <1>5, <3>1, <3>2, <3>3
    <3> QED  BY <1>5, <3>1, <3>2, <3>4
  <2>2. ASSUME NEW i \in 1 .. n - 1, NEW j \in 1 .. n - 1, i < j,
               t.order[i].oriOrder >= 0, t.order[j].oriOrder >= 0
        PROVE  t.order[i].oriOrder < t.order[j].oriOrder
    <3>1. /\ t.order[i].oriOrder = s.order[place(i)].oriOrder
          /\ t.order[j].oriOrder = s.order[place(j)].oriOrder
      BY <2>1, <2>2
    <3>2. place(i) < place(j) /\ place(i) \in 1 .. n /\ place(j) \in 1 .. n  BY <1>6, <2>2
    <3> QED  BY <2>2, <3>1, <3>2 DEF Looping, ScoresLeft, n
  <2>3. ASSUME NEW m \in t.alive PROVE \E i \in 1 .. n - 1 : t.order[i].oriOrder = m
    <3>1. m \in s.alive /\ (hero >= 0 => m # hero /\ m \notin gone)
      BY <1>3, <1>5
    <3>2. PICK j \in 1 .. n : s.order[j].oriOrder = m
      BY <3>1 DEF Looping, ScoresLeft, n
    <3>3. m >= 0  BY <1>1, <3>1
    <3>4. j # b  BY <3>1, <3>2, <3>3 DEF hero
    <3>5. PICK i \in 1 .. n - 1 : place(i) = j  BY <1>6, <3>4
    <3>6. t.order[i].oriOrder = m  BY <1>5, <3>1, <3>2, <3>5
    <3> QED  BY <3>6
  <2> QED  BY <1>5, <2>1, <2>2, <2>3 DEF ScoresLeft
<1>9. HerosBest(t, boxes, threshold, model)
  <2>1. CASE hero < 0
    BY <1>5, <2>1 DEF HerosBest, Looping
  <2>2. CASE hero >= 0
    <3>1. /\ t.alive = s.alive \ (gone \cup {hero}) /\ t.heros = s.heros \cup {hero}
          /\ hero \in s.alive /\ hero \in DOMAIN boxes
      BY <1>3, <1>4, <1>5, <2>2
    <3>2. HerosBest(s, boxes, threshold, model)  BY DEF Looping
    <3>3. ASSUME NEW m \in s.alive, m # hero PROVE Better(boxes, hero, m)
      <4>1. PICK j \in 1 .. n : s.order[j].oriOrder = m
        BY DEF Looping, ScoresLeft, n
      <4>2. m \in DOMAIN boxes /\ m >= 0  BY <1>1
      <4>3. j # b /\ s.order[b].oriOrder = hero  BY <3>3, <4>1 DEF hero
      <4>4. s.order[j].score = boxes[m].score /\ s.order[b].score = boxes[hero].score
        BY <1>2, <2>2, <4>1, <4>2, <4>3 DEF Looping, ScoresLeft, n
      <4>5. CASE s.order[j].score < s.order[b].score
        <5>1. boxes[m].score < boxes[hero].score  BY <4>4, <4>5
        <5>2. boxes[m] \in Box(p) /\ boxes[hero] \in Box(p)  BY <3>1, <4>2
        <5>3. boxes[m].score \in 0 .. 10 /\ boxes[hero].score \in 0 .. 10  BY <5>2 DEF Box
        <5>4. \A x, y \in 0 .. 10 : x < y => y > x  OBVIOUS
        <5>5. boxes[hero].score > boxes[m].score  BY <5>1, <5>3, <5>4, Zenon
        <5> QED  BY <5>5 DEF Better
      <4>6. CASE s.order[j].score = s.order[b].score /\ j <= b
        <5>1. j < b  BY <1>1, <1>2, <4>3, <4>6
        <5>2. m < hero  BY <1>2, <2>2, <4>1, <4>2, <4>3, <5>1 DEF Looping, ScoresLeft, n
        <5>3. m \in Int /\ hero \in Int  BY <1>3, <4>2
        <5>4. hero > m  BY <5>2, <5>3
        <5> QED  BY <4>4, <4>6, <5>4 DEF Better
      <4> QED  BY <1>2, <4>5, <4>6
    <3>4. ASSUME NEW h \in t.heros, NEW m \in t.alive
          PROVE  m # h /\ Better(boxes, h, m) /\ ~Overlapping(boxes[m], boxes[h], threshold, model)
      <4>1. CASE h \in s.heros
        BY <3>1, <3>2, <4>1 DEF HerosBest
      <4>2. CASE h = hero
        <5>1. m \in s.alive /\ m # hero /\ m \notin gone  BY <3>1
        <5>2. ~Overlapping(boxes[m], boxes[hero], threshold, model)  BY <5>1 DEF Gone
        <5> QED  BY <3>3, <4>2, <5>1, <5>2
      <4> QED  BY <3>1, <4>1, <4>2
    <3>5. ASSUME NEW g \in t.heros, NEW h \in t.heros, Better(boxes, h, g)
          PROVE  ~Overlapping(boxes[g], boxes[h], threshold, model)
      <4>1. CASE g \in s.heros /\ h \in s.heros
        BY <3>2, <3>5, <4>1 DEF HerosBest
      <4>2. CASE h \in s.heros /\ g = hero
        BY <3>1, <3>2, <4>2 DEF HerosBest
      <4>3. CASE h = hero /\ g \in s.heros
        <5>1. Better(boxes, g, h)  BY <3>1, <3>2, <4>3 DEF HerosBest
        <5>2. g \in DOMAIN boxes /\ h \in DOMAIN boxes  BY <1>1, <3>1, <4>3
        <5> QED  BY <3>5, <5>1, <5>2, BetterFacts
      <4>4. CASE h = hero /\ g = hero
        BY <3>1, <3>5, <4>4, BetterFacts
      <4> QED  BY <3>1, <4>1, <4>2, <4>3, <4>4
    <3>6. ASSUME NEW m \in DOMAIN boxes \ (t.alive \cup t.heros)
          PROVE  \E h \in t.heros : Better(boxes, h, m)
                                    /\ Overlapping(boxes[m], boxes[h], threshold, model)
      <4>1. CASE m \in s.alive
        <5>1. m # hero /\ m \in gone  BY <3>1, <4>1
        <5>2. Overlapping(boxes[m], boxes[hero], threshold, model)  BY <5>1 DEF Gone
        <5> QED  BY <3>1, <3>3, <4>1, <5>1, <5>2
      <4>2. CASE m \notin s.alive
        BY <3>1, <3>2, <4>2 DEF HerosBest
      <4> QED  BY <4>1, <4>2
    <3> QED  BY <3>4, <3>5, <3>6 DEF HerosBest
  <2> QED  BY <1>3, <2>1, <2>2
<1> QED  BY <1>5, <1>8, <1>9 DEF Looping, t, n

\* The boxes are all alive and their scores in order: nms keeps the best.
LEMMA NmsBest ==
  ASSUME NEW p \in Nat, NEW boxes \in Seq(Live(p)), NEW order, order = Orders(boxes),
         NEW threshold, NEW model
  PROVE  BestOnly(nms(boxes, order, threshold, model), threshold, model)
<1> DEFINE n == Len(boxes)
           a == [alive |-> LiveSet(boxes), order |-> order, heros |-> {}]
           S == [k \in 0 .. n |-> {s \in State(boxes) :
                   Looping(s, boxes, threshold, model) /\ Len(s.order) = n - k}]
           end == Turns(boxes, order, threshold, model)
           kept == nms(boxes, order, threshold, model)
<1>1. n \in Nat /\ DOMAIN boxes = 1 .. n /\ boxes \in Seq(Box(p))
      /\ \A i \in 1 .. n : boxes[i] \in Box(p) /\ boxes[i].exist
  <2>1. n \in Nat /\ DOMAIN boxes = 1 .. n /\ \A i \in 1 .. n : boxes[i] \in Live(p)
    OBVIOUS
  <2>2. boxes \in Seq(Box(p))
    <3>1. Live(p) \subseteq Box(p)  BY DEF Live
    <3> QED  BY <3>1
  <2> QED  BY <2>1, <2>2 DEF Live
<1>2. order \in Seq(Entry) /\ Len(order) = n
      /\ \A i \in 1 .. n : order[i].oriOrder = i /\ order[i].score = boxes[i].score
  <2> DEFINE e(i) == [score |-> boxes[i].score, oriOrder |-> i]
  <2>1. \A i \in 1 .. n : e(i) \in Entry  BY <1>1 DEF Entry, Box
  <2>2. order = [i \in 1 .. n |-> e(i)]  BY <1>1 DEF Orders
  <2>3. \A i \in 1 .. n : e(i).oriOrder = i /\ e(i).score = boxes[i].score  OBVIOUS
  <2> HIDE DEF e, n
  <2>4. order \in [1 .. n -> Entry]  BY <2>1, <2>2
  <2> QED  BY <1>1, <2>2, <2>3, <2>4, ListType
<1>3. LiveSet(boxes) = DOMAIN boxes  BY <1>1 DEF LiveSet
<1>4. a \in S[0]
  <2>1. a \in State(boxes)  BY <1>2, <1>3 DEF State
  <2>2. a.order = order /\ a.alive = DOMAIN boxes /\ a.heros = {}  BY <1>3
  <2> HIDE DEF a, n
  <2>3. ScoresLeft(a, boxes)  BY <1>1, <1>2, <2>2 DEF ScoresLeft
  <2>4. HerosBest(a, boxes, threshold, model)  BY <2>2 DEF HerosBest
  <2> QED  BY <1>1, <1>2, <2>1, <2>2, <2>3, <2>4 DEF Looping
<1>5. ASSUME NEW k \in 1 .. n, NEW s \in S[k - 1]
      PROVE  Turn(s, boxes, threshold, model) \in S[k]
  <2>1. s \in State(boxes) /\ Looping(s, boxes, threshold, model) /\ Len(s.order) = n - (k - 1)
    <3> HIDE DEF n
    <3>1. k - 1 \in 0 .. n  BY <1>1
    <3> QED  BY <3>1
  <2> HIDE DEF n, S
  <2>2. /\ Looping(Turn(s, boxes, threshold, model), boxes, threshold, model)
        /\ Len(Turn(s, boxes, threshold, model).order) = Len(s.order) - 1
    <3>1. Len(s.order) > 0  BY <1>1, <2>1
    <3> QED  BY <1>1, <2>1, <3>1, LoopingKept
  <2>3. Turn(s, boxes, threshold, model) \in State(boxes)  BY <2>2 DEF Looping
  <2>4. Len(Turn(s, boxes, threshold, model).order) = n - k  BY <1>1, <2>1, <2>2
  <2> QED  BY <2>2, <2>3, <2>4 DEF S
<1>6. end \in S[n]
  <2> HIDE DEF S, n
  <2> QED  BY <1>1, <1>2, <1>4, <1>5, TurnsIterate DEF a
<1>7. Looping(end, boxes, threshold, model) /\ Len(end.order) = 0
  <2> HIDE DEF end, n
  <2> QED  BY <1>1, <1>6
<1> HIDE DEF end, S, a
<1>8. /\ end.alive = {} /\ end.heros \subseteq DOMAIN boxes
      /\ \A g, h \in end.heros :
           Better(boxes, h, g) => ~Overlapping(boxes[g], boxes[h], threshold, model)
      /\ \A i \in DOMAIN boxes : i \notin end.heros => \E h \in end.heros :
           Better(boxes, h, i) /\ Overlapping(boxes[i], boxes[h], threshold, model)
  <2>1. end.alive = {}  BY <1>7 DEF Looping, ScoresLeft
  <2> QED  BY <1>7, <2>1 DEF Looping, HerosBest, State
<1>9. /\ DOMAIN kept = DOMAIN boxes
      /\ \A i \in DOMAIN boxes : kept[i] = [boxes[i] EXCEPT !.exist = i \in end.alive \cup end.heros]
  BY DEF nms, Sifted, end
<1> HIDE DEF kept
<1>10. ASSUME NEW i \in DOMAIN boxes
       PROVE  /\ kept[i].score = boxes[i].score /\ (kept[i].exist <=> i \in end.heros)
              /\ kept[i].x1 = boxes[i].x1 /\ kept[i].x2 = boxes[i].x2
              /\ kept[i].y1 = boxes[i].y1 /\ kept[i].y2 = boxes[i].y2
              /\ kept[i].area = boxes[i].area
  <2>1. boxes[i] \in Box(p)  BY <1>1
  <2>2. kept[i] = [boxes[i] EXCEPT !.exist = i \in end.heros]  BY <1>8, <1>9
  <2> QED  BY <2>1, <2>2 DEF Box
<1>11. LiveSet(kept) = end.heros  BY <1>8, <1>9, <1>10 DEF LiveSet
<1>12. \A i, j \in DOMAIN boxes :
         /\ Better(kept, j, i) <=> Better(boxes, j, i)
         /\ Overlapping(kept[i], kept[j], threshold, model)
              <=> Overlapping(boxes[i], boxes[j], threshold, model)
  BY <1>10 DEF Better, Overlapping, Shared
<1> DEFINE beaten(i) == \E j \in LiveSet(kept) :
                          Better(kept, j, i) /\ Overlapping(kept[i], kept[j], threshold, model)
<1>13. ASSUME NEW i \in DOMAIN boxes PROVE kept[i].exist <=> ~beaten(i)
  <2>1. beaten(i) <=> \E h \in end.heros :
          Better(boxes, h, i) /\ Overlapping(boxes[i], boxes[h], threshold, model)
    BY <1>8, <1>11, <1>12
  <2>2. kept[i].exist <=> i \in end.heros  BY <1>10
  <2> HIDE DEF beaten
  <2>3. CASE i \in end.heros  BY <1>8, <2>1, <2>2, <2>3
  <2>4. CASE i \notin end.heros
    <3>1. \E h \in end.heros :
            Better(boxes, h, i) /\ Overlapping(boxes[i], boxes[h], threshold, model)
      BY <1>8, <2>4
    <3> HIDE DEF beaten
    <3> QED  BY <2>1, <2>2, <2>4, <3>1
  <2> QED  BY <2>3, <2>4
<1> QED  BY <1>9, <1>13 DEF BestOnly, kept

(***************************************************************************)
(* The lists of a picture.  What is left in them when it ends is dead, and *)
(* a picture that found them empty has only its own boxes in them.         *)
(***************************************************************************)
Lists(p) ==
  /\ firstBbox_ \in Seq(Box(p)) /\ secondBbox_ \in Seq(Box(p))
  /\ detections \in Seq(Box(p)) /\ sifted \in Seq(Box(p))

Leftovers ==
  /\ firstOrderScore_ = <<>> /\ secondBboxScore_ = <<>> /\ thirdBboxScore_ = <<>>
  /\ thirdBbox_ = <<>>
  /\ stage # "onet" => LiveSet(secondBbox_) = {}
  /\ clean /\ stage = "rnet" => secondBbox_ = <<>>

TypeInv ==
  /\ stage \in {"idle", "rnet", "onet"} /\ picture \in 0 .. MaxPictures /\ clean \in BOOLEAN
  /\ Lists(picture) /\ Leftovers
  /\ DetectionsOfPicture

BestInv == SiftedBest /\ DetectionsBest

CInv == TypeInv /\ BestInv

LEMMA NothingBefore ==
  ASSUME NEW S, NEW s \in Seq(S)
  PROVE  <<>> \o s = s
OBVIOUS

LEMMA OrdersType ==
  ASSUME NEW p, NEW boxes \in Seq(Box(p))
  PROVE  Orders(boxes) \in Seq(Entry)
<1> DEFINE n == Len(boxes)
           e(i) == [score |-> boxes[i].score, oriOrder |-> i]
<1>1. n \in Nat /\ DOMAIN boxes = 1 .. n /\ \A i \in 1 .. n : boxes[i] \in Box(p)
  OBVIOUS
<1>2. \A i \in 1 .. n : e(i) \in Entry  BY <1>1 DEF Entry, Box
<1>3. Orders(boxes) = [i \in 1 .. n |-> e(i)]  BY <1>1 DEF Orders
<1> HIDE DEF e, n
<1>4. Orders(boxes) \in [1 .. n -> Entry]  BY <1>2, <1>3
<1> QED  BY <1>1, <1>4, ListType

\* Moving boxes that exist changes neither that nor their order.
LEMMA RefinedLive ==
  ASSUME NEW p, NEW boxes \in Seq(Live(p)), NEW f, f = refineAndSquareBbox(boxes)
  PROVE  f \in Seq(Live(p)) /\ Orders(f) = Orders(boxes)
         /\ Len(f) = Len(boxes) /\ \A i \in 1 .. Len(f) : f[i].passed = boxes[i].passed
<1>1. /\ Len(boxes) \in Nat /\ DOMAIN boxes = 1 .. Len(boxes) /\ boxes \in Seq(Box(p))
      /\ \A i \in 1 .. Len(boxes) : boxes[i] \in Live(p)
  <2>1. Live(p) \subseteq Box(p)  BY DEF Live
  <2> QED  BY <2>1
<1>2. /\ f \in Seq(Box(p)) /\ Len(f) = Len(boxes) /\ LiveSet(f) = LiveSet(boxes)
      /\ \A i \in DOMAIN boxes : f[i].score = boxes[i].score /\ f[i].passed = boxes[i].passed
  BY <1>1, RefinedListType
<1>3. DOMAIN f = 1 .. Len(boxes) /\ \A i \in 1 .. Len(boxes) : f[i] \in Box(p)
  BY <1>1, <1>2
<1>4. \A i \in 1 .. Len(boxes) : f[i] \in Live(p)
  <2>1. LiveSet(boxes) = 1 .. Len(boxes)  BY <1>1 DEF LiveSet, Live
  <2> QED  BY <1>2, <1>3, <2>1 DEF LiveSet, Live
<1>5. f \in Seq(Live(p))
  <2>1. f = [i \in 1 .. Len(boxes) |-> f[i]]  BY <1>2, <1>3
  <2>2. f \in [1 .. Len(boxes) -> Live(p)]  BY <1>4, <2>1
  <2> QED  BY <1>1, <2>2, ListType
<1>6. Orders(f) = Orders(boxes)  BY <1>1, <1>2, <1>3 DEF Orders
<1> QED  BY <1>1, <1>2, <1>3, <1>5, <1>6

LEMMA NoBoxes == LiveSet(<<>>) = {}
BY DEF LiveSet

LEMMA InitCInv == Init => CInv
<1> SUFFICES ASSUME Init PROVE CInv  OBVIOUS
<1>1. MaxPictures \in Nat  BY CascadeAssumption
<1>2. Lists(picture)
  <2>1. \A p : <<>> \in Seq(Box(p))  OBVIOUS
  <2> QED  BY <2>1 DEF Lists, Init
<1>3. Leftovers  BY NoBoxes DEF Leftovers, Init
<1>4. DetectionsOfPicture  BY DEF DetectionsOfPicture, Init
<1>5. BestInv  BY DEF BestInv, SiftedBest, DetectionsBest, BestOnly, Init
<1> QED  BY <1>1, <1>2, <1>3, <1>4, <1>5 DEF CInv, TypeInv, Init

LEMMA PnetStep ==
  ASSUME CInv, Pnet
  PROVE  CInv'
<1> DEFINE p == picture'
<1>1. picture \in Nat /\ p \in 0 .. MaxPictures /\ p \in Nat /\ picture <= p
      /\ stage = "idle" /\ detections' = <<>>
  BY CascadeAssumption DEF CInv, TypeInv, Pnet
<1>2. clean' \in BOOLEAN /\ (clean' => firstBbox_ = <<>> /\ secondBbox_ = <<>>)
  BY DEF Pnet
<1>3. PICK maps \in Maps :
       LET proposed == Proposals(maps)
           boxes    == firstBbox_ \o proposed
           order    == firstOrderScore_ \o Orders(proposed)
           kept     == nms(boxes, order, nms_threshold[1], "Union")
       IN  IF proposed = <<>>
             THEN UNCHANGED <<stage, lists, sifted>>
             ELSE /\ stage' = "rnet" /\ sifted' = kept
                  /\ firstBbox_' = refineAndSquareBbox(kept) /\ firstOrderScore_' = <<>>
                  /\ UNCHANGED <<secondBbox_, secondBboxScore_, thirdBbox_, thirdBboxScore_>>
  BY DEF Pnet
<1> DEFINE proposed == Proposals(maps)
           boxes == firstBbox_ \o proposed
           order == firstOrderScore_ \o Orders(proposed)
           kept == nms(boxes, order, nms_threshold[1], "Union")
<1>4. proposed \in Seq(Live(0)) /\ proposed \in Seq(Box(p))
  <2>1. Seq(Live(0)) \subseteq Seq(Box(p))  BY <1>1, MoreBoxes
  <2> QED  BY <2>1, ProposalsType
<1> HIDE DEF proposed
<1>5. /\ firstBbox_ \in Seq(Box(p)) /\ secondBbox_ \in Seq(Box(p)) /\ sifted \in Seq(Box(p))
      /\ <<>> \in Seq(Box(p))
  <2>1. Seq(Box(picture)) \subseteq Seq(Box(p))  BY <1>1, MoreBoxes
  <2> QED  BY <2>1 DEF CInv, TypeInv, Lists
<1>6. DetectionsOfPicture' /\ DetectionsBest'
  BY <1>1 DEF DetectionsOfPicture, DetectionsBest, BestOnly
<1>7. CASE proposed = <<>>
  <2>1. UNCHANGED <<stage, lists, sifted>>  BY <1>3, <1>7 DEF proposed
  <2>2. Lists(picture)'  BY <1>1, <1>5, <2>1 DEF Lists, lists
  <2>3. Leftovers'  BY <1>1, <2>1 DEF CInv, TypeInv, Leftovers, lists
  <2>4. SiftedBest'  BY <1>1, <2>1 DEF SiftedBest
  <2> QED  BY <1>1, <1>2, <1>6, <2>1, <2>2, <2>3, <2>4 DEF CInv, TypeInv, BestInv
<1>8. CASE proposed # <<>>
  <2>1. /\ stage' = "rnet" /\ sifted' = kept
        /\ firstBbox_' = refineAndSquareBbox(kept) /\ firstOrderScore_' = <<>>
        /\ UNCHANGED <<secondBbox_, secondBboxScore_, thirdBbox_, thirdBboxScore_>>
    BY <1>3, <1>8 DEF proposed
  <2>2. kept \in Seq(Box(p))
    <3>1. boxes \in Seq(Box(p))  BY <1>4, <1>5
    <3> HIDE DEF boxes, order
    <3> QED  BY <1>1, <3>1, SiftedType
  <2>3. Lists(picture)'
    <3> HIDE DEF kept
    <3>1. refineAndSquareBbox(kept) \in Seq(Box(p))  BY <2>2, RefinedListType
    <3> QED  BY <1>1, <1>5, <2>1, <2>2, <3>1 DEF Lists
  <2>4. Leftovers'  BY <1>1, <1>2, <2>1 DEF CInv, TypeInv, Leftovers
  <2>5. ASSUME clean' PROVE BestOnly(kept, nms_threshold[1], "Union")
    <3>1. firstBbox_ = <<>> /\ firstOrderScore_ = <<>>
      BY <1>2, <2>5 DEF CInv, TypeInv, Leftovers
    <3>2. boxes = proposed /\ order = Orders(proposed)
      BY <1>4, <3>1, NothingBefore, OrdersType
    <3> HIDE DEF boxes, order
    <3> QED  BY <1>4, <3>2, NmsBest
  <2>6. SiftedBest'
    <3> HIDE DEF kept
    <3> QED  BY <2>1, <2>5 DEF SiftedBest
  <2> QED  BY <1>1, <1>2, <1>6, <2>1, <2>3, <2>4, <2>6 DEF CInv, TypeInv, BestInv
<1> QED  BY <1>7, <1>8

LEMMA RnetStep ==
  ASSUME CInv, Rnet
  PROVE  CInv'
<1> DEFINE p == picture
<1>1. /\ picture \in 0 .. MaxPictures /\ p \in Nat /\ stage = "rnet"
      /\ UNCHANGED <<picture, firstOrderScore_, thirdBbox_, thirdBboxScore_, detections, clean>>
      /\ Lists(picture) /\ Leftovers /\ clean \in BOOLEAN
  BY CascadeAssumption DEF CInv, TypeInv, Rnet
<1>2. PICK says \in [LiveSet(firstBbox_) -> RnetVerdicts] :
       LET seen     == AfterNet(firstBbox_, says, Rthreshold)
           accepted == Existing(seen)
           boxes    == secondBbox_ \o accepted
           order    == secondBboxScore_ \o Orders(accepted)
           kept     == nms(boxes, order, nms_threshold[2], "Union")
       IN  /\ firstBbox_' = seen
           /\ IF accepted = <<>>
                THEN stage' = "idle" /\ UNCHANGED <<secondBbox_, secondBboxScore_, sifted>>
                ELSE /\ stage' = "onet" /\ sifted' = kept
                     /\ secondBbox_' = refineAndSquareBbox(kept) /\ secondBboxScore_' = <<>>
  BY DEF Rnet
<1> DEFINE seen == AfterNet(firstBbox_, says, Rthreshold)
           accepted == Existing(seen)
           boxes == secondBbox_ \o accepted
           order == secondBboxScore_ \o Orders(accepted)
           kept == nms(boxes, order, nms_threshold[2], "Union")
<1>3. seen \in Seq(Box(p))
  BY <1>1, CascadeAssumption, AfterNetType DEF Lists
<1>4. accepted \in Seq(Live(p)) /\ accepted \in Seq(Box(p))
  <2> HIDE DEF seen
  <2>1. accepted \in Seq(Live(p))  BY <1>3, ExistingFacts DEF Live
  <2>2. Seq(Live(p)) \subseteq Seq(Box(p))  BY <1>1, MoreBoxes
  <2> QED  BY <2>1, <2>2
<1>5. firstBbox_' = seen  BY <1>2
<1>6. DetectionsOfPicture' /\ DetectionsBest'
  BY <1>1 DEF CInv, TypeInv, BestInv, DetectionsOfPicture, DetectionsBest
<1>7. CASE accepted = <<>>
  <2>1. stage' = "idle" /\ UNCHANGED <<secondBbox_, secondBboxScore_, sifted>>
    BY <1>2, <1>7
  <2> HIDE DEF seen, accepted
  <2>2. Lists(picture)'  BY <1>1, <1>3, <1>5, <2>1 DEF Lists
  <2>3. Leftovers'  BY <1>1, <2>1 DEF Leftovers
  <2>4. SiftedBest'  BY <2>1 DEF SiftedBest
  <2> QED  BY <1>1, <1>6, <2>1, <2>2, <2>3, <2>4 DEF CInv, TypeInv, BestInv
<1>8. CASE accepted # <<>>
  <2>1. /\ stage' = "onet" /\ sifted' = kept
        /\ secondBbox_' = refineAndSquareBbox(kept) /\ secondBboxScore_' = <<>>
    BY <1>2, <1>8
  <2> HIDE DEF seen, accepted
  <2>2. kept \in Seq(Box(p))
    <3>1. boxes \in Seq(Box(p))  BY <1>1, <1>4 DEF Lists
    <3> HIDE DEF boxes, order
    <3> QED  BY <1>1, <3>1, SiftedType
  <2>3. Lists(picture)'
    <3> HIDE DEF kept
    <3>1. refineAndSquareBbox(kept) \in Seq(Box(p))  BY <2>2, RefinedListType
    <3> QED  BY <1>1, <1>3, <1>5, <2>1, <2>2, <3>1 DEF Lists
  <2>4. Leftovers'  BY <1>1, <2>1 DEF Leftovers
  <2>5. ASSUME clean PROVE BestOnly(kept, nms_threshold[2], "Union")
    <3>1. secondBbox_ = <<>> /\ secondBboxScore_ = <<>>
      BY <1>1, <2>5 DEF Leftovers
    <3>2. boxes = accepted /\ order = Orders(accepted)
      BY <1>4, <3>1, NothingBefore, OrdersType
    <3> HIDE DEF boxes, order
    <3> QED  BY <1>1, <1>4, <3>2, NmsBest
  <2>6. SiftedBest'
    <3> HIDE DEF kept
    <3> QED  BY <1>1, <2>1, <2>5 DEF SiftedBest
  <2> QED  BY <1>1, <1>6, <2>1, <2>3, <2>4, <2>6 DEF CInv, TypeInv, BestInv
<1> QED  BY <1>7, <1>8

LEMMA OnetStep ==
  ASSUME CInv, Onet
  PROVE  CInv'
<1> DEFINE p == picture
<1>1. /\ picture \in 0 .. MaxPictures /\ p \in Nat /\ stage' = "idle"
      /\ UNCHANGED <<picture, clean>> /\ clean \in BOOLEAN
      /\ Lists(picture) /\ Leftovers
  BY CascadeAssumption DEF CInv, TypeInv, Onet
<1>2. PICK says \in [LiveSet(secondBbox_) -> OnetVerdicts] :
       LET seen     == AfterNet(secondBbox_, says, Othreshold)
           accepted == [i \in DOMAIN Existing(seen) |->
                          [Existing(seen)[i] EXCEPT !.passed = picture]]
           boxes    == thirdBbox_ \o accepted
           order    == thirdBboxScore_ \o Orders(accepted)
           kept     == nms(refineAndSquareBbox(boxes), order, nms_threshold[3], "Min")
       IN  IF accepted = <<>>
             THEN /\ secondBbox_' = seen
                  /\ UNCHANGED <<firstBbox_, firstOrderScore_, secondBboxScore_,
                                 thirdBbox_, thirdBboxScore_, detections, sifted>>
             ELSE /\ detections' = kept /\ sifted' = boxes
                  /\ firstBbox_' = <<>> /\ firstOrderScore_' = <<>>
                  /\ secondBbox_' = <<>> /\ secondBboxScore_' = <<>>
                  /\ thirdBbox_' = Cleared(kept) /\ thirdBboxScore_' = <<>>
  BY DEF Onet
<1> DEFINE seen == AfterNet(secondBbox_, says, Othreshold)
           found == Existing(seen)
           accepted == [i \in DOMAIN found |-> [found[i] EXCEPT !.passed = picture]]
           boxes == thirdBbox_ \o accepted
           order == thirdBboxScore_ \o Orders(accepted)
           kept == nms(refineAndSquareBbox(boxes), order, nms_threshold[3], "Min")
<1>3. seen \in Seq(Box(p))
  BY <1>1, CascadeAssumption, AfterNetType DEF Lists
<1>4. found \in Seq(Live(p)) /\ (found = <<>> => LiveSet(seen) = {})
  <2> HIDE DEF seen
  <2> QED  BY <1>3, ExistingFacts DEF Live
<1>5. /\ accepted \in Seq(Live(p)) /\ Len(accepted) = Len(found)
      /\ \A i \in DOMAIN accepted : accepted[i].passed = p
  <2>1. accepted = Stamped(found, p)  BY DEF Stamped
  <2> HIDE DEF found, accepted
  <2> QED  BY <1>1, <1>4, <2>1, AcceptedType
<1>6. SiftedBest'  BY <1>1 DEF SiftedBest
<1>7. CASE accepted = <<>>
  <2>1. /\ secondBbox_' = seen
        /\ UNCHANGED <<firstBbox_, firstOrderScore_, secondBboxScore_,
                       thirdBbox_, thirdBboxScore_, detections, sifted>>
    BY <1>2, <1>7
  <2>2. LiveSet(seen) = {}
    <3> HIDE DEF seen, found, accepted
    <3>1. found = <<>>  BY <1>4, <1>5, <1>7
    <3> QED  BY <1>4, <3>1
  <2> HIDE DEF seen, found, accepted
  <2>3. Lists(picture)'  BY <1>1, <1>3, <2>1 DEF Lists
  <2>4. Leftovers'  BY <1>1, <2>1, <2>2 DEF Leftovers
  <2>5. DetectionsOfPicture' /\ DetectionsBest'
    BY <1>1, <2>1 DEF CInv, TypeInv, BestInv, DetectionsOfPicture, DetectionsBest
  <2> QED  BY <1>1, <1>6, <2>3, <2>4, <2>5 DEF CInv, TypeInv, BestInv
<1>8. CASE accepted # <<>>
  <2>1. /\ detections' = kept /\ sifted' = boxes
        /\ firstBbox_' = <<>> /\ firstOrderScore_' = <<>>
        /\ secondBbox_' = <<>> /\ secondBboxScore_' = <<>>
        /\ thirdBbox_' = <<>> /\ thirdBboxScore_' = <<>>
    BY <1>2, <1>8 DEF Cleared, Emptied
  <2> HIDE DEF seen, found, accepted
  <2> DEFINE moved == refineAndSquareBbox(accepted)
  <2>2. boxes = accepted /\ order = Orders(accepted)
    <3>1. thirdBbox_ = <<>> /\ thirdBboxScore_ = <<>>  BY <1>1 DEF Leftovers
    <3>2. Seq(Live(p)) \subseteq Seq(Box(p))  BY <1>1, MoreBoxes
    <3> QED  BY <1>5, <3>1, <3>2, NothingBefore, OrdersType
  <2>3. /\ moved \in Seq(Live(p)) /\ Orders(moved) = Orders(accepted)
        /\ Len(moved) = Len(accepted)
        /\ \A i \in 1 .. Len(moved) : moved[i].passed = accepted[i].passed
    BY <1>5, RefinedLive
  <2>4. kept = nms(moved, order, nms_threshold[3], "Min")  BY <2>2
  <2> HIDE DEF boxes, order, moved, kept
  <2>5. moved \in Seq(Box(p))
    <3>1. Seq(Live(p)) \subseteq Seq(Box(p))  BY <1>1, MoreBoxes
    <3> QED  BY <2>3, <3>1
  <2>6. kept \in Seq(Box(p)) /\ Len(kept) = Len(moved)  BY <1>1, <2>4, <2>5, SiftedType
  <2>7. BestOnly(kept, nms_threshold[3], "Min")
    BY <1>1, <2>2, <2>3, <2>4, NmsBest
  <2>8. ASSUME NEW i \in DOMAIN kept PROVE kept[i].passed = p
    <3>1. i \in DOMAIN moved /\ i \in DOMAIN accepted /\ i \in 1 .. Len(moved)
      BY <1>5, <2>3, <2>5, <2>6
    <3>2. kept[i].passed = moved[i].passed  BY <2>4, <2>5, <3>1, SiftedKeeps
    <3> QED  BY <1>5, <2>3, <3>1, <3>2
  <2>9. Lists(picture)'
    <3>1. <<>> \in Seq(Box(p))  OBVIOUS
    <3>2. boxes \in Seq(Box(p))  BY <1>1, <1>5, <2>2, MoreBoxes
    <3> QED  BY <1>1, <2>1, <2>6, <3>1, <3>2 DEF Lists
  <2>10. Leftovers'  BY <1>1, <2>1, NoBoxes DEF Leftovers
  <2>11. DetectionsOfPicture' /\ DetectionsBest'
    BY <1>1, <2>1, <2>7, <2>8 DEF DetectionsOfPicture, DetectionsBest
  <2> QED  BY <1>1, <1>6, <2>9, <2>10, <2>11 DEF CInv, TypeInv, BestInv
<1> QED  BY <1>7, <1>8

THEOREM Inductive == Spec => []CInv
<1>1. Init => CInv  BY InitCInv
<1>2. CInv /\ [Next]_vars => CInv'
  <2> SUFFICES ASSUME CInv, [Next]_vars PROVE CInv'  OBVIOUS
  <2>1. CASE Pnet  BY <2>1, PnetStep
  <2>2. CASE Rnet  BY <2>2, RnetStep
  <2>3. CASE Onet  BY <2>3, OnetStep
  <2>4. CASE UNCHANGED vars
    BY <2>4 DEF vars, lists, CInv, TypeInv, Lists, Leftovers, DetectionsOfPicture, BestInv,
                SiftedBest, DetectionsBest
  <2> QED  BY <2>1, <2>2, <2>3, <2>4 DEF Next
<1> QED  BY <1>1, <1>2, PTL DEF Spec

LEMMA BoxIsBox ==
  ASSUME NEW boxes \in Seq(Box(picture)), NEW n \in DOMAIN boxes
  PROVE  IsBox(boxes[n])
<1>1. boxes[n] \in Box(picture)  OBVIOUS
<1>2. ASSUME NEW b \in Box(picture) PROVE IsBox(b)  BY DEF IsBox, Box, Reg
<1> QED  BY <1>1, <1>2

\* The types of the lists, and no list of scores points past its boxes: in
\* every reachable state of mtcnn::findFace, for any nets.
THEOREM TypeCorrect == Spec => []TypeOK
<1>1. CInv => TypeOK
  <2> SUFFICES ASSUME CInv PROVE TypeOK  OBVIOUS
  <2>1. /\ firstBbox_ \in Seq(Box(picture)) /\ secondBbox_ \in Seq(Box(picture))
        /\ thirdBbox_ \in Seq(Box(picture)) /\ detections \in Seq(Box(picture))
        /\ sifted \in Seq(Box(picture))
    BY DEF CInv, TypeInv, Lists, Leftovers
  <2>2. \A boxes \in {firstBbox_, secondBbox_, thirdBbox_, detections, sifted} :
          \A n \in DOMAIN boxes : IsBox(boxes[n])
    <3> TAKE boxes \in {firstBbox_, secondBbox_, thirdBbox_, detections, sifted}
    <3> TAKE n \in DOMAIN boxes
    <3>1. boxes \in Seq(Box(picture))  BY <2>1
    <3> QED  BY <3>1, BoxIsBox
  <2>3. /\ IsOrder(firstOrderScore_, firstBbox_) /\ IsOrder(secondBboxScore_, secondBbox_)
        /\ IsOrder(thirdBboxScore_, thirdBbox_)
    BY DEF CInv, TypeInv, Leftovers, IsOrder
  <2> QED  BY <2>2, <2>3 DEF CInv, TypeInv, TypeOK
<1> QED  BY <1>1, Inductive, PTL

\* Whatever a picture leaves behind in the lists, it leaves no score and no box
\* that exists in R-net's list (mtcnn.cpp:248).
THEOREM NothingLiveIsLeft == Spec => []LeftoversDead
<1>1. CInv => LeftoversDead  BY DEF CInv, TypeInv, Leftovers, LeftoversDead
<1> QED  BY <1>1, Inductive, PTL

\* What is handed on was accepted by O-net in the picture it is handed on for.
THEOREM FacesOfThePicture == Spec => []DetectionsOfPicture
<1>1. CInv => DetectionsOfPicture  BY DEF CInv, TypeInv
<1> QED  BY <1>1, Inductive, PTL

\* A face handed on is the best of those it overlaps, and one that was dropped
\* is overlapped by a better one that was not: for any number of boxes, with
\* whatever scores, a tie going to the later (nms with "Min", mtcnn.cpp:250).
THEOREM FacesAreBest == Spec => []DetectionsBest
<1>1. CInv => DetectionsBest  BY DEF CInv, BestInv
<1> QED  BY <1>1, Inductive, PTL

\* The same of P-net's and R-net's boxes, in a picture that found their lists
\* empty (nms with "Union", mtcnn.cpp:136, :190).
THEOREM BoxesAreBest == Spec => []SiftedBest
<1>1. CInv => SiftedBest  BY DEF CInv, BestInv
<1> QED  BY <1>1, Inductive, PTL

(***************************************************************************)
(* What is cropped                                                         *)
(***************************************************************************)
\* The box after the boundary check lies between 0 and size, if it is not
\* inside out.
Cut(x, size) == IF x > size THEN size - 1 ELSE x
Clipped(b) == 0 <= b.x1 /\ b.x2 <= Height /\ 0 <= b.y1 /\ b.y2 <= Width

LEMMA RefinedSides ==
  ASSUME NEW p, NEW b \in Box(p)
  PROVE  LET x == Begin(Low(b), High(b), Side(b))
             y == Begin(Left(b), Right(b), Side(b))
         IN  /\ x \in Int /\ y \in Int
             /\ Refined(b).x1 = Larger(round(x), 0)
             /\ Refined(b).x2 = Cut(round(x + Side(b) - 8), Height)
             /\ Refined(b).y1 = Larger(round(y), 0)
             /\ Refined(b).y2 = Cut(round(y + Side(b) - 8), Width)
<1> DEFINE x == Begin(Low(b), High(b), Side(b))
           y == Begin(Left(b), Right(b), Side(b))
           s == Squared(b)
           t == Bounded(s)
<1>1. x \in Int /\ y \in Int  BY SquaredSides DEF Begin
<1>2. s = [b EXCEPT !.x1 = round(x), !.x2 = round(x + Side(b) - 8),
                    !.y1 = round(y), !.y2 = round(y + Side(b) - 8)]
  BY Zenon DEF Squared
<1> HIDE DEF x, y, s
<1>3. /\ s.x1 = round(x) /\ s.x2 = round(x + Side(b) - 8)
      /\ s.y1 = round(y) /\ s.y2 = round(y + Side(b) - 8)
      /\ DOMAIN s = DOMAIN b
  BY <1>2 DEF Box
<1>4. t = [s EXCEPT !.x1 = Larger(s.x1, 0), !.x2 = Cut(s.x2, Height),
                    !.y1 = Larger(s.y1, 0), !.y2 = Cut(s.y2, Width)]
  BY DEF Bounded, Cut
<1>5. Refined(b) = [t EXCEPT !.area = Area(t)]  BY DEF Refined, BoundaryCheck, s
<1> HIDE DEF t
<1>6. /\ t.x1 = Larger(s.x1, 0) /\ t.x2 = Cut(s.x2, Height)
      /\ t.y1 = Larger(s.y1, 0) /\ t.y2 = Cut(s.y2, Width) /\ DOMAIN t = DOMAIN b
  BY <1>3, <1>4 DEF Box
<1>7. /\ Refined(b).x1 = t.x1 /\ Refined(b).x2 = t.x2
      /\ Refined(b).y1 = t.y1 /\ Refined(b).y2 = t.y2
  BY <1>5, <1>6 DEF Box
<1> QED  BY <1>1, <1>3, <1>6, <1>7 DEF x, y

LEMMA RefinedClipped ==
  ASSUME NEW p, NEW b \in Box(p)
  PROVE  Clipped(Refined(b))
<1>1. \A e \in Int : round(e) \in Int  BY DEF round
<1>2. \A e \in Int : 0 <= Larger(e, 0)  BY DEF Larger
<1>3. \A e \in Int : Cut(e, Height) <= Height /\ Cut(e, Width) <= Width
  BY CascadeAssumption DEF Cut
<1>4. PICK x \in Int, y \in Int :
         /\ Refined(b).x1 = Larger(round(x), 0)
         /\ Refined(b).x2 = Cut(round(x + Side(b) - 8), Height)
         /\ Refined(b).y1 = Larger(round(y), 0)
         /\ Refined(b).y2 = Cut(round(y + Side(b) - 8), Width)
  BY RefinedSides
<1>5. x + Side(b) - 8 \in Int /\ y + Side(b) - 8 \in Int  BY SquaredSides
<1> QED  BY <1>1, <1>2, <1>3, <1>4, <1>5 DEF Clipped

Upright(b) == b.x1 < b.x2 /\ b.y1 < b.y2

\* A square of two pixels or more with its centre in the picture leaves
\* something to crop.
LEMMA CentredSide ==
  ASSUME NEW from \in Int, NEW to \in Int, NEW side \in Int, NEW size \in Nat,
         0 <= from + to, from + to < 16 * (size - 1), side >= 16
  PROVE  LET x == Begin(from, to, side)
         IN  Larger(round(x), 0) < Cut(round(x + side - 8), size)
<1> DEFINE x == Begin(from, to, side)
           y == x + side - 8
<1>1. x \in Int /\ 2 * x >= from + to + 7 - side /\ 2 * x <= from + to + 8 - side
  BY DEF Begin
<1> HIDE DEF x
<1>2. y \in Int /\ y >= 4 /\ x <= 8 * (size - 1) - 5 /\ y >= x + 8
  BY <1>1
<1>3. round(y) \in Int /\ round(y) >= 1 /\ 8 * round(y) <= y + 4 /\ y + 4 < 8 * round(y) + 8
  BY <1>2 DEF round
<1>4. round(x) \in Int /\ 8 * round(x) <= x + 4
  BY <1>1 DEF round
<1>5. round(x) < round(y)
  BY <1>1, <1>2, <1>3, <1>4
<1>6. round(x) < size - 1 /\ 0 < size - 1
  <2>1. round(x) \in Int /\ size - 1 \in Int /\ 8 * round(x) < 8 * (size - 1)
    BY <1>1, <1>2, <1>4
  <2>2. ASSUME NEW a \in Int, NEW b \in Int, 8 * a < 8 * b PROVE a < b
    BY <2>2
  <2>3. round(x) < size - 1
    BY <2>1, <2>2
  <2> QED  BY <2>3
<1> QED  BY <1>3, <1>4, <1>5, <1>6 DEF Larger, Cut, x, y

LEMMA CentredInside ==
  ASSUME NEW p, NEW b \in Box(p), Centred(b)
  PROVE  Inside(Refined(b))
<1> DEFINE x == Begin(Low(b), High(b), Side(b))
           y == Begin(Left(b), Right(b), Side(b))
<1>1. /\ Low(b) \in Int /\ High(b) \in Int /\ Left(b) \in Int /\ Right(b) \in Int
      /\ Side(b) \in Int /\ Height \in Nat /\ Width \in Nat
  BY SquaredSides, CascadeAssumption
<1>2. Larger(round(x), 0) < Cut(round(x + Side(b) - 8), Height)
  BY <1>1, CentredSide DEF Centred
<1>3. Larger(round(y), 0) < Cut(round(y + Side(b) - 8), Width)
  BY <1>1, CentredSide DEF Centred
<1>4. /\ Refined(b).x1 = Larger(round(x), 0)
      /\ Refined(b).x2 = Cut(round(x + Side(b) - 8), Height)
      /\ Refined(b).y1 = Larger(round(y), 0)
      /\ Refined(b).y2 = Cut(round(y + Side(b) - 8), Width)
  BY RefinedSides
<1>5. Upright(Refined(b))
  <2> HIDE DEF x, y
  <2> QED  BY <1>2, <1>3, <1>4 DEF Upright
<1>6. Clipped(Refined(b))  BY RefinedClipped
<1> QED  BY <1>5, <1>6 DEF Inside, Upright, Clipped

(***************************************************************************)
(* What is cropped is where refineAndSquareBbox put what it was given; the *)
(* faces have been through nms after that, which moves nothing.            *)
(***************************************************************************)
SamePlace(b, c) == b.x1 = c.x1 /\ b.x2 = c.x2 /\ b.y1 = c.y1 /\ b.y2 = c.y2

CropInv ==
  /\ stage # "idle" => detections = <<>>
  /\ \A n \in LiveSet(Crops) :
       n \in DOMAIN sifted /\ SamePlace(Crops[n], Refined(sifted[n]))

LEMMA MovedBoxes ==
  ASSUME NEW p, NEW boxes \in Seq(Box(p)), NEW n \in LiveSet(refineAndSquareBbox(boxes))
  PROVE  n \in DOMAIN boxes /\ SamePlace(refineAndSquareBbox(boxes)[n], Refined(boxes[n]))
<1>1. n \in LiveSet(boxes)  BY RefinedListType
<1>2. n \in DOMAIN boxes /\ boxes[n].exist  BY <1>1 DEF LiveSet
<1> QED  BY <1>2 DEF refineAndSquareBbox, SamePlace

LEMMA SiftedPlaces ==
  ASSUME NEW p, NEW boxes \in Seq(Box(p)), NEW order, NEW threshold, NEW model,
         NEW n \in LiveSet(nms(boxes, order, threshold, model))
  PROVE  n \in DOMAIN boxes /\ SamePlace(nms(boxes, order, threshold, model)[n], boxes[n])
<1>1. n \in DOMAIN boxes  BY DEF LiveSet, nms, Sifted
<1>2. boxes[n] \in Box(p)  BY <1>1
<1> QED  BY <1>1, <1>2 DEF nms, Sifted, Box, SamePlace

\* O-net's faces: moved all of them, for they all exist, and then sifted.
LEMMA FacesMoved ==
  ASSUME CInv, Onet, CInv'
  PROVE  \/ UNCHANGED detections
         \/ \A n \in LiveSet(detections') :
              n \in DOMAIN sifted' /\ SamePlace(detections'[n], Refined(sifted'[n]))
<1> DEFINE p == picture'
<1>1. PICK boxes, order :
         \/ UNCHANGED detections
         \/ /\ detections' = nms(refineAndSquareBbox(boxes), order, nms_threshold[3], "Min")
            /\ sifted' = boxes /\ \A n \in DOMAIN boxes : boxes[n].exist
  <2>1. PICK says \in [LiveSet(secondBbox_) -> OnetVerdicts] :
         LET seen     == AfterNet(secondBbox_, says, Othreshold)
             accepted == [i \in DOMAIN Existing(seen) |->
                            [Existing(seen)[i] EXCEPT !.passed = picture]]
             boxes    == thirdBbox_ \o accepted
             order    == thirdBboxScore_ \o Orders(accepted)
             kept     == nms(refineAndSquareBbox(boxes), order, nms_threshold[3], "Min")
         IN  UNCHANGED detections \/ (detections' = kept /\ sifted' = boxes)
    BY DEF Onet
  <2> DEFINE seen == AfterNet(secondBbox_, says, Othreshold)
             found == Existing(seen)
             accepted == [i \in DOMAIN found |-> [found[i] EXCEPT !.passed = picture]]
             boxes == thirdBbox_ \o accepted
             order == thirdBboxScore_ \o Orders(accepted)
  <2>2. picture \in Nat /\ Lists(picture) /\ thirdBbox_ = <<>>
    BY CascadeAssumption DEF CInv, TypeInv, Leftovers
  <2>3. seen \in Seq(Box(picture))
    BY <2>2, CascadeAssumption, AfterNetType DEF Lists
  <2>4. found \in Seq(Live(picture))
    <3> HIDE DEF seen
    <3> QED  BY <2>3, ExistingFacts DEF Live
  <2>5. accepted \in Seq(Live(picture))
    <3>1. accepted = Stamped(found, picture)  BY DEF Stamped
    <3> HIDE DEF found, accepted
    <3> QED  BY <2>2, <2>4, <3>1, AcceptedType
  <2>6. UNCHANGED detections
        \/ (detections' = nms(refineAndSquareBbox(boxes), order, nms_threshold[3], "Min")
            /\ sifted' = boxes)
    BY <2>1
  <2> HIDE DEF seen, found, accepted
  <2>7. \A n \in DOMAIN boxes : boxes[n].exist
    <3>1. boxes = accepted  BY <2>2, <2>5, NothingBefore
    <3>2. \A n \in DOMAIN accepted : accepted[n] \in Live(picture)  BY <2>5
    <3> QED  BY <3>1, <3>2 DEF Live
  <2> HIDE DEF boxes, order
  <2> QED  BY <2>6, <2>7
<1>2. CASE UNCHANGED detections  BY <1>2
<1>3. CASE /\ detections' = nms(refineAndSquareBbox(boxes), order, nms_threshold[3], "Min")
           /\ sifted' = boxes /\ \A n \in DOMAIN boxes : boxes[n].exist
  <2> DEFINE moved == refineAndSquareBbox(boxes)
  <2>1. boxes \in Seq(Box(p))  BY <1>3 DEF CInv, TypeInv, Lists
  <2>2. /\ moved \in Seq(Box(p)) /\ DOMAIN moved = DOMAIN boxes
        /\ \A n \in DOMAIN moved : moved[n] = Refined(boxes[n])
    BY <1>3, <2>1, RefinedListType DEF refineAndSquareBbox
  <2> HIDE DEF moved
  <2>3. ASSUME NEW n \in LiveSet(detections')
        PROVE  n \in DOMAIN sifted' /\ SamePlace(detections'[n], Refined(sifted'[n]))
    <3>1. detections' = nms(moved, order, nms_threshold[3], "Min")  BY <1>3 DEF moved
    <3>2. n \in DOMAIN moved /\ SamePlace(detections'[n], moved[n])
      BY <2>2, <2>3, <3>1, SiftedPlaces
    <3> QED  BY <1>3, <2>2, <3>2
  <2> QED  BY <2>3
<1> QED  BY <1>1, <1>2, <1>3

LEMMA CropStep ==
  ASSUME CInv, CropInv, [Next]_vars, CInv'
  PROVE  CropInv'
<1>1. sifted' \in Seq(Box(picture'))  BY DEF CInv, TypeInv, Lists
<1>2. ASSUME detections' = <<>>, stage' = "idle"
      PROVE  CropInv'
  BY <1>2, NoBoxes DEF CropInv, Crops
<1>3. ASSUME detections' = <<>>, Crops' = refineAndSquareBbox(sifted')
      PROVE  CropInv'
  BY <1>1, <1>3, MovedBoxes DEF CropInv
<1>4. CASE Pnet
  <2>1. detections' = <<>> /\ stage = "idle"
        /\ (stage' = "idle" \/ (stage' = "rnet" /\ firstBbox_' = refineAndSquareBbox(sifted')))
    BY <1>4 DEF Pnet
  <2> QED  BY <1>2, <1>3, <2>1 DEF Crops
<1>5. CASE Rnet
  <2>1. stage # "idle" /\ UNCHANGED detections
        /\ (stage' = "idle" \/ (stage' = "onet" /\ secondBbox_' = refineAndSquareBbox(sifted')))
    BY <1>5 DEF Rnet
  <2> QED  BY <1>2, <1>3, <2>1 DEF Crops, CropInv
<1>6. CASE Onet
  <2>1. stage # "idle" /\ stage' = "idle"  BY <1>6 DEF Onet
  <2>2. CASE UNCHANGED detections  BY <1>2, <2>1, <2>2 DEF CropInv
  <2>3. CASE \A n \in LiveSet(detections') :
               n \in DOMAIN sifted' /\ SamePlace(detections'[n], Refined(sifted'[n]))
    <3>1. Crops' = detections'  BY <2>1 DEF Crops
    <3> QED  BY <2>1, <2>3, <3>1 DEF CropInv
  <2> QED  BY <1>6, <2>2, <2>3, FacesMoved
<1>7. CASE UNCHANGED vars
  BY <1>7 DEF vars, lists, CropInv, Crops
<1> QED  BY <1>4, <1>5, <1>6, <1>7 DEF Next

\* Whatever the nets say, in any number of pictures and with whatever is left
\* behind in the lists and moved again: a box whose centre a net leaves in the
\* picture can be cropped, and one that cannot be is inside out
\* (network.cpp:113-117, mtcnn.cpp:151, :205).
THEOREM CropsLieInside == Spec => []CropsInside
<1>1. Init => CropInv
  <2> SUFFICES ASSUME Init PROVE CropInv  OBVIOUS
  <2> QED  BY NoBoxes DEF Init, CropInv, Crops
<1>2. CInv /\ CropInv /\ [Next]_vars /\ CInv' => CropInv'
  BY CropStep
<1>3. CInv /\ CropInv => CropsInside
  <2> SUFFICES ASSUME CInv, CropInv, NEW n \in LiveSet(Crops),
                      Centred(sifted[n]) \/ Upright(Crops[n])
               PROVE  Inside(Crops[n])
    BY DEF CropsInside, Upright
  <2>1. /\ n \in DOMAIN sifted /\ SamePlace(Crops[n], Refined(sifted[n]))
        /\ sifted[n] \in Box(picture)
    BY DEF CropInv, CInv, TypeInv, Lists
  <2>2. Clipped(Refined(sifted[n]))  BY <2>1, RefinedClipped
  <2>3. Centred(sifted[n]) => Inside(Refined(sifted[n]))  BY <2>1, CentredInside
  <2>4. CASE Centred(sifted[n])
    BY <2>1, <2>3, <2>4, Zenon DEF Inside, SamePlace
  <2>5. CASE Upright(Crops[n])
    BY <2>1, <2>2, <2>5, Zenon DEF Inside, SamePlace, Clipped, Upright
  <2> QED  BY <2>4, <2>5
<1> QED  BY <1>1, <1>2, <1>3, Inductive, PTL DEF Spec
=============================================================================
