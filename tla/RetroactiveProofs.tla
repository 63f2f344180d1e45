-------------------------- MODULE RetroactiveProofs --------------------------
(***************************************************************************)
(* Proofs about Retroactive for any people, any number of pictures,        *)
(* rescans, crashes and power losses, and whatever the texts hold.         *)
(***************************************************************************)
EXTENDS Retroactive, TLAPS

\* As long as the two threads never met in retroactive_init, the i-th line of
\* the history is that of the i-th picture, and whoever may use the index
\* finds it just past the history.
LinesInOrder == \A i \in DOMAIN history : history[i].number = i

IndexInUse == predict # "idle" \/ retroactive_mode \/ main = "load"

IndexRight ==
  /\ predict \in {"idle", "called", "save", "print"} => unknown_index = Len(history) + 1
  /\ predict \in {"save", "print"} => img = Len(history) + 1
  /\ predict \in {"load", "store"} => unknown_index = Len(history)
  /\ predict = "store" => loaded = Len(history)

Numbered ==
  ~raced => LinesInOrder /\ (server = "up" /\ IndexInUse => IndexRight)

\* The mode is off while the main thread prepares it.
Quiet == ~retroactive_mode \/ main = "idle"

-----------------------------------------------------------------------------
(* Types.  The numbers that are used are positive, because the index is.   *)

PositiveIndex ==
  /\ (server = "up" /\ IndexInUse) => unknown_index > 0
  /\ predict \in {"save", "print", "load", "store"} => img > 0
  /\ predict \in {"called", "save"} => shots < MaxShots
  /\ predict = "print" => shots > 0
  /\ server # "up" => predict = "idle" /\ main = "idle" /\ ~retroactive_mode

\* A number that has lines has a last one.
IsLast(i, k) ==
  /\ i \in DOMAIN history /\ history[i].number = k
  /\ \A j \in DOMAIN history : history[j].number = k => j <= i

HasLast == \A k \in PositiveNumber : Logged(k) => \E i \in DOMAIN history : IsLast(i, k)

TInv == TypeOK /\ PositiveIndex /\ Quiet /\ HasLast

\* The time the generator takes is that of a line of the number.
LEMMA TimeOfLine ==
  ASSUME TInv, NEW k \in PositiveNumber, Logged(k)
  PROVE  \E i \in DOMAIN history : history[i].number = k /\ TimeOf(k) = history[i].time
<1>1. PICK i \in DOMAIN history : IsLast(i, k)
  BY DEF TInv, HasLast
<1>2. QED  BY <1>1 DEF IsLast, TimeOf

LEMMA TimeOfType ==
  ASSUME TInv, NEW k \in PositiveNumber, Logged(k)
  PROVE  TimeOf(k) \in Time
<1>1. PICK i \in DOMAIN history : TimeOf(k) = history[i].time
  BY TimeOfLine
<1> DEFINE Line == [number : PositiveNumber, time : Time]
<1>2. history \in Seq(Line)
  BY DEF TInv, TypeOK
<1>3. history[i] \in Line
  <2> HIDE DEF Line
  <2>1. QED  BY <1>2
<1>4. QED  BY <1>1, <1>3

LEMMA LastAppended == TInv /\ WriteHistory => HasLast'
<1> SUFFICES ASSUME TInv, WriteHistory, NEW k \in PositiveNumber, Logged(k)'
             PROVE  \E i \in DOMAIN history' : IsLast(i, k)'
  BY DEF HasLast
<1> DEFINE n == Len(history)
           line == [number |-> img, time |-> shots]
<1>1. history' = Append(history, line) /\ n \in Nat
  BY DEF WriteHistory, TInv, TypeOK
<1>2. /\ DOMAIN history = 1 .. n /\ DOMAIN history' = 1 .. n + 1
      /\ history'[n + 1] = line /\ \A i \in 1 .. n : history'[i] = history[i]
  BY <1>1 DEF TInv, TypeOK
<1>3. CASE k = img
  <2>1. PICK m \in Nat : m = n + 1
    BY <1>1
  <2>2. m \in DOMAIN history' /\ history'[m].number = k
    BY <1>1, <1>2, <1>3, <2>1
  <2>3. \A j \in DOMAIN history' : j <= m
    BY <1>1, <1>2, <2>1
  <2>4. IsLast(m, k)'
    BY <2>2, <2>3 DEF IsLast
  <2>5. QED  BY <2>2, <2>4
<1>4. CASE k # img
  <2>1. Logged(k)
    BY <1>1, <1>2, <1>4 DEF Logged
  <2>2. PICK i \in DOMAIN history : IsLast(i, k)
    BY <2>1 DEF TInv, HasLast
  <2>3. IsLast(i, k)'
    BY <1>1, <1>2, <1>4, <2>2 DEF IsLast
  <2>4. QED  BY <2>3, <2>2, <1>1, <1>2
<1>5. QED  BY <1>3, <1>4

LEMMA InitTypes == Init => TInv
<1> SUFFICES ASSUME Init PROVE TInv
  OBVIOUS
<1>1. faults \in [rescans : Nat, crashes : Nat, losses : Nat]
  BY DEF Init
<1>2. shots \in 0 .. MaxShots /\ history \in Seq([number : PositiveNumber, time : Time])
  BY RetroactiveAssumption DEF Init
<1>3. found \in Times
  <2>1. found \in [{} -> Time]
    BY DEF Init
  <2>2. QED  BY <2>1 DEF Times
<1>4. HasLast
  BY DEF Init, HasLast, Logged
<1>5. TypeOK
  BY <1>1, <1>2, <1>3 DEF Init, TypeOK
<1>6. QED  BY <1>4, <1>5 DEF Init, TInv, PositiveIndex, Quiet, IndexInUse

LEMMA LastKept == HasLast /\ UNCHANGED history => HasLast'
BY DEF HasLast, IsLast, Logged

LEMMA PredictionTypes == TInv /\ Prediction => TInv'
<1> SUFFICES ASSUME TInv, Prediction PROVE TInv'
  OBVIOUS
<1> USE LastKept DEF TInv, TypeOK, PositiveIndex, Quiet, IndexInUse, disk, memory, ghosts, Predicting
<1>1. CASE PredictionCall  BY <1>1 DEF PredictionCall
<1>2. CASE NothingDue      BY <1>2 DEF NothingDue
<1>3. CASE TakeNumber      BY <1>3 DEF TakeNumber
<1>4. CASE SavePicture
  <2>0. shots' \in Time /\ shots' \in 0 .. MaxShots
    BY <1>4, RetroactiveAssumption DEF SavePicture, Time
  <2>1. pictures' \subseteq Picture
    BY <1>4, <2>0 DEF SavePicture, Overwriting, Picture, PositiveNumber
  <2>2. rewritten' \subseteq PositiveNumber
    BY <1>4 DEF SavePicture, PositiveNumber
  <2>3. QED  BY <1>4, <2>0, <2>1, <2>2 DEF SavePicture
<1>5. CASE WriteHistory
  <2>1. history' \in Seq([number : PositiveNumber, time : Time])
    <3>1. [number |-> img, time |-> shots] \in [number : PositiveNumber, time : Time]
      BY <1>5 DEF WriteHistory, PositiveNumber, Time
    <3>2. QED  BY <1>5, <3>1 DEF WriteHistory
  <2>2. HasLast'
    BY <1>5, LastAppended
  <2>3. QED  BY <1>5, <2>1, <2>2 DEF WriteHistory
<1>6. CASE LoadIndex       BY <1>6 DEF LoadIndex
<1>7. CASE StoreIndex      BY <1>7 DEF StoreIndex
<1>8. QED  BY <1>1, <1>2, <1>3, <1>4, <1>5, <1>6, <1>7 DEF Prediction

LEMMA MainTypes == TInv /\ Main => TInv'
<1> SUFFICES ASSUME TInv, Main PROVE TInv'
  OBVIOUS
<1> USE LastKept DEF TInv, TypeOK, PositiveIndex, Quiet, IndexInUse, disk, memory, ghosts, Commanded
<1>1. CASE OtherCommand    BY <1>1 DEF OtherCommand
<1>2. CASE RarunCommand    BY <1>2 DEF RarunCommand
<1>3. CASE ResetIndex
  <2>1. raced' \in BOOLEAN
    BY <1>3, Zenon DEF ResetIndex, SetsIndex
  <2>2. QED  BY <1>3, <2>1 DEF ResetIndex, SetsIndex
<1>4. CASE CountLines
  <2>1. raced' \in BOOLEAN
    BY <1>4, Zenon DEF CountLines, SetsIndex
  <2>2. Len(history) \in Nat
    OBVIOUS
  <2>3. QED  BY <1>4, <2>1, <2>2 DEF CountLines, SetsIndex, get_lines
<1>5. CASE LoadPoiData     BY <1>5 DEF LoadPoiData
<1>6. CASE RescanCommand
  <2>1. faults' \in [rescans : Nat, crashes : Nat, losses : Nat]
    BY <1>6 DEF RescanCommand
  <2>2. unknown_index' \in Nat /\ img' \in Nat /\ loaded' \in Nat
        /\ retroactive_mode' = FALSE /\ predict' = "idle" /\ main' = "idle"
    BY <1>6 DEF RescanCommand, Exits
  <2>3. server' \in {"boot", "collect"}
    BY <1>6 DEF RescanCommand, Exits
  <2>4. QED  BY <1>6, <2>1, <2>2, <2>3 DEF RescanCommand
<1>7. CASE Crash
  <2>1. faults' \in [rescans : Nat, crashes : Nat, losses : Nat]
    BY <1>7 DEF Crash
  <2>2. unknown_index' \in Nat /\ img' \in Nat /\ loaded' \in Nat
        /\ retroactive_mode' = FALSE /\ predict' = "idle" /\ main' = "idle"
    BY <1>7 DEF Crash, Exits
  <2>3. server' \in {"boot", "collect"}
    BY <1>7 DEF Crash, Exits
  <2>4. QED  BY <1>7, <2>1, <2>2, <2>3 DEF Crash
<1>8. CASE Boot            BY <1>8 DEF Boot
<1>9. QED  BY <1>1, <1>2, <1>3, <1>4, <1>5, <1>6, <1>7, <1>8 DEF Main

LEMMA OtherTypes == TInv /\ ((\E pic \in pictures : Classify(pic)) \/ Generator) => TInv'
<1> SUFFICES ASSUME TInv, (\E pic \in pictures : Classify(pic)) \/ Generator PROVE TInv'
  OBVIOUS
<1> USE LastKept DEF TInv, TypeOK, PositiveIndex, Quiet, IndexInUse, disk, memory, ghosts
<1>1. CASE \E pic \in pictures : Classify(pic)
  <2>1. PICK pic \in pictures : Classify(pic)
    BY <1>1
  <2>2. QED  BY <2>1, RetroactiveAssumption DEF Classify, Picture, Time
<1>2. CASE NothingLabelled BY <1>2 DEF NothingLabelled
<1>3. CASE KeyError        BY <1>3 DEF KeyError
<1>4. CASE Collect
  <2>1. PICK chosen \in Findings : /\ \A p \in Labelled : Logged(chosen[p])
                                 /\ found' = [p \in Labelled |-> TimeOf(chosen[p])]
    BY <1>4 DEF Collect
  <2>2. \A p \in Labelled : chosen[p] \in PositiveNumber
    BY <2>1 DEF Findings
  <2>3. \A p \in Labelled : TimeOf(chosen[p]) \in Time
    BY <2>1, <2>2, TimeOfType
  <2>4. Labelled \subseteq Person
    BY DEF Labelled
  <2>5. found' \in [Labelled -> Time]
    BY <2>1, <2>3
  <2>6. found' \in Times
    BY <2>4, <2>5 DEF Times
  <2>7. QED  BY <1>4, <2>6 DEF Collect
<1>5. CASE WriteFile       BY <1>5 DEF WriteFile
<1>6. CASE PowerLoss       BY <1>6 DEF PowerLoss
<1>7. QED  BY <1>1, <1>2, <1>3, <1>4, <1>5, <1>6 DEF Generator

LEMMA StepTypes == TInv /\ [Next]_vars => TInv'
<1> SUFFICES ASSUME TInv, [Next]_vars PROVE TInv'
  OBVIOUS
<1>1. CASE Next  BY <1>1, PredictionTypes, MainTypes, OtherTypes DEF Next
<1>2. CASE UNCHANGED vars
  BY <1>2, LastKept DEF vars, disk, memory, ghosts, TInv, TypeOK, PositiveIndex, Quiet, IndexInUse
<1>3. QED  BY <1>1, <1>2

\* Every variable keeps its type: the index handle_unknown_data uses is never
\* zero or negative, and every number in the data set is one it gave.
THEOREM TypeCorrect == Spec => []TypeOK
<1>1. TInv => TypeOK  BY DEF TInv
<1>2. QED  BY InitTypes, StepTypes, <1>1, PTL DEF Spec

-----------------------------------------------------------------------------
(* The numbers.                                                            *)

\* A new line under the next number keeps the lines in order.
LEMMA LineAppended ==
  ASSUME TInv, LinesInOrder, img = Len(history) + 1, WriteHistory
  PROVE  LinesInOrder' /\ Len(history') = Len(history) + 1
<1> DEFINE line == [number |-> img, time |-> shots]
<1>1. history' = Append(history, line)  BY DEF WriteHistory
<1>2. Len(history) \in Nat /\ Len(history') = Len(history) + 1
  BY <1>1 DEF TInv, TypeOK
<1>3. ASSUME NEW i \in DOMAIN history' PROVE history'[i].number = i
  <2>1. i \in 1 .. Len(history) + 1
    BY <1>1, <1>2 DEF TInv, TypeOK
  <2>2. CASE i \in 1 .. Len(history)
    BY <1>1, <2>2 DEF TInv, TypeOK, LinesInOrder
  <2>3. CASE i = Len(history) + 1
    <3>1. history'[i] = line  BY <1>1, <2>3 DEF TInv, TypeOK
    <3>2. QED  BY <3>1, <2>3
  <2>4. QED  BY <1>2, <2>1, <2>2, <2>3
<1>4. QED  BY <1>2, <1>3 DEF LinesInOrder

LEMMA PredictionNumbered == TInv /\ Numbered /\ Prediction => Numbered'
<1> SUFFICES ASSUME TInv, Numbered, Prediction, ~raced' PROVE Numbered'
  BY DEF Numbered
<1> USE DEF IndexInUse, IndexRight, LinesInOrder, disk, memory, ghosts, Predicting
<1>1. ~raced
  BY DEF Prediction, PredictionCall, NothingDue, TakeNumber, SavePicture,
         WriteHistory, LoadIndex, StoreIndex
<1>2. LinesInOrder /\ (server = "up" /\ IndexInUse => IndexRight)
  BY <1>1 DEF Numbered
<1>3. Len(history) \in Nat  BY DEF TInv, TypeOK
<1>4. CASE PredictionCall  BY <1>4, <1>2 DEF PredictionCall, Numbered
<1>5. CASE NothingDue      BY <1>5, <1>2 DEF NothingDue, Numbered
<1>6. CASE TakeNumber      BY <1>6, <1>2 DEF TakeNumber, Numbered
<1>7. CASE SavePicture     BY <1>7, <1>2 DEF SavePicture, Numbered
<1>8. CASE WriteHistory
  <2>1. IndexRight /\ img = Len(history) + 1 /\ unknown_index = Len(history) + 1
    BY <1>8, <1>2 DEF WriteHistory
  <2>2. LinesInOrder' /\ Len(history') = Len(history) + 1
    BY <1>8, <1>2, <2>1, LineAppended
  <2>3. IndexRight'
    BY <1>8, <1>3, <2>1, <2>2 DEF WriteHistory
  <2>4. QED  BY <2>2, <2>3 DEF Numbered
<1>9. CASE LoadIndex       BY <1>9, <1>2, <1>3 DEF LoadIndex, Numbered
<1>10. CASE StoreIndex     BY <1>10, <1>2, <1>3 DEF StoreIndex, Numbered
<1>11. QED  BY <1>4, <1>5, <1>6, <1>7, <1>8, <1>9, <1>10 DEF Prediction

LEMMA MainNumbered == TInv /\ Numbered /\ Main => Numbered'
<1> SUFFICES ASSUME TInv, Numbered, Main PROVE Numbered'
  OBVIOUS
<1> USE DEF Numbered, IndexInUse, IndexRight, LinesInOrder, disk, memory, ghosts,
            Commanded, TInv, Quiet
<1>1. CASE OtherCommand    BY <1>1 DEF OtherCommand
<1>2. CASE RarunCommand    BY <1>2 DEF RarunCommand
<1>3. CASE ResetIndex      BY <1>3 DEF ResetIndex, SetsIndex
<1>4. CASE CountLines      BY <1>4 DEF CountLines, SetsIndex, get_lines
<1>5. CASE LoadPoiData     BY <1>5 DEF LoadPoiData
<1>6. CASE RescanCommand   BY <1>6 DEF RescanCommand, Exits
<1>7. CASE Crash           BY <1>7 DEF Crash, Exits
<1>8. CASE Boot            BY <1>8 DEF Boot, PositiveIndex
<1>9. QED  BY <1>1, <1>2, <1>3, <1>4, <1>5, <1>6, <1>7, <1>8 DEF Main

LEMMA OtherNumbered ==
  TInv /\ Numbered /\ ((\E pic \in pictures : Classify(pic)) \/ Generator) => Numbered'
<1> SUFFICES ASSUME TInv, Numbered, (\E pic \in pictures : Classify(pic)) \/ Generator
             PROVE  Numbered'
  OBVIOUS
<1>1. server' = "up" => server = "up"
  BY DEF Classify, Generator, NothingLabelled, KeyError, Collect, WriteFile, PowerLoss
<1>2. UNCHANGED <<history, main, predict, memory, raced>>
  BY DEF Classify, Generator, NothingLabelled, KeyError, Collect, WriteFile, PowerLoss,
         disk, ghosts
<1>3. QED
  BY <1>1, <1>2 DEF Numbered, LinesInOrder, IndexInUse, IndexRight, memory

LEMMA StepNumbered == TInv /\ Numbered /\ [Next]_vars => Numbered'
<1> SUFFICES ASSUME TInv, Numbered, [Next]_vars PROVE Numbered'
  OBVIOUS
<1>1. CASE Next  BY <1>1, PredictionNumbered, MainNumbered, OtherNumbered DEF Next
<1>2. CASE UNCHANGED vars
  BY <1>2 DEF vars, disk, memory, ghosts, Numbered, LinesInOrder, IndexInUse, IndexRight
<1>3. QED  BY <1>1, <1>2

LEMMA InitNumbered == Init => Numbered
  BY DEF Init, Numbered, LinesInOrder, IndexInUse

LEMMA SavedUnderNewNumber ==
  ASSUME TInv, Numbered, SavePicture, ~raced, NEW pic \in pictures, Logged(pic.number)
  PROVE  pic \in pictures'
<1>1. LinesInOrder /\ img = Len(history) + 1 /\ Len(history) \in Nat
  BY DEF Numbered, IndexInUse, IndexRight, SavePicture, Predicting, TInv, TypeOK
<1>2. PICK i \in DOMAIN history : history[i].number = pic.number
  BY DEF Logged
<1>3. pic.number \in 1 .. Len(history)
  BY <1>1, <1>2 DEF LinesInOrder, TInv, TypeOK
<1>4. pic.number # img
  BY <1>1, <1>3
<1>5. QED  BY <1>4 DEF SavePicture, Overwriting

\* However often the mode is entered and the server crashes, no picture that
\* the history lists is overwritten, as long as the prediction thread was
\* never in the middle of a picture when the main thread set the index.
THEOREM LoggedPicturesKept == Spec => LoggedKept
<1> DEFINE Kept == \A pic \in pictures : Logged(pic.number) => pic \in pictures' \/ raced
<1>1. TInv /\ Numbered /\ [Next]_vars => [Kept]_vars
  <2> SUFFICES ASSUME TInv, Numbered, Next PROVE Kept
    OBVIOUS
  <2>1. CASE SavePicture
    BY <2>1, SavedUnderNewNumber
  <2>2. CASE ~SavePicture
    <3>1. pictures' = pictures
      BY <2>2 DEF Next, Prediction, PredictionCall, NothingDue, TakeNumber, WriteHistory,
                  LoadIndex, StoreIndex, Main, OtherCommand, RarunCommand, ResetIndex,
                  CountLines, SetsIndex, LoadPoiData, RescanCommand, Crash, Boot, Classify,
                  Generator, NothingLabelled, KeyError, Collect, WriteFile, PowerLoss, disk
    <3>2. QED  BY <3>1
  <2>3. QED  BY <2>1, <2>2
<1>2. QED
  BY InitTypes, InitNumbered, StepTypes, StepNumbered, <1>1, PTL DEF Spec, LoggedKept

-----------------------------------------------------------------------------
(* The pictures and what is said of them.  A number that was not given      *)
(* twice stands for one picture everywhere: in faces/unknown, in the        *)
(* history, and in the data set.                                            *)

Pic(k, shot) == [number |-> k, shot |-> shot]
Kept(k, shot) == k \in rewritten \/ Pic(k, shot) \in pictures

OnePicture  == \A a, b \in pictures : a.number = b.number => a = b
LinesTrue   == \A i \in DOMAIN history : Kept(history[i].number, history[i].time)
DatasetTrue == \A x \in dataset : Kept(x.number, x.shot)
PrintTrue   == predict = "print" => Kept(img, shots)

SInv == OnePicture /\ LinesTrue /\ DatasetTrue /\ PrintTrue

LEMMA InitStored == Init => SInv
BY DEF Init, SInv, OnePicture, LinesTrue, DatasetTrue, PrintTrue

LEMMA KeptKept ==
  ASSUME TInv, SavePicture, NEW k, NEW shot, Kept(k, shot)
  PROVE  Kept(k, shot)'
<1>1. /\ pictures' = Overwriting(img, shots')
      /\ rewritten' = IF Stored(img) THEN rewritten \cup {img} ELSE rewritten
  BY DEF SavePicture
<1>2. CASE k \in rewritten
  BY <1>1, <1>2 DEF Kept
<1>3. CASE Pic(k, shot) \in pictures /\ k # img
  BY <1>1, <1>3 DEF Kept, Overwriting, Pic
<1>4. CASE Pic(k, shot) \in pictures /\ k = img
  BY <1>1, <1>4 DEF Kept, Stored, Pic
<1>5. QED  BY <1>2, <1>3, <1>4 DEF Kept

LEMMA SaveStored == TInv /\ SInv /\ SavePicture => SInv'
<1> SUFFICES ASSUME TInv, SInv, SavePicture PROVE SInv'
  OBVIOUS
<1>1. /\ pictures' = Overwriting(img, shots')
      /\ UNCHANGED <<history, dataset>> /\ img' = img
  BY DEF SavePicture, memory
<1>2. OnePicture'
  BY <1>1 DEF SInv, OnePicture, Overwriting
<1>3. LinesTrue'
  BY <1>1, KeptKept DEF SInv, LinesTrue
<1>4. DatasetTrue'
  BY <1>1, KeptKept DEF SInv, DatasetTrue
<1>5. PrintTrue'
  BY <1>1 DEF PrintTrue, Kept, Overwriting, Pic
<1>6. QED  BY <1>2, <1>3, <1>4, <1>5 DEF SInv

LEMMA HistoryStored == TInv /\ SInv /\ WriteHistory => SInv'
<1> SUFFICES ASSUME TInv, SInv, WriteHistory PROVE SInv'
  OBVIOUS
<1> DEFINE line == [number |-> img, time |-> shots]
<1>1. /\ history' = Append(history, line) /\ predict = "print" /\ predict' = "load"
      /\ UNCHANGED <<pictures, dataset, rewritten>>
  BY DEF WriteHistory, Predicting, ghosts
<1>2. ASSUME NEW i \in DOMAIN history' PROVE Kept(history'[i].number, history'[i].time)
  <2>1. i \in 1 .. Len(history) + 1
    BY <1>1 DEF TInv, TypeOK
  <2>2. CASE i \in 1 .. Len(history)
    BY <1>1, <2>2 DEF TInv, TypeOK, SInv, LinesTrue
  <2>3. CASE i = Len(history) + 1
    <3>1. history'[i] = line  BY <1>1, <2>3 DEF TInv, TypeOK
    <3>2. QED  BY <3>1, <1>1 DEF SInv, PrintTrue
  <2>4. Len(history) \in Nat
    BY DEF TInv, TypeOK
  <2>5. QED  BY <2>1, <2>2, <2>3, <2>4
<1>3. \A k, shot : Kept(k, shot) <=> Kept(k, shot)'
  BY <1>1 DEF Kept
<1>4. LinesTrue'
  BY <1>2, <1>3 DEF LinesTrue
<1>5. QED  BY <1>1, <1>3, <1>4 DEF SInv, OnePicture, DatasetTrue, PrintTrue

LEMMA ClassifyStored ==
  TInv /\ SInv /\ (\E pic \in pictures : Classify(pic)) => SInv'
<1> SUFFICES ASSUME TInv, SInv, NEW pic \in pictures, Classify(pic) PROVE SInv'
  OBVIOUS
<1>1. UNCHANGED <<pictures, history, predict, img, shots, rewritten>>
  BY DEF Classify, memory, ghosts
<1>2. Pic(pic.number, pic.shot) = pic
  BY DEF TInv, TypeOK, Picture, Pic
<1>3. DatasetTrue'
  BY <1>1, <1>2 DEF Classify, DatasetTrue, Kept, SInv
<1>4. QED  BY <1>1, <1>3 DEF SInv, OnePicture, LinesTrue, PrintTrue, Kept

LEMMA StepStored == TInv /\ SInv /\ [Next]_vars => SInv'
<1> SUFFICES ASSUME TInv, SInv, [Next]_vars PROVE SInv'
  OBVIOUS
<1>1. CASE SavePicture   BY <1>1, SaveStored
<1>2. CASE WriteHistory  BY <1>2, HistoryStored
<1>3. CASE \E pic \in pictures : Classify(pic)
  BY <1>3, ClassifyStored
<1>4. CASE \/ PredictionCall \/ NothingDue \/ TakeNumber \/ LoadIndex \/ StoreIndex
           \/ Main \/ Generator \/ UNCHANGED vars
  <2>1. UNCHANGED <<pictures, history, dataset, shots, rewritten>>
    BY <1>4 DEF PredictionCall, NothingDue, TakeNumber, LoadIndex, StoreIndex, Main,
                OtherCommand, RarunCommand, ResetIndex, CountLines, SetsIndex, LoadPoiData,
                RescanCommand, Crash, Boot, Generator, NothingLabelled, KeyError, Collect,
                WriteFile, PowerLoss, vars, disk, ghosts
  <2>2. predict' = "print" => predict = "print" /\ img' = img
    BY <1>4 DEF PredictionCall, NothingDue, TakeNumber, LoadIndex, StoreIndex, Main,
                OtherCommand, RarunCommand, ResetIndex, CountLines, SetsIndex, LoadPoiData,
                RescanCommand, Crash, Exits, Boot, Generator, NothingLabelled, KeyError,
                Collect, WriteFile, PowerLoss, vars, memory
  <2>3. QED
    BY <2>1, <2>2 DEF SInv, OnePicture, LinesTrue, DatasetTrue, PrintTrue, Kept
<1>5. QED  BY <1>1, <1>2, <1>3, <1>4 DEF Next, Prediction

-----------------------------------------------------------------------------
(* What the file, and poi_data after it, say of a person is true.          *)

True(p, t) == \E x \in dataset : x.person = p /\ (x.shot = t \/ x.number \in rewritten)

FoundTrue == \A p \in DOMAIN found : True(p, found[p])

FileRight ==
  server # "write" =>
    \/ poi_info_file = NoFile
    \/ poi_info_file = Dumps(found)
    \/ faults.losses > 0 /\ poi_info_file \in Torn(Dumps(found))

DrawnTrue(drawn, p) ==
  drawn = NothingDrawn \/ (drawn = NullDrawn /\ faults.losses > 0) \/ True(p, drawn)

PInv ==
  /\ FoundTrue /\ FileRight
  /\ poi_data \in PoiValue
  /\ \A p \in Person : DrawnTrue(Drawn(poi_data, p), p)

LEMMA InitPoi == Init => PInv
BY TextAssumption DEF Init, PInv, FoundTrue, FileRight, DrawnTrue

\* What is true of a person stays true, whatever is put into the data set.
LEMMA TrueKept ==
  ASSUME TInv, SInv, [Next]_vars, NEW p, NEW t, True(p, t)
  PROVE  True(p, t)'
<1>1. PICK x \in dataset : x.person = p /\ (x.shot = t \/ x.number \in rewritten)
  BY DEF True
<1>2. rewritten \subseteq rewritten'
  BY DEF Next, Prediction, PredictionCall, NothingDue, TakeNumber, SavePicture, WriteHistory,
         LoadIndex, StoreIndex, Main, OtherCommand, RarunCommand, ResetIndex,
         CountLines, SetsIndex, LoadPoiData, RescanCommand, Crash, Boot, Classify,
         Generator, NothingLabelled, KeyError, Collect, WriteFile, PowerLoss, vars, ghosts
<1>3. CASE \E pic \in pictures : Classify(pic)
  <2>1. PICK pic \in pictures : Classify(pic)
    BY <1>3
  <2> DEFINE y == [person |-> Shows(pic.shot), number |-> pic.number, shot |-> pic.shot]
  <2>2. y \in dataset' /\ rewritten' = rewritten
        /\ (x \in dataset' \/ (x.person = y.person /\ x.number = y.number))
    BY <2>1 DEF Classify, ghosts
  <2>3. CASE x \in dataset'
    BY <1>1, <2>2, <2>3 DEF True
  <2>4. CASE x.person = y.person /\ x.number = y.number /\ x.number \in rewritten
    BY <1>1, <2>2, <2>4 DEF True
  <2>5. CASE x.person = y.person /\ x.number = y.number /\ x.number \notin rewritten
    <3>1. Pic(x.number, x.shot) \in pictures
      BY <2>5 DEF SInv, DatasetTrue, Kept
    <3>2. Pic(x.number, x.shot) = pic
      BY <3>1, <2>5 DEF SInv, OnePicture, Pic
    <3>3. x.shot = y.shot
      BY <3>2 DEF Pic
    <3>4. QED  BY <3>3, <1>1, <2>2, <2>5 DEF True
  <2>6. QED  BY <2>2, <2>3, <2>4, <2>5
<1>4. CASE dataset' = dataset
  BY <1>1, <1>2, <1>4 DEF True
<1>5. (\E pic \in pictures : Classify(pic)) \/ dataset' = dataset
  BY DEF Next, Prediction, PredictionCall, NothingDue, TakeNumber, SavePicture, WriteHistory,
         LoadIndex, StoreIndex, Main, OtherCommand, RarunCommand, ResetIndex,
         CountLines, SetsIndex, LoadPoiData, RescanCommand, Crash, Boot,
         Generator, NothingLabelled, KeyError, Collect, WriteFile, PowerLoss, vars, disk
<1>6. QED  BY <1>3, <1>4, <1>5

\* The generator takes the time of a picture that shows the person.
LEMMA CollectTrue == TInv /\ SInv /\ Collect => FoundTrue'
<1>0. Collect => DOMAIN found' = Labelled
  BY DEF Collect
<1> SUFFICES ASSUME TInv, SInv, Collect, NEW p \in Labelled
             PROVE  True(p, found[p])'
  BY <1>0 DEF FoundTrue
<1>1. PICK chosen \in Findings : /\ \A q \in Labelled : Logged(chosen[q])
                                 /\ found' = [q \in Labelled |-> TimeOf(chosen[q])]
  BY DEF Collect
<1>2. PICK y \in dataset : y.person = p /\ y.number = chosen[p]
  BY <1>1 DEF Findings
<1>3. y.number \in PositiveNumber /\ Logged(y.number) /\ found'[p] = TimeOf(y.number)
  BY <1>1, <1>2 DEF TInv, TypeOK
<1>4. PICK i \in DOMAIN history :
        history[i].number = y.number /\ TimeOf(y.number) = history[i].time
  BY <1>3, TimeOfLine
<1>5. y.number \in rewritten \/ y.shot = found'[p]
  <2>1. CASE y.number \notin rewritten
    <3>1. Pic(y.number, y.shot) \in pictures /\ Pic(y.number, history[i].time) \in pictures
      BY <2>1, <1>4 DEF SInv, DatasetTrue, LinesTrue, Kept
    <3>2. Pic(y.number, y.shot) = Pic(y.number, history[i].time)
      BY <3>1 DEF SInv, OnePicture, Pic
    <3>3. y.shot = history[i].time
      BY <3>2 DEF Pic
    <3>4. QED  BY <3>3, <1>3, <1>4
  <2>2. QED  BY <2>1
<1>6. dataset' = dataset /\ rewritten' = rewritten
  BY DEF Collect
<1>7. QED  BY <1>2, <1>5, <1>6 DEF True

LEMMA FoundKept == TInv /\ SInv /\ FoundTrue /\ [Next]_vars => FoundTrue'
<1> SUFFICES ASSUME TInv, SInv, FoundTrue, [Next]_vars PROVE FoundTrue'
  OBVIOUS
<1>1. CASE Collect  BY <1>1, CollectTrue
<1>2. CASE found' = found
  BY <1>2, TrueKept DEF FoundTrue
<1>3. Collect \/ found' = found
  BY DEF Next, Prediction, PredictionCall, NothingDue, TakeNumber, SavePicture, WriteHistory,
         LoadIndex, StoreIndex, Main, OtherCommand, RarunCommand, ResetIndex,
         CountLines, SetsIndex, LoadPoiData, RescanCommand, Crash, Boot, Classify,
         Generator, NothingLabelled, KeyError, WriteFile, PowerLoss, vars
<1>4. QED  BY <1>1, <1>2, <1>3

LEMMA FileKept == TInv /\ FileRight /\ [Next]_vars => FileRight'
<1> SUFFICES ASSUME TInv, FileRight, [Next]_vars PROVE FileRight'
  OBVIOUS
<1> USE DEF FileRight
<1>1. CASE Collect   BY <1>1 DEF Collect
<1>2. CASE WriteFile BY <1>2 DEF WriteFile
<1>3. CASE PowerLoss
  <2>1. faults'.losses > 0
    BY <1>3 DEF PowerLoss, TInv, TypeOK
  <2>2. QED  BY <1>3, <2>1 DEF PowerLoss
<1>4. CASE ~Collect /\ ~WriteFile /\ ~PowerLoss
  <2>1. poi_info_file' = poi_info_file /\ found' = found /\ (server = "write" => server' = "write")
    BY <1>4 DEF Next, Prediction, PredictionCall, NothingDue, TakeNumber, SavePicture,
         WriteHistory, LoadIndex, StoreIndex, Main, OtherCommand, RarunCommand, ResetIndex,
         CountLines, SetsIndex, LoadPoiData, RescanCommand, Crash, Exits, Boot, Classify,
         Generator, NothingLabelled, KeyError, vars, disk, Predicting, Commanded
  <2>2. faults.losses > 0 => faults'.losses > 0
    BY <1>4 DEF Next, Prediction, PredictionCall, NothingDue, TakeNumber, SavePicture,
         WriteHistory, LoadIndex, StoreIndex, Main, OtherCommand, RarunCommand, ResetIndex,
         CountLines, SetsIndex, LoadPoiData, RescanCommand, Crash, Boot, Classify,
         Generator, NothingLabelled, KeyError, vars, ghosts, TInv, TypeOK
  <2>3. QED  BY <2>1, <2>2
<1>5. QED  BY <1>1, <1>2, <1>3, <1>4

LEMMA DrawnKept ==
  ASSUME TInv, SInv, [Next]_vars, NEW p, NEW drawn, DrawnTrue(drawn, p)
  PROVE  DrawnTrue(drawn, p)'
<1>1. faults.losses > 0 => faults'.losses > 0
  BY DEF Next, Prediction, PredictionCall, NothingDue, TakeNumber, SavePicture,
         WriteHistory, LoadIndex, StoreIndex, Main, OtherCommand, RarunCommand, ResetIndex,
         CountLines, SetsIndex, LoadPoiData, RescanCommand, Crash, Boot, Classify,
         Generator, NothingLabelled, KeyError, Collect, WriteFile, PowerLoss, vars, ghosts,
         TInv, TypeOK
<1>2. QED  BY <1>1, TrueKept DEF DrawnTrue

\* Reading the file makes nothing drawn that is not true.
LEMMA LoadTrue == TInv /\ SInv /\ PInv /\ LoadPoiData =>
  poi_data' \in PoiValue /\ \A p \in Person : DrawnTrue(Drawn(poi_data', p), p)
<1> SUFFICES ASSUME TInv, SInv, PInv, LoadPoiData
             PROVE  poi_data' \in PoiValue
                    /\ \A p \in Person : DrawnTrue(Drawn(poi_data', p), p)
  OBVIOUS
<1>1. /\ server # "write" /\ found \in Times /\ poi_data \in PoiValue
      /\ poi_data' = IF poi_info_file = NoFile THEN poi_data
                     ELSE LoadPoi(poi_info_file, poi_data)
  BY DEF LoadPoiData, Commanded, PInv, TInv, TypeOK
<1>2. CASE poi_info_file = NoFile
  BY <1>1, <1>2 DEF PInv
<1>3. CASE poi_info_file = Dumps(found)
  BY <1>1, <1>3, TextAssumption DEF PInv, FoundTrue, DrawnTrue
<1>4. CASE poi_info_file \in Torn(Dumps(found)) /\ faults.losses > 0
  <2> DEFINE read == LoadPoi(poi_info_file, poi_data)
  <2>1. /\ poi_info_file # NoFile /\ read \in PoiValue
        /\ \A p \in Person :
             \/ Drawn(read, p) \in {Drawn(poi_data, p), NothingDrawn, NullDrawn}
             \/ p \in DOMAIN found /\ Drawn(read, p) = found[p]
    BY <1>1, <1>4, TextAssumption
  <2>2. poi_data' = read
    BY <1>1, <2>1
  <2>3. QED  BY <1>4, <2>1, <2>2 DEF PInv, FoundTrue, DrawnTrue
<1>5. QED  BY <1>1, <1>2, <1>3, <1>4 DEF PInv, FileRight

LEMMA StepPoi == TInv /\ SInv /\ PInv /\ [Next]_vars => PInv'
<1> SUFFICES ASSUME TInv, SInv, PInv, [Next]_vars PROVE PInv'
  OBVIOUS
<1>1. FoundTrue' /\ FileRight'
  BY FoundKept, FileKept DEF PInv
<1>2. poi_data' \in PoiValue /\ \A p \in Person : DrawnTrue(Drawn(poi_data', p), p)
  <2>1. CASE LoadPoiData
    BY <2>1, LoadTrue
  <2>2. CASE poi_data' = NoPoi
    BY <2>2, TextAssumption DEF DrawnTrue
  <2>3. CASE poi_data' = poi_data
    BY <2>3 DEF PInv
  <2>4. QED
    BY <2>1, <2>2, <2>3 DEF Next, Prediction, PredictionCall, NothingDue, TakeNumber,
         SavePicture, WriteHistory, LoadIndex, StoreIndex, Main, OtherCommand, RarunCommand,
         ResetIndex, CountLines, SetsIndex, RescanCommand, Crash, Exits, Boot, Classify,
         Generator, NothingLabelled, KeyError, Collect, WriteFile, PowerLoss, vars, memory
<1>3. ASSUME NEW p \in Person PROVE DrawnTrue(Drawn(poi_data, p), p)'
  <2>1. PICK drawn : drawn = Drawn(poi_data', p)
    OBVIOUS
  <2>2. DrawnTrue(drawn, p)'
    BY <1>2, <2>1, DrawnKept
  <2>3. QED  BY <2>1, <2>2
<1>4. QED  BY <1>1, <1>2, <1>3 DEF PInv

\* What is drawn beside a name is a time at which an unknown picture of that
\* person was taken, for any number of rescans and crashes, and of power
\* losses while the file is written - as long as the two programs' texts
\* understand each other, and the picture's number was not given twice.
THEOREM DrawnTimesAreTrue == Spec => []PoiTruthful
<1>1. PInv => PoiTruthful
  BY DEF PInv, PoiTruthful, DrawnTrue, True
<1>2. QED
  BY InitTypes, InitStored, InitPoi, StepTypes, StepStored, StepPoi, <1>1, PTL DEF Spec

-----------------------------------------------------------------------------
(* Nobody is lost between the two programs.                                *)

AllDrawn == \A p \in DOMAIN found : Drawn(poi_data, p) \in Time

CInv ==
  /\ whole => server # "write" /\ poi_info_file = Dumps(found)
  /\ whole /\ server = "up" /\ retroactive_mode => AllDrawn

LEMMA InitComplete == Init => CInv
BY DEF Init, CInv

LEMMA StepComplete == TInv /\ PInv /\ CInv /\ [Next]_vars => CInv'
<1> SUFFICES ASSUME TInv, PInv, CInv, [Next]_vars PROVE CInv'
  OBVIOUS
<1>1. CASE LoadPoiData
  <2>1. /\ server = "up" /\ found \in Times /\ poi_data \in PoiValue
        /\ UNCHANGED <<server, found, whole, poi_info_file>>
        /\ poi_data' = IF poi_info_file = NoFile THEN poi_data
                       ELSE LoadPoi(poi_info_file, poi_data)
    BY <1>1 DEF LoadPoiData, Commanded, PInv, TInv, TypeOK, disk, ghosts
  <2>2. CASE ~whole
    BY <2>1, <2>2 DEF CInv
  <2>3. CASE whole
    <3>1. poi_info_file = Dumps(found)
      BY <2>3 DEF CInv
    <3>2. DOMAIN found \subseteq Person /\ \A p \in DOMAIN found : found[p] \in Time
      BY <2>1 DEF Times
    <3>3. \A p \in DOMAIN found : Drawn(poi_data', p) = found[p]
      BY <2>1, <3>1, <3>2, TextAssumption
    <3>4. AllDrawn'
      BY <2>1, <3>2, <3>3 DEF AllDrawn
    <3>5. QED  BY <2>1, <3>1, <3>4 DEF CInv
  <2>4. QED  BY <2>2, <2>3 DEF TInv, TypeOK
<1>2. CASE Collect    BY <1>2 DEF Collect, CInv
<1>3. CASE WriteFile  BY <1>3 DEF WriteFile, CInv
<1>4. CASE PowerLoss
  <2>1. ~whole
    BY <1>4 DEF PowerLoss, CInv
  <2>2. QED  BY <1>4, <2>1 DEF PowerLoss, CInv
<1>5. CASE ~LoadPoiData /\ ~Collect /\ ~WriteFile /\ ~PowerLoss
  <2>1. /\ poi_info_file' = poi_info_file /\ found' = found /\ whole' = whole
        /\ server' = "write" => server = "write"
    BY <1>5 DEF Next, Prediction, PredictionCall, NothingDue, TakeNumber, SavePicture,
         WriteHistory, LoadIndex, StoreIndex, Main, OtherCommand, RarunCommand, ResetIndex,
         CountLines, SetsIndex, RescanCommand, Crash, Exits, Boot, Classify,
         Generator, NothingLabelled, KeyError, vars, disk, ghosts, Predicting, Commanded
  <2>2. retroactive_mode' => retroactive_mode /\ poi_data' = poi_data
    BY <1>5 DEF Next, Prediction, PredictionCall, NothingDue, TakeNumber, SavePicture,
         WriteHistory, LoadIndex, StoreIndex, Main, OtherCommand, RarunCommand, ResetIndex,
         CountLines, SetsIndex, RescanCommand, Crash, Exits, Boot, Classify,
         Generator, NothingLabelled, KeyError, vars, memory
  <2>3. retroactive_mode => server = "up"
    BY DEF TInv, PositiveIndex
  <2>4. QED  BY <2>1, <2>2, <2>3 DEF CInv, AllDrawn
<1>6. QED  BY <1>1, <1>2, <1>3, <1>4, <1>5

\* Once retroactive mode is on, everyone the last complete file was written
\* for is drawn with a time.
THEOREM EveryoneIsDrawn == Spec => []PoiComplete
<1>1. CInv => PoiComplete
  BY DEF CInv, PoiComplete, AllDrawn
<1>2. QED
  BY InitTypes, InitStored, InitPoi, InitComplete, StepTypes, StepStored, StepPoi,
     StepComplete, <1>1, PTL DEF Spec
=============================================================================
