------------------------- MODULE VideoPipelineProofs -------------------------
(***************************************************************************)
(* Proofs about VideoPipeline for every size of the ring, every number of  *)
(* threads and every bound.                                                *)
(***************************************************************************)
EXTENDS VideoPipeline, WellFoundedInduction, TLAPS

-----------------------------------------------------------------------------
(* Arithmetic of the ring.                                                 *)

\* Two numbers less than N apart have different remainders by N.
LEMMA ModDistinct ==
  ASSUME NEW N \in Nat \ {0}, NEW a \in Nat, NEW b \in Nat, a < b, b - a < N
  PROVE  a % N # b % N
<1> SUFFICES ASSUME a % N = b % N PROVE FALSE
  OBVIOUS
<1> DEFINE p == a \div N
           q == b \div N
<1>1. /\ p \in Int /\ q \in Int
      /\ a = N * p + (a % N) /\ b = N * q + (b % N)
  OBVIOUS
<1>2. b - a = N * (q - p)
  BY <1>1
<1>3. q - p \in Int
  BY <1>1
<1>4. q - p >= 1
  <2>1. CASE q - p <= 0
    BY <1>2, <1>3, <2>1
  <2> QED
    BY <2>1, <1>3
<1>5. N * (q - p) >= N
  BY <1>3, <1>4
<1> QED
  BY <1>2, <1>5

\* A number less than N away from a multiple of N is its own remainder.
LEMMA ModUnique ==
  ASSUME NEW N \in Nat \ {0}, NEW q \in Int, NEW r \in 0 .. N - 1
  PROVE  (N * q + r) % N = r
<1> DEFINE a == N * q + r
           p == a \div N
           s == a % N
<1>1. a \in Int
  OBVIOUS
<1>2. p \in Int /\ s \in 0 .. N - 1 /\ a = N * p + s
  BY <1>1
<1>3. N * (p - q) = r - s
  BY <1>2
<1> HIDE DEF a, p, s
<1>4. p - q \in Int
  BY <1>2
<1>5. p - q < 1
  <2>1. CASE p - q >= 1
    <3>1. N * (p - q) >= N
      BY <2>1, <1>4
    <3> QED
      BY <3>1, <1>2, <1>3
  <2> QED
    BY <2>1, <1>4
<1>6. p - q > -1
  <2>1. CASE p - q <= -1
    <3>1. N * (p - q) <= -N
      BY <2>1, <1>4
    <3> QED
      BY <3>1, <1>2, <1>3
  <2> QED
    BY <2>1, <1>4
<1>7. p - q = 0
  BY <1>4, <1>5, <1>6
<1>8. s = r
  BY <1>2, <1>3, <1>7
<1> QED
  BY <1>8 DEF s, a

\* Advancing an index by one and wrapping it keeps it a remainder.
LEMMA ModNext ==
  ASSUME NEW N \in Nat \ {0}, NEW a \in Nat
  PROVE  ((a % N) + 1) % N = (a + 1) % N
<1> DEFINE q == a \div N
           r == a % N
<1>1. q \in Int /\ r \in 0 .. N - 1 /\ a = N * q + r
  OBVIOUS
<1> HIDE DEF q, r
<1>2. CASE r < N - 1
  <2>1. r + 1 \in 0 .. N - 1 /\ a + 1 = N * q + (r + 1)
    BY <1>1, <1>2
  <2>2. (a + 1) % N = r + 1
    BY <2>1, <1>1, ModUnique
  <2>3. N * 0 + (r + 1) = r + 1
    BY <2>1
  <2>4. (r + 1) % N = r + 1
    BY <2>1, <2>3, ModUnique
  <2> QED
    BY <2>2, <2>4 DEF r
<1>3. CASE r = N - 1
  <2>1. q + 1 \in Int /\ N * (q + 1) = N * q + N
    BY <1>1
  <2>2. a + 1 = N * (q + 1) + 0 /\ r + 1 = N * 1 + 0 /\ 0 \in 0 .. N - 1
    BY <1>1, <1>3, <2>1
  <2>3. (a + 1) % N = 0
    BY <2>1, <2>2, ModUnique
  <2>4. (r + 1) % N = 0
    BY <2>2, ModUnique
  <2> QED
    BY <2>3, <2>4 DEF r
<1> QED
  BY <1>1, <1>2, <1>3

-----------------------------------------------------------------------------
(* Type correctness.                                                       *)

\* The capture thread is between finding a spare buffer and counting it used.
InBatch == capPC \in {"fill", "grab", "lost", "write", "count"}

\* TypeOK is inductive with the fact that the spare buffer that made the
\* capture thread start is still counted when it is taken off the count.
CountPositive == InBatch => buffer_count > 0
\* ... and with a busy main thread having a command to execute.
MsgKnown      == mainPC \notin {"epoll", "accept"} => msg \in Commands
TypeInv       == TypeOK /\ CountPositive /\ MsgKnown

USE PipelineAssumption DEF TID_CAPTURE, TID_FACE_DETECT, TID_FACE_RECOGNIZE1, TID_SENDER

LEMMA Constants ==
  /\ MJPEG_OUT_BUF_NR \in Nat \ {0} /\ MJPEG_OUT_BUF_NR >= 1
  /\ TID_NR - 1 \in Tids /\ TID_NR - 1 \in Stages /\ 0 \in Tids /\ 0 \notin Stages
  /\ \A t \in Stages : t \in Tids /\ t \in Int /\ t > 0 /\ t - 1 \in Tids /\ t - 1 # TID_NR - 1
  /\ \A t \in Tids : t \in Int /\ (t # 0 => t \in Stages)
  /\ \A t \in Tids : t # TID_NR - 1 => t + 1 \in Stages
  /\ NULL \notin Slots /\ 0 \in Slots
BY DEF Tids, Stages, Slots, NULL

LEMMA PointerTypes ==
  /\ Nothing \in Pointers
  /\ \A s \in Slots, n \in Nat : Picture(s, n) \in Pointers
  /\ \A c \in Commands, n \in Nat : Command(c, n) \in Pointers
BY DEF Nothing, Picture, Command, Pointers

LEMMA TypeInit == Init => TypeInv
<1> SUFFICES ASSUME Init PROVE TypeInv
  OBVIOUS
<1>1. ring \in [Slots -> Buffers]
  BY DEF Init, Buffers, Commands
<1>2. chan \in [Tids -> Seq(Pointers)]
  BY DEF Init
<1>3. held \in [Stages -> Pointers]
  BY PointerTypes DEF Init
<1>4. buffer_count \in Nat /\ ring_index \in Slots
  BY Constants DEF Init
<1> QED
  BY <1>1, <1>2, <1>3, <1>4
     DEF Init, TypeInv, TypeOK, CountPositive, MsgKnown, InBatch, Commands, CapPCs, MainPCs

\* The capture thread's steps.
LEMMA TypeCapture ==
  ASSUME TypeInv, Capture
  PROVE  TypeInv'
<1> USE DEF TypeInv, CountPositive, MsgKnown, InBatch, CapPCs
<1>1. CASE CaptureCommand
  <2>1. chan' \in [Tids -> Seq(Pointers)]
    BY <1>1, Constants DEF CaptureCommand, TypeOK
  <2>2. input_mode' \in {"camera", "file"}
    BY <1>1 DEF CaptureCommand, TypeOK, SourceOf
  <2> QED
    BY <1>1, <2>1, <2>2 DEF CaptureCommand, TypeOK, CaptureAt, CaptureGoes, mainVars
<1>2. CASE CaptureReturned
  <2>1. chan' \in [Tids -> Seq(Pointers)]
    BY <1>2, Constants DEF CaptureReturned, TypeOK
  <2> QED
    BY <1>2, <2>1 DEF CaptureReturned, TypeOK, CaptureAt, CaptureGoes, mainVars
<1>3. CASE CaptureCheckFlushing
  BY <1>3 DEF CaptureCheckFlushing, TypeOK, CaptureAt, CaptureGoes, CaptureSame, OthersSame, mainVars
<1>4. CASE CaptureCheckPort
  BY <1>4 DEF CaptureCheckPort, TypeOK, CaptureAt, CaptureGoes, CaptureSame, OthersSame, mainVars
<1>5. CASE CaptureLoop
  <2>1. \A b \in Buffers : BufferInit(b) \in Buffers
    BY DEF BufferInit, Buffers, TypeOK
  <2>2. ring' \in [Slots -> Buffers]
    BY <1>5, <2>1 DEF CaptureLoop, TypeOK
  <2> QED
    BY <1>5, <2>2 DEF CaptureLoop, Spare, TypeOK, CaptureAt, CaptureGoes, CaptureSame, OthersSame,
       mainVars
<1>6. CASE CaptureCamera
  BY <1>6 DEF CaptureCamera, TypeOK, CaptureAt, CaptureGoes, CaptureSame, OthersSame, mainVars
<1>7. CASE CaptureFill
  <2>1. written[0] + 1 \in Nat
    BY Constants DEF TypeOK
  <2>3. \A b \in Buffers : Filled(b) \in Buffers
    BY <2>1 DEF TypeOK, Filled, Buffers
  <2>2. ring' \in [Slots -> Buffers]
    BY <1>7, <2>3 DEF CaptureFill, Fill, TypeOK
  <2> QED
    BY <1>7, <2>2 DEF CaptureFill, Fill, TypeOK, CaptureAt, CaptureGoes, CaptureSame, OthersSame,
       mainVars
<1>8. CASE CaptureCrash
  BY <1>8 DEF CaptureCrash, TypeOK, CaptureAt, CaptureSame, OthersSame, mainVars
<1>9. CASE CaptureWrite
  <2>1. ring_index' \in Slots
    BY <1>9, Constants DEF CaptureWrite, NextIndex, TypeOK, Slots
  <2>2. Picture(ring_index, written[0] + 1) \in Pointers
    BY Constants, PointerTypes DEF TypeOK
  <2>3. chan' \in [Tids -> Seq(Pointers)]
    BY <1>9, <2>2, Constants DEF CaptureWrite, TypeOK
  <2> QED
    BY <1>9, <2>1, <2>3, Constants
       DEF CaptureWrite, TypeOK, CaptureAt, CaptureGoes, OthersSame, mainVars
<1>10. CASE CaptureCount
  BY <1>10 DEF CaptureCount, CountedOut, TypeOK, CaptureAt, CaptureGoes, OthersSame, mainVars
<1> QED
  BY <1>1, <1>2, <1>3, <1>4, <1>5, <1>6, <1>7, <1>8, <1>9, <1>10 DEF Capture

\* The stages' and the sender's steps.
LEMMA TypeStage ==
  ASSUME TypeInv, NEW t \in Stages, Stage(t)
  PROVE  TypeInv'
<1> USE DEF TypeInv, CountPositive, MsgKnown, InBatch
<1>1. ASSUME PassOn(t)
      PROVE  /\ chan' \in [Tids -> Seq(Pointers)]
             /\ held' \in [Stages -> Pointers]
             /\ written' \in [Tids -> Nat]
  <2>1. t \in Tids /\ held[t] \in Pointers /\ chan[t] \in Seq(Pointers) /\ written[t] \in Nat
    BY Constants DEF TypeOK
  <2>2. Append(chan[t], held[t]) \in Seq(Pointers)
    BY <2>1
  <2> QED
    BY <1>1, <2>1, <2>2, PointerTypes DEF PassOn, TypeOK
<1>2. CASE StageTake(t)
  <2>1. Head(chan[t - 1]) \in Pointers /\ Tail(chan[t - 1]) \in Seq(Pointers)
    <3>1. chan[t - 1] \in Seq(Pointers) /\ chan[t - 1] # <<>>
      BY <1>2, Constants DEF StageTake, TypeOK
    <3> QED
      BY <3>1
  <2>2. chan' \in [Tids -> Seq(Pointers)] /\ held' \in [Stages -> Pointers]
    BY <1>2, <2>1 DEF StageTake, TypeOK
  <2> QED
    BY <1>2, <2>2 DEF StageTake, TypeOK, capVars, mainVars
<1>3. CASE StagePass(t)
  <2>1. \A b \in Buffers : Work(t, b) \in Buffers
    BY DEF Work, Detected, Aligned, Embedded, Buffers
  <2>2. ring' \in [Slots -> Buffers]
    BY <1>3, <2>1 DEF StagePass, TypeOK
  <2> QED
    BY <1>1, <1>3, <2>2 DEF StagePass, TypeOK, capVars, mainVars
<1>4. CASE t = TID_SENDER /\ SenderSkip
  BY <1>1, <1>4 DEF SenderSkip, SenderSame, TypeOK, capVars, mainVars
<1>5. CASE t = TID_SENDER /\ SenderStart
  BY <1>5 DEF SenderStart, SenderSame, TypeOK, capVars, mainVars
<1>6. CASE t = TID_SENDER /\ SenderDone
  <2>1. held[t].frame \in Nat
    BY DEF TypeOK, Pointers
  <2> QED
    BY <1>1, <1>6, <2>1 DEF SenderDone, SenderSame, TypeOK, capVars, mainVars
<1>7. CASE StageThrows(t)
  BY <1>7 DEF StageThrows, TypeOK, capVars, mainVars
<1> QED
  BY <1>2, <1>3, <1>4, <1>5, <1>6, <1>7 DEF Stage

\* The main thread's steps.
LEMMA TypeMain ==
  ASSUME TypeInv, Main
  PROVE  TypeInv'
<1> USE DEF TypeInv, CountPositive, MsgKnown, InBatch, MainPCs
<1>1. ASSUME NEW c \in Commands, SendCmd(c) PROVE chan' \in [Tids -> Seq(Pointers)]
  BY <1>1, Constants, PointerTypes DEF SendCmd, TypeOK
<1>2. CASE Accept \/ Accepted
  <2>1. CASE Accept
    BY <2>1 DEF Accept, MainAt, TypeOK, MainSame, capVars
  <2>2. CASE Accepted
    <3>1. chan' \in [Tids -> Seq(Pointers)]
      <4>1. CASE SendCmd("TEST_RUN")
        BY <1>1, <4>1 DEF Commands
      <4>2. CASE UNCHANGED chan
        BY <4>2 DEF TypeOK
      <4> QED
        BY <2>2, <4>1, <4>2 DEF Accepted
    <3> QED
      BY <2>2, <3>1 DEF Accepted, MainAt, TypeOK, MainSame, capVars
  <2> QED
    BY <1>2, <2>1, <2>2
<1>3. CASE ClientGone
  BY <1>3 DEF ClientGone, TypeOK, MainSame, capVars, mainVars
<1>4. ASSUME NEW c \in ClientCommands, ClientMsg(c) PROVE TypeInv'
  BY <1>4, PipelineAssumption DEF ClientMsg, MainAt, TypeOK, MainSame, capVars, mainVars
<1>5. CASE FlushSeen
  BY <1>5 DEF FlushSeen, MainAt, TypeOK, MainSame, capVars, mainVars
<1>6. CASE FlushEnd
  <2>1. ring' \in [Slots -> Buffers]
    BY <1>6 DEF FlushEnd, TypeOK, Buffers
  <2>2. retroactive_mode' \in BOOLEAN
    <3>1. (msg = "RARUN") \in BOOLEAN
      OBVIOUS
    <3> QED
      BY <1>6, <3>1 DEF FlushEnd, TypeOK
  <2> QED
    BY <1>6, <2>1, <2>2 DEF FlushEnd, MainAt, TypeOK, capVars, mainVars
<1>7. CASE MainCamera
  BY <1>7 DEF MainCamera, MainAt, TypeOK, CapPCs, MainSame, capVars, mainVars
<1>8. CASE MainMode
  <2>1. msg \in Commands
    BY <1>8 DEF MainMode, MainAt
  <2> QED
    BY <1>8, <2>1 DEF MainMode, TypeOK, MainSame, capVars, mainVars
<1>9. CASE MainPost
  <2>1. msg \in Commands
    BY <1>9 DEF MainPost, MainAt
  <2> QED
    BY <1>1, <1>9, <2>1 DEF MainPost, TypeOK, MainSame, capVars, mainVars
<1> QED
  BY <1>2, <1>3, <1>4, <1>5, <1>6, <1>7, <1>8, <1>9 DEF Main, Handle

LEMMA TypeNext == TypeInv /\ [Next]_vars => TypeInv'
<1> SUFFICES ASSUME TypeInv, [Next]_vars PROVE TypeInv'
  OBVIOUS
<1>1. CASE Capture
  BY <1>1, TypeCapture
<1>2. ASSUME NEW t \in Stages, Stage(t) PROVE TypeInv'
  BY <1>2, TypeStage
<1>3. CASE Main
  BY <1>3, TypeMain
<1>4. CASE Ended \/ UNCHANGED vars
  BY <1>4 DEF Ended, vars, capVars, mainVars, TypeInv, TypeOK, CountPositive, MsgKnown, InBatch
<1> QED
  BY <1>1, <1>2, <1>3, <1>4 DEF Next

\* Every state of the server is well typed: in particular ring_index always
\* names a buffer and buffer_count never goes below zero.
THEOREM TypeCorrect == Spec => []TypeOK
<1>1. TypeInv => TypeOK
  BY DEF TypeInv
<1> QED
  BY <1>1, TypeInit, TypeNext, PTL DEF Spec

-----------------------------------------------------------------------------
(* Where the pictures are.  Picture n lives in slot (n - 1) % N.  The pair *)
(* between two stages carries, in order, exactly the pictures the one has  *)
(* written and the other has not yet read; the pair back to the capture    *)
(* thread carries increasing pictures, mixed with commands.                *)

SlotOf(n) == (n - 1) % MJPEG_OUT_BUF_NR
Numbered(n) == Picture(SlotOf(n), n)

Carries(q, lo, hi) ==
  /\ Len(q) = hi - lo
  /\ \A j \in 1 .. Len(q) : q[j] = Numbered(lo + j)

Returns(q, lo, hi) ==
  \A j \in 1 .. Len(q) :
    /\ q[j].frame <= hi
    /\ q[j].output # NULL => q[j].output = SlotOf(q[j].frame) /\ lo < q[j].frame
    /\ \A k \in 1 .. Len(q) : j < k =>
         q[j].frame <= q[k].frame /\ (q[k].output # NULL => q[j].frame < q[k].frame)

InHand(t) == IF held[t] = Nothing THEN 0 ELSE 1

IndexInv   == ring_index = written[0] % MJPEG_OUT_BUF_NR
OrderInv   == \A t \in Tids, u \in Stages : t < u => written[u] + InHand(u) <= written[t]
HeldInv    == \A t \in Stages : Busy(t) => held[t] = Numbered(written[t] + 1)
ChanInv    == \A t \in Stages : Carries(chan[t - 1], written[t] + InHand(t), written[t - 1])
ReturnInv  == Returns(chan[TID_NR - 1], returned, written[TID_NR - 1])
ReturnedInv == returned <= written[TID_NR - 1]
SendingInv == sending => Busy(TID_NR - 1)

PipeInv == /\ CountAgrees /\ IndexInv /\ OrderInv /\ HeldInv
           /\ ChanInv /\ ReturnInv /\ ReturnedInv /\ SendingInv

LEMMA SlotType == \A n \in Nat : n > 0 => SlotOf(n) \in Slots /\ SlotOf(n) # NULL
BY Constants DEF SlotOf, Slots, NULL

LEMMA PictureFacts ==
  ASSUME NEW n \in Nat, n > 0
  PROVE  /\ Numbered(n) \in Pointers /\ Numbered(n) # Nothing
         /\ Numbered(n).output = SlotOf(n) /\ Numbered(n).frame = n
         /\ Numbered(n).output # NULL
BY SlotType, PointerTypes DEF Numbered, Picture, Nothing

LEMMA AppendFacts ==
  ASSUME NEW S, NEW q \in Seq(S), NEW e \in S
  PROVE  /\ Append(q, e) \in Seq(S) /\ Len(Append(q, e)) = Len(q) + 1
         /\ \A j \in 1 .. Len(q) : Append(q, e)[j] = q[j]
         /\ Append(q, e)[Len(q) + 1] = e
OBVIOUS

LEMMA TailFacts ==
  ASSUME NEW S, NEW q \in Seq(S), q # <<>>
  PROVE  /\ Tail(q) \in Seq(S) /\ Len(Tail(q)) = Len(q) - 1 /\ Len(q) >= 1
         /\ Head(q) = q[1] /\ Head(q) \in S
         /\ \A j \in 1 .. Len(q) - 1 : Tail(q)[j] = q[j + 1]
OBVIOUS

LEMMA FrameType ==
  ASSUME NEW q \in Seq(Pointers)
  PROVE  Len(q) \in Nat /\ \A j \in 1 .. Len(q) : q[j] \in Pointers /\ q[j].frame \in Nat
<1>1. Len(q) \in Nat /\ \A j \in 1 .. Len(q) : q[j] \in Pointers
  OBVIOUS
<1> QED
  BY <1>1 DEF Pointers

\* Writing the next picture, and reading the oldest, between two stages.
LEMMA CarriesAppend ==
  ASSUME NEW q \in Seq(Pointers), NEW lo \in Nat, NEW hi \in Nat, Carries(q, lo, hi)
  PROVE  Carries(Append(q, Numbered(hi + 1)), lo, hi + 1)
<1>1. Numbered(hi + 1) \in Pointers
  BY PictureFacts
<1> QED
  BY <1>1, AppendFacts DEF Carries

LEMMA CarriesTail ==
  ASSUME NEW q \in Seq(Pointers), NEW lo \in Nat, NEW hi \in Nat, Carries(q, lo, hi), q # <<>>
  PROVE  Head(q) = Numbered(lo + 1) /\ Carries(Tail(q), lo + 1, hi) /\ lo < hi
<1>1. Head(q) = Numbered(lo + 1) /\ lo < hi
  BY TailFacts DEF Carries
<1>2. \A j \in 1 .. Len(q) - 1 : q[j + 1] = Numbered(lo + 1 + j)
  BY TailFacts DEF Carries
<1> QED
  BY <1>1, <1>2, TailFacts DEF Carries

\* Writing a picture or a command to the capture thread, and reading one.
LEMMA ReturnsPicture ==
  ASSUME NEW q \in Seq(Pointers), NEW lo \in Nat, NEW hi \in Nat, Returns(q, lo, hi), lo <= hi
  PROVE  Returns(Append(q, Numbered(hi + 1)), lo, hi + 1)
<1> DEFINE p == Numbered(hi + 1)
           r == Append(q, p)
<1>1. p \in Pointers /\ p.output = SlotOf(hi + 1) /\ p.frame = hi + 1
  BY PictureFacts
<1>2. /\ Len(r) = Len(q) + 1 /\ r[Len(q) + 1] = p
      /\ \A j \in 1 .. Len(q) : r[j] = q[j] /\ q[j].frame \in Nat
  BY <1>1, AppendFacts, FrameType
<1> HIDE DEF p, r
<1> QED
  BY <1>1, <1>2 DEF Returns, p, r

LEMMA ReturnsCommand ==
  ASSUME NEW q \in Seq(Pointers), NEW lo \in Nat, NEW hi \in Nat, Returns(q, lo, hi),
         NEW c \in Commands
  PROVE  Returns(Append(q, Command(c, hi)), lo, hi)
<1> DEFINE p == Command(c, hi)
           r == Append(q, p)
<1>1. p \in Pointers /\ p.output = NULL /\ p.frame = hi
  BY PointerTypes DEF Command
<1>2. /\ Len(r) = Len(q) + 1 /\ r[Len(q) + 1] = p
      /\ \A j \in 1 .. Len(q) : r[j] = q[j] /\ q[j].frame \in Nat
  BY <1>1, AppendFacts, FrameType
<1> HIDE DEF p, r
<1> QED
  BY <1>1, <1>2 DEF Returns, p, r

LEMMA ReturnsTail ==
  ASSUME NEW q \in Seq(Pointers), NEW lo \in Nat, NEW hi \in Nat, Returns(q, lo, hi), q # <<>>
  PROVE  /\ Returns(Tail(q), lo, hi)
         /\ Head(q).output # NULL => lo < hi /\ Returns(Tail(q), lo + 1, hi)
<1> DEFINE r == Tail(q)
<1>1. /\ Len(r) = Len(q) - 1 /\ Len(q) >= 1 /\ Len(q) \in Nat
      /\ \A j \in 1 .. Len(r) : r[j] = q[j + 1] /\ j + 1 \in 1 .. Len(q)
      /\ Head(q) = q[1]
      /\ \A j \in 1 .. Len(q) : q[j].frame \in Nat
  BY TailFacts, FrameType
<1> HIDE DEF r
<1>2. Returns(r, lo, hi)
  <2> SUFFICES ASSUME NEW j \in 1 .. Len(r)
               PROVE  /\ r[j].frame <= hi
                      /\ r[j].output # NULL => r[j].output = SlotOf(r[j].frame) /\ lo < r[j].frame
                      /\ \A k \in 1 .. Len(r) : j < k =>
                           /\ r[j].frame <= r[k].frame
                           /\ r[k].output # NULL => r[j].frame < r[k].frame
    BY DEF Returns
  <2>1. r[j] = q[j + 1] /\ j + 1 \in 1 .. Len(q)
    BY <1>1
  <2>2. \A k \in 1 .. Len(r) : j < k => r[k] = q[k + 1] /\ k + 1 \in 1 .. Len(q) /\ j + 1 < k + 1
    BY <1>1
  <2> QED
    BY <2>1, <2>2 DEF Returns
<1>3. ASSUME Head(q).output # NULL
      PROVE  lo < hi /\ Returns(r, lo + 1, hi)
  <2>1. lo < q[1].frame /\ q[1].frame <= hi
    BY <1>1, <1>3 DEF Returns
  <2>2. \A j \in 1 .. Len(r) : r[j].output # NULL => lo + 1 < r[j].frame
    BY <1>1, <2>1 DEF Returns
  <2> QED
    BY <1>1, <1>2, <2>1, <2>2 DEF Returns
<1> QED
  BY <1>2, <1>3 DEF r

-----------------------------------------------------------------------------
(* The pipeline invariant is kept by every step.                           *)

LEMMA PipeInit == Init => PipeInv
<1> SUFFICES ASSUME Init PROVE PipeInv
  OBVIOUS
<1>1. \A t \in Tids : chan[t] = <<>> /\ written[t] = 0
  BY DEF Init
<1>2. \A t \in Stages : held[t] = Nothing /\ InHand(t) = 0 /\ ~Busy(t)
  BY DEF Init, InHand, Busy
<1>3. 0 % MJPEG_OUT_BUF_NR = 0
  BY Constants
<1> QED
  BY <1>1, <1>2, <1>3, Constants
     DEF Init, PipeInv, CountAgrees, IndexInv, OrderInv, HeldInv, ChanInv, ReturnInv,
         ReturnedInv, SendingInv, Carries, Returns

\* A step that moves no pointer and leaves the capture thread as far as it was.
LEMMA PipeQuiet ==
  ASSUME PipeInv, UNCHANGED <<chan, held, written, returned, ring_index, buffer_count>>,
         capPC' = "count" <=> capPC = "count",
         sending' => Busy(TID_NR - 1)
  PROVE  PipeInv'
BY DEF PipeInv, CountAgrees, IndexInv, OrderInv, HeldInv, ChanInv, ReturnInv,
       ReturnedInv, SendingInv, Busy, InHand

\* A step that changes only the pair into the capture thread.
LEMMA PipeReturn ==
  ASSUME TypeInv, PipeInv, UNCHANGED <<held, written, ring_index, sending>>,
         NEW q, chan' = [chan EXCEPT ![TID_NR - 1] = q],
         Returns(q, returned', written[TID_NR - 1]), returned' <= written[TID_NR - 1],
         CountAgrees'
  PROVE  PipeInv'
<1>1. chan'[TID_NR - 1] = q /\ \A t \in Stages : chan'[t - 1] = chan[t - 1]
  BY Constants DEF TypeInv, TypeOK
<1> QED
  BY <1>1 DEF PipeInv, IndexInv, OrderInv, HeldInv, ChanInv, ReturnInv,
       ReturnedInv, SendingInv, Busy, InHand

LEMMA PipeSendCmd ==
  ASSUME TypeInv, PipeInv, NEW c \in Commands, SendCmd(c),
         UNCHANGED <<held, written, returned, ring_index, buffer_count, capPC, sending>>
  PROVE  PipeInv'
<1>1. /\ chan[TID_NR - 1] \in Seq(Pointers) /\ written[TID_NR - 1] \in Nat /\ returned \in Nat
  BY Constants DEF TypeInv, TypeOK
<1>2. Returns(Append(chan[TID_NR - 1], Command(c, written[TID_NR - 1])),
              returned, written[TID_NR - 1])
  BY <1>1, ReturnsCommand DEF PipeInv, ReturnInv
<1> QED
  BY <1>2, PipeReturn DEF SendCmd, PipeInv, CountAgrees, ReturnedInv

LEMMA PipeCapture ==
  ASSUME TypeInv, PipeInv, Capture
  PROVE  PipeInv'
<1>0. /\ chan[TID_NR - 1] \in Seq(Pointers) /\ written[TID_NR - 1] \in Nat /\ returned \in Nat
      /\ written[0] \in Nat /\ chan[0] \in Seq(Pointers) /\ buffer_count \in Nat
  BY Constants DEF TypeInv, TypeOK
<1>1. CASE CaptureCommand
  <2>1. Returns(Tail(chan[TID_NR - 1]), returned, written[TID_NR - 1])
    BY <1>0, <1>1, ReturnsTail DEF CaptureCommand, PipeInv, ReturnInv
  <2> QED
    BY <1>1, <2>1, PipeReturn
       DEF CaptureCommand, CaptureAt, CaptureGoes, PipeInv, CountAgrees, ReturnedInv
<1>2. CASE CaptureReturned
  <2>1. /\ returned < written[TID_NR - 1]
        /\ Returns(Tail(chan[TID_NR - 1]), returned + 1, written[TID_NR - 1])
    BY <1>0, <1>2, ReturnsTail DEF CaptureReturned, PipeInv, ReturnInv
  <2>2. CountAgrees'
    BY <1>0, <1>2 DEF CaptureReturned, CaptureAt, CaptureGoes, PipeInv, CountAgrees
  <2> DEFINE q == Tail(chan[TID_NR - 1])
  <2>3. /\ chan' = [chan EXCEPT ![TID_NR - 1] = q]
        /\ UNCHANGED <<held, written, ring_index, sending>>
        /\ returned' = returned + 1
    BY <1>2 DEF CaptureReturned
  <2>4. Returns(q, returned', written[TID_NR - 1]) /\ returned' <= written[TID_NR - 1]
    BY <1>0, <2>1, <2>3
  <2> HIDE DEF q
  <2> QED
    BY <2>2, <2>3, <2>4, PipeReturn
<1>3. CASE CaptureCheckFlushing \/ CaptureCheckPort \/ CaptureCamera
  BY <1>3, PipeQuiet
     DEF CaptureCheckFlushing, CaptureCheckPort, CaptureCamera, CaptureAt, CaptureGoes,
         CaptureSame, OthersSame, PipeInv, SendingInv
<1>4. CASE CaptureLoop
  BY <1>4, PipeQuiet
     DEF CaptureLoop, CaptureAt, CaptureGoes, CaptureSame, OthersSame, PipeInv, SendingInv
<1>5. CASE CaptureFill \/ CaptureCrash
  BY <1>5, PipeQuiet
     DEF CaptureFill, Fill, CaptureCrash, CaptureAt, CaptureGoes, CaptureSame, OthersSame,
         PipeInv, SendingInv
<1>6. CASE CaptureCount
  <2>1. CountAgrees'
    BY <1>0, <1>6 DEF CaptureCount, CountedOut, CaptureAt, CaptureGoes, PipeInv, CountAgrees
  <2> QED
    BY <1>6, <2>1
       DEF CaptureCount, CountedOut, OthersSame, PipeInv, IndexInv, OrderInv, HeldInv, ChanInv, ReturnInv,
           ReturnedInv, SendingInv, Busy, InHand
<1>7. CASE CaptureWrite
  <2> DEFINE w == written[0]
  <2>1. Picture(ring_index, w + 1) = Numbered(w + 1)
    BY <1>0 DEF Numbered, SlotOf, PipeInv, IndexInv
  <2>2. /\ chan' = [chan EXCEPT ![0] = Append(chan[0], Numbered(w + 1))]
        /\ written' = [written EXCEPT ![0] = w + 1]
        /\ UNCHANGED <<held, buffer_count, returned, sending>>
    BY <1>7, <2>1 DEF CaptureWrite, OthersSame
  <2>3. /\ written'[0] = w + 1 /\ \A t \in Stages : written'[t] = written[t]
        /\ chan'[0] = Append(chan[0], Numbered(w + 1))
        /\ \A t \in Stages : chan'[t] = chan[t]
        /\ \A t \in Stages : InHand(t)' = InHand(t) /\ Busy(t)' = Busy(t)
    BY <2>2, Constants DEF TypeInv, TypeOK, InHand, Busy
  <2>4. CountAgrees'
    BY <1>0, <1>7, <2>2, <2>3 DEF CaptureWrite, CaptureAt, CaptureGoes, PipeInv, CountAgrees
  <2>5. IndexInv'
    BY <1>0, <1>7, <2>3, Constants, ModNext DEF CaptureWrite, NextIndex, PipeInv, IndexInv
  <2>6. OrderInv'
    <3> SUFFICES ASSUME NEW t \in Tids, NEW u \in Stages, t < u
                 PROVE  written'[u] + InHand(u)' <= written'[t]
      BY DEF OrderInv
    <3>1. written[u] + InHand(u) <= written[t] /\ written[u] + InHand(u) \in Nat
      BY DEF PipeInv, OrderInv, TypeInv, TypeOK, InHand, Stages
    <3>2. written'[t] \in {written[t], w + 1} /\ (t = 0 => written'[t] = w + 1)
      BY <2>3, Constants
    <3>3. CASE t = 0
      BY <1>0, <2>3, <3>1, <3>2, <3>3
    <3>4. CASE t # 0
      BY <2>3, <3>1, <3>4, Constants
    <3> QED
      BY <3>3, <3>4
  <2>7. HeldInv'
    BY <2>2, <2>3 DEF PipeInv, HeldInv, Busy
  <2>8. ChanInv'
    <3> SUFFICES ASSUME NEW t \in Stages
                 PROVE  Carries(chan'[t - 1], written'[t] + InHand(t)', written'[t - 1])
      BY DEF ChanInv
    <3>1. CASE t = 1
      <4>1. Carries(chan[0], written[1] + InHand(1), w) /\ written[1] + InHand(1) \in Nat
        BY <3>1 DEF PipeInv, ChanInv, TypeInv, TypeOK, InHand, Stages
      <4>2. Carries(Append(chan[0], Numbered(w + 1)), written[1] + InHand(1), w + 1)
        BY <1>0, <4>1, CarriesAppend
      <4>3. t - 1 = 0
        BY <3>1
      <4>4. written'[t] = written[1] /\ InHand(t)' = InHand(1)
        BY <2>3, <3>1
      <4> QED
        BY <2>3, <4>2, <4>3, <4>4
    <3>2. CASE t # 1
      <4>1. t - 1 \in Stages
        BY <3>2 DEF Stages, Tids
      <4> QED
        BY <2>3, <4>1 DEF PipeInv, ChanInv
    <3> QED
      BY <3>1, <3>2
  <2>9. ReturnInv' /\ ReturnedInv' /\ SendingInv'
    BY <2>2, <2>3, Constants DEF PipeInv, ReturnInv, ReturnedInv, SendingInv
  <2> QED
    BY <2>4, <2>5, <2>6, <2>7, <2>8, <2>9 DEF PipeInv
<1> QED
  BY <1>1, <1>2, <1>3, <1>4, <1>5, <1>6, <1>7 DEF Capture

LEMMA HandType ==
  ASSUME TypeInv, NEW t \in Stages
  PROVE  /\ t \in Tids /\ written[t] \in Nat
         /\ InHand(t) \in {0, 1} /\ written[t] + InHand(t) \in Nat
<1>1. t \in Tids /\ written[t] \in Nat
  BY Constants DEF TypeInv, TypeOK
<1>2. InHand(t) \in {0, 1}
  BY DEF InHand
<1> QED
  BY <1>1, <1>2

\* A stage reads the oldest picture of the pair before it.
LEMMA PipeTake ==
  ASSUME TypeInv, PipeInv, NEW t \in Stages, StageTake(t)
  PROVE  PipeInv'
<1> DEFINE q == chan[t - 1]
           n == written[t] + 1
<1>1. /\ t \in Tids /\ t - 1 \in Tids /\ t - 1 # TID_NR - 1 /\ t \in Int
      /\ q \in Seq(Pointers) /\ q # <<>> /\ written[t] \in Nat /\ written[t - 1] \in Nat
      /\ held[t] = Nothing /\ InHand(t) = 0
  BY Constants DEF StageTake, TypeInv, TypeOK, Busy, InHand
<1>2. Carries(q, written[t], written[t - 1])
  BY <1>1 DEF PipeInv, ChanInv
<1>3. Head(q) = Numbered(n) /\ Carries(Tail(q), n, written[t - 1]) /\ n <= written[t - 1]
  BY <1>1, <1>2, CarriesTail
<1>4. Numbered(n) # Nothing
  BY <1>1, PictureFacts
<1>5. /\ held' = [held EXCEPT ![t] = Numbered(n)]
      /\ chan' = [chan EXCEPT ![t - 1] = Tail(q)]
      /\ UNCHANGED <<written, returned, ring_index, buffer_count, capPC, sending>>
  BY <1>3 DEF StageTake, capVars
<1>6. /\ held'[t] = Numbered(n) /\ InHand(t)' = 1 /\ Busy(t)'
      /\ \A u \in Stages : u # t => held'[u] = held[u]
  BY <1>4, <1>5 DEF TypeInv, TypeOK, InHand, Busy
<1>7. \A u \in Stages : u # t => InHand(u)' = InHand(u) /\ Busy(u)' = Busy(u)
  BY <1>6 DEF InHand, Busy
<1>8. chan'[t - 1] = Tail(q) /\ \A u \in Tids : u # t - 1 => chan'[u] = chan[u]
  BY <1>1, <1>5 DEF TypeInv, TypeOK
<1>9. OrderInv'
  <2> SUFFICES ASSUME NEW v \in Tids, NEW u \in Stages, v < u
               PROVE  written[u] + InHand(u)' <= written[v]
    BY <1>5 DEF OrderInv
  <2>1. CASE u # t
    BY <1>7, <2>1 DEF PipeInv, OrderInv
  <2>2. CASE u = t /\ v = t - 1
    BY <1>3, <1>6, <2>2
  <2>3. CASE u = t /\ v # t - 1
    <3>1. v < t - 1 /\ t - 1 \in Stages /\ v \in Int
      BY <1>1, <2>3, Constants DEF Tids, Stages
    <3>2. written[t - 1] + InHand(t - 1) <= written[v] /\ InHand(t - 1) \in 0 .. 1
      BY <3>1 DEF PipeInv, OrderInv, InHand
    <3>3. written[v] \in Nat
      BY DEF TypeInv, TypeOK
    <3> QED
      BY <1>1, <1>3, <1>6, <2>3, <3>2, <3>3
  <2> QED
    BY <2>1, <2>2, <2>3
<1>10. HeldInv'
  BY <1>5, <1>6, <1>7 DEF PipeInv, HeldInv
<1>11. ChanInv'
  <2> SUFFICES ASSUME NEW u \in Stages
               PROVE  Carries(chan'[u - 1], written[u] + InHand(u)', written[u - 1])
    BY <1>5 DEF ChanInv
  <2>1. CASE u = t
    BY <1>3, <1>6, <1>8, <2>1
  <2>2. CASE u # t
    <3>1. u - 1 # t - 1 /\ u - 1 \in Tids
      BY <1>1, <2>2, Constants
    <3> QED
      BY <1>7, <1>8, <2>2, <3>1 DEF PipeInv, ChanInv
  <2> QED
    BY <2>1, <2>2
<1>12. ReturnInv' /\ SendingInv'
  <2>1. chan'[TID_NR - 1] = chan[TID_NR - 1]
    BY <1>1, <1>8, Constants
  <2> QED
    BY <1>5, <1>6, <1>7, <2>1, Constants DEF PipeInv, ReturnInv, SendingInv
<1> QED
  BY <1>5, <1>9, <1>10, <1>11, <1>12 DEF PipeInv, CountAgrees, IndexInv, ReturnedInv

\* A thread passes on the picture it holds.
LEMMA PipePass ==
  ASSUME TypeInv, PipeInv, NEW t \in Stages, Busy(t), PassOn(t),
         UNCHANGED <<returned, ring_index, buffer_count, capPC>>,
         sending' => sending /\ t # TID_NR - 1
  PROVE  PipeInv'
<1> DEFINE q == chan[t]
           n == written[t] + 1
<1>1. /\ t \in Tids /\ t \in Int /\ t > 0 /\ q \in Seq(Pointers) /\ written[t] \in Nat
      /\ held[t] = Numbered(n) /\ InHand(t) = 1 /\ returned \in Nat
  BY Constants DEF TypeInv, TypeOK, PipeInv, HeldInv, Busy, InHand
<1>2. /\ held' = [held EXCEPT ![t] = Nothing]
      /\ chan' = [chan EXCEPT ![t] = Append(q, Numbered(n))]
      /\ written' = [written EXCEPT ![t] = n]
  BY <1>1 DEF PassOn
<1>3. /\ held'[t] = Nothing /\ InHand(t)' = 0 /\ ~Busy(t)' /\ written'[t] = n
      /\ chan'[t] = Append(q, Numbered(n))
      /\ \A u \in Stages : u # t => held'[u] = held[u]
      /\ \A u \in Tids : u # t => written'[u] = written[u] /\ chan'[u] = chan[u]
  BY <1>1, <1>2 DEF TypeInv, TypeOK, InHand, Busy
<1>4. \A u \in Stages : u # t => InHand(u)' = InHand(u) /\ Busy(u)' = Busy(u)
  BY <1>3 DEF InHand, Busy
<1>5. \A u \in Stages : written'[u] + InHand(u)' = written[u] + InHand(u)
  <2> SUFFICES ASSUME NEW u \in Stages
               PROVE  written'[u] + InHand(u)' = written[u] + InHand(u)
    OBVIOUS
  <2>1. CASE u = t
    BY <1>1, <1>3, <2>1
  <2>2. CASE u # t
    BY <1>3, <1>4, <2>2, HandType
  <2> QED
    BY <2>1, <2>2
<1>6. OrderInv'
  <2> SUFFICES ASSUME NEW v \in Tids, NEW u \in Stages, v < u
               PROVE  written[u] + InHand(u) <= written'[v]
    BY <1>5 DEF OrderInv
  <2>1. written[u] + InHand(u) <= written[v] /\ written[u] + InHand(u) \in Nat
    BY HandType DEF PipeInv, OrderInv
  <2>2. written[v] \in Nat /\ written'[v] \in {written[v], written[v] + 1}
    BY <1>1, <1>3 DEF TypeInv, TypeOK
  <2> QED
    BY <2>1, <2>2
<1>7. HeldInv'
  BY <1>3, <1>4, Constants DEF PipeInv, HeldInv
<1>8. ChanInv'
  <2> SUFFICES ASSUME NEW u \in Stages
               PROVE  Carries(chan'[u - 1], written[u] + InHand(u), written'[u - 1])
    BY <1>5 DEF ChanInv
  <2>1. Carries(chan[u - 1], written[u] + InHand(u), written[u - 1])
    BY DEF PipeInv, ChanInv
  <2>2. CASE u - 1 = t
    <3>1. written[u] + InHand(u) \in Nat
      BY HandType
    <3>2. Carries(Append(q, Numbered(n)), written[u] + InHand(u), n)
      BY <1>1, <2>1, <2>2, <3>1, CarriesAppend
    <3> QED
      BY <1>3, <2>2, <3>2
  <2>3. CASE u - 1 # t
    BY <1>3, <2>1, <2>3, Constants
  <2> QED
    BY <2>2, <2>3
<1>9. ReturnInv' /\ ReturnedInv'
  <2>1. CASE t = TID_NR - 1
    <3>1. Returns(q, returned, written[t]) /\ returned <= written[t]
      BY <2>1 DEF PipeInv, ReturnInv, ReturnedInv
    <3>2. Returns(Append(q, Numbered(n)), returned, n)
      BY <1>1, <3>1, ReturnsPicture
    <3>3. chan'[TID_NR - 1] = Append(q, Numbered(n)) /\ written'[TID_NR - 1] = n
      BY <1>3, <2>1
    <3>4. returned' = returned /\ returned <= n
      BY <1>1, <3>1
    <3> QED
      BY <3>2, <3>3, <3>4 DEF ReturnInv, ReturnedInv
  <2>2. CASE t # TID_NR - 1
    BY <1>3, <2>2, Constants DEF PipeInv, ReturnInv, ReturnedInv
  <2> QED
    BY <2>1, <2>2
<1>10. SendingInv'
  BY <1>4, Constants DEF PipeInv, SendingInv
<1>11. CountAgrees' /\ IndexInv'
  <2>1. written'[0] = written[0]
    BY <1>1, <1>3, Constants
  <2> QED
    BY <2>1 DEF PipeInv, CountAgrees, IndexInv
<1> QED
  BY <1>6, <1>7, <1>8, <1>9, <1>10, <1>11 DEF PipeInv

LEMMA PipeStage ==
  ASSUME TypeInv, PipeInv, NEW t \in Stages, Stage(t)
  PROVE  PipeInv'
<1>1. CASE StageTake(t)
  BY <1>1, PipeTake
<1>2. CASE StagePass(t)
  BY <1>2, PipePass DEF StagePass, capVars
<1>3. CASE t = TID_SENDER /\ SenderSkip
  BY <1>3, PipePass DEF SenderSkip, SenderBusy, SenderSame, capVars
<1>4. CASE t = TID_SENDER /\ SenderStart
  BY <1>4, PipeQuiet DEF SenderStart, SenderBusy, SenderSame, capVars
<1>5. CASE t = TID_SENDER /\ SenderDone
  BY <1>5, PipePass DEF SenderDone, SenderBusy, SenderSame, capVars
<1>6. CASE StageThrows(t)
  BY <1>6, PipeQuiet DEF StageThrows, capVars, PipeInv, SendingInv
<1> QED
  BY <1>1, <1>2, <1>3, <1>4, <1>5, <1>6 DEF Stage

LEMMA PipeMain ==
  ASSUME TypeInv, PipeInv, Main
  PROVE  PipeInv'
<1>1. ASSUME NEW c \in ClientCommands, ClientMsg(c) PROVE PipeInv'
  BY <1>1, PipeQuiet DEF ClientMsg, MainSame, capVars, PipeInv, SendingInv
<1>2. CASE Accept \/ Accepted
  <2>1. "TEST_RUN" \in Commands
    BY DEF Commands
  <2> QED
    BY <1>2, <2>1, PipeQuiet, PipeSendCmd
       DEF Accept, Accepted, MainSame, capVars, PipeInv, SendingInv
<1>3. CASE ClientGone
  BY <1>3, PipeQuiet DEF ClientGone, MainSame, capVars, PipeInv, SendingInv
<1>4. CASE FlushSeen
  BY <1>4, PipeQuiet DEF FlushSeen, MainSame, capVars, PipeInv, SendingInv
<1>5. CASE FlushEnd
  BY <1>5, PipeQuiet DEF FlushEnd, capVars, PipeInv, SendingInv
<1>6. CASE MainCamera
  BY <1>6, PipeQuiet DEF MainCamera, PipeInv, SendingInv
<1>7. CASE MainMode
  BY <1>7, PipeQuiet DEF MainMode, MainSame, capVars, PipeInv, SendingInv
<1>8. CASE MainPost
  <2>1. msg \in Commands
    BY <1>8 DEF MainPost, MainAt, TypeInv, MsgKnown
  <2> QED
    BY <1>8, <2>1, PipeSendCmd DEF MainPost, MainSame, capVars
<1> QED
  BY <1>1, <1>2, <1>3, <1>4, <1>5, <1>6, <1>7, <1>8 DEF Main, Handle

LEMMA PipeNext == TypeInv /\ PipeInv /\ [Next]_vars => PipeInv'
<1> SUFFICES ASSUME TypeInv, PipeInv, [Next]_vars PROVE PipeInv'
  OBVIOUS
<1>1. CASE Capture
  BY <1>1, PipeCapture
<1>2. ASSUME NEW t \in Stages, Stage(t) PROVE PipeInv'
  BY <1>2, PipeStage
<1>3. CASE Main
  BY <1>3, PipeMain
<1>4. CASE Ended \/ UNCHANGED vars
  BY <1>4, PipeQuiet DEF Ended, vars, capVars, PipeInv, SendingInv
<1> QED
  BY <1>1, <1>2, <1>3, <1>4 DEF Next

LEMMA Invariance == Spec => [](TypeInv /\ PipeInv)
BY TypeInit, PipeInit, TypeNext, PipeNext, PTL DEF Spec

-----------------------------------------------------------------------------
(* What follows from the invariant.                                        *)

LEMMA Bounds ==
  ASSUME TypeInv, PipeInv
  PROVE  /\ returned \in Nat /\ written[0] \in Nat /\ written[TID_NR - 1] \in Nat
         /\ returned <= written[TID_NR - 1] /\ written[TID_NR - 1] <= written[0]
         /\ written[0] - returned <= MJPEG_OUT_BUF_NR
         /\ Filling => written[0] - returned < MJPEG_OUT_BUF_NR
<1>1. returned \in Nat /\ written[0] \in Nat /\ written[TID_NR - 1] \in Nat /\ buffer_count \in Nat
  BY Constants DEF TypeInv, TypeOK
<1>2. written[TID_NR - 1] + InHand(TID_NR - 1) <= written[0]
  BY Constants DEF PipeInv, OrderInv
<1>3. written[TID_NR - 1] <= written[0]
  BY <1>1, <1>2, Constants, HandType
<1> QED
  BY <1>1, <1>3
     DEF PipeInv, CountAgrees, ReturnedInv, TypeInv, CountPositive, InBatch, Filling

\* buffer_count and the pictures in the pipeline always add up, so that the
\* wait of a flush is for the right number.
THEOREM CountCorrect == Spec => []CountAgrees
<1>1. PipeInv => CountAgrees
  BY DEF PipeInv
<1> QED
  BY <1>1, Invariance, PTL

\* A flush that is seen complete leaves at most the picture being handed over.
THEOREM FlushCorrect == Spec => FlushLeavesOne
<1>1. ASSUME TypeInv, PipeInv, FlushSeen
      PROVE  \/ returned = written[TID_CAPTURE]
             \/ capPC = "count" /\ returned = written[TID_CAPTURE] - 1
  BY <1>1, Bounds, Constants DEF FlushSeen, AllHome, PipeInv, CountAgrees
<1>2. TypeInv /\ PipeInv /\ [Next]_vars
        => [FlushSeen => \/ returned = written[TID_CAPTURE]
                         \/ capPC = "count" /\ returned = written[TID_CAPTURE] - 1]_vars
  BY <1>1
<1> QED
  BY <1>2, Invariance, PTL DEF Spec, FlushLeavesOne

\* The picture at a place of the pipeline.
PictureAt(t, j) == IF j > 0 THEN chan[t][j].frame
                   ELSE IF t = TID_CAPTURE THEN written[0] + 1
                   ELSE held[t].frame

LEMMA PlaceFacts ==
  ASSUME TypeInv, PipeInv, NEW t \in Tids, NEW j \in 0 .. Len(chan[t]), SlotAt(t, j) # NULL
  PROVE  /\ PictureAt(t, j) \in Nat /\ SlotAt(t, j) = SlotOf(PictureAt(t, j))
         /\ returned < PictureAt(t, j)
         /\ PictureAt(t, j) <= written[0] + 1
         /\ PictureAt(t, j) = written[0] + 1 => Filling
         /\ j > 0 => PictureAt(t, j) <= written[t]
         /\ j = 0 => PictureAt(t, j) = written[t] + 1
         /\ t \in Stages => PictureAt(t, j) <= written[t] + InHand(t)
         /\ \A u \in Stages : t < u => written[u] + InHand(u) < PictureAt(t, j)
<1>1. /\ chan[t] \in Seq(Pointers) /\ Len(chan[t]) \in Nat /\ t \in Int /\ written[t] \in Nat
      /\ j \in Nat
  BY Constants DEF TypeInv, TypeOK
<1>2. \A u \in Tids : written[u] \in Nat
  BY DEF TypeInv, TypeOK
<1>3. \A u \in Stages : written[u] + InHand(u) \in Nat /\ InHand(u) \in {0, 1} /\ u \in Int
  BY HandType, Constants
<1>4. written[TID_NR - 1] <= written[t] /\ written[t] <= written[0]
  <2>1. ASSUME NEW a \in Tids, NEW b \in Stages, a < b PROVE written[b] <= written[a]
    <3>1. written[b] + InHand(b) <= written[a]
      BY <2>1 DEF PipeInv, OrderInv
    <3>2. written[a] \in Nat /\ written[b] \in Nat /\ InHand(b) \in {0, 1}
      BY <1>2, <1>3, HandType
    <3> QED
      BY <3>1, <3>2
  <2>2. t = TID_NR - 1 \/ t < TID_NR - 1
    BY DEF Tids
  <2>3. t = 0 \/ 0 < t
    BY DEF Tids
  <2> QED
    BY <2>1, <2>2, <2>3, <1>2, Constants
<1>9. returned \in Nat /\ written[0] \in Nat /\ written[TID_NR - 1] \in Nat /\ returned <= written[TID_NR - 1]
  BY Bounds
<1>10. t \in Stages => InHand(t) \in {0, 1}
  BY <1>3
<1>5. CASE j = 0 /\ t = 0
  <2>1. Filling /\ SlotAt(t, j) = ring_index /\ PictureAt(t, j) = written[0] + 1
    BY <1>5 DEF SlotAt, PictureAt
  <2>2. ring_index = SlotOf(written[0] + 1)
    BY <1>1, <1>5 DEF PipeInv, IndexInv, SlotOf
  <2>3. \A u \in Stages : 0 < u => written[u] + InHand(u) <= written[0]
    BY Constants DEF PipeInv, OrderInv
  <2> QED
    <3>1. \A u \in Stages : written[u] + InHand(u) < written[0] + 1
      BY <1>3, <1>9, <2>3, Constants
    <3>2. t \notin Stages
      BY <1>5, Constants
    <3> QED
      BY <1>4, <1>5, <1>9, <2>1, <2>2, <3>1, <3>2
<1>6. CASE j = 0 /\ t # 0
  <2>1. t \in Stages /\ held[t].output # NULL
    BY <1>6, Constants DEF SlotAt
  <2>2. Busy(t) /\ InHand(t) = 1
    BY <2>1 DEF Busy, InHand, Nothing
  <2>3. held[t] = Numbered(written[t] + 1)
    BY <2>1, <2>2 DEF PipeInv, HeldInv
  <2>4. /\ PictureAt(t, j) = written[t] + 1 /\ SlotAt(t, j) = SlotOf(written[t] + 1)
    BY <1>1, <1>6, <2>3, PictureFacts DEF SlotAt, PictureAt
  <2>5. written[t] + 1 <= written[0]
    BY <2>1, <2>2, Constants DEF PipeInv, OrderInv
  <2>6. \A u \in Stages : t < u => written[u] + InHand(u) <= written[t]
    BY <1>1 DEF PipeInv, OrderInv
  <2> QED
    <3>1. \A u \in Stages : t < u => written[u] + InHand(u) < written[t] + 1
      BY <1>1, <1>3, <2>6
    <3> QED
      BY <1>1, <1>4, <1>6, <1>9, <2>1, <2>2, <2>4, <2>5, <3>1
<1>7. CASE j > 0 /\ t = TID_NR - 1
  <2>1. /\ chan[t][j].frame <= written[t] /\ returned < chan[t][j].frame
        /\ chan[t][j].output = SlotOf(chan[t][j].frame)
    BY <1>7, <1>1 DEF PipeInv, ReturnInv, Returns, SlotAt
  <2>2. chan[t][j].frame \in Nat
    BY <1>1, <1>7, FrameType
  <2>3. \A u \in Stages : ~(t < u)
    BY <1>7 DEF Stages, Tids
  <2> QED
    <3>1. PictureAt(t, j) = chan[t][j].frame /\ SlotAt(t, j) = chan[t][j].output
      BY <1>7 DEF SlotAt, PictureAt
    <3>2. t \in Stages
      BY <1>7, Constants
    <3> QED
      BY <1>1, <1>4, <1>7, <1>9, <1>10, <2>1, <2>2, <2>3, <3>1, <3>2
<1>8. CASE j > 0 /\ t # TID_NR - 1
  <2> DEFINE lo == written[t + 1] + InHand(t + 1)
  <2>1. t + 1 \in Stages /\ lo \in Nat
    BY <1>3, <1>8, Constants
  <2>2. Carries(chan[t], lo, written[t])
    <3>1. (t + 1) - 1 = t
      BY <1>1
    <3> QED
      BY <2>1, <3>1 DEF PipeInv, ChanInv
  <2>3. chan[t][j] = Numbered(lo + j) /\ Len(chan[t]) = written[t] - lo
    BY <1>1, <1>8, <2>2 DEF Carries
  <2> HIDE DEF lo
  <2>4. PictureAt(t, j) = lo + j /\ SlotAt(t, j) = SlotOf(lo + j) /\ lo + j <= written[t]
    BY <1>1, <1>8, <2>1, <2>3, PictureFacts DEF SlotAt, PictureAt
  <2>5. \A u \in Stages : t < u => written[u] + InHand(u) <= lo
    <3> SUFFICES ASSUME NEW u \in Stages, t < u PROVE written[u] + InHand(u) <= lo
      OBVIOUS
    <3>1. CASE u = t + 1
      BY <1>3, <3>1 DEF lo
    <3>2. CASE u # t + 1
      <4>1. t + 1 < u /\ t + 1 \in Tids
        BY <1>1, <1>3, <2>1, <3>2, HandType
      <4>2. written[u] + InHand(u) <= written[t + 1]
        BY <4>1 DEF PipeInv, OrderInv
      <4> QED
        BY <1>3, <2>1, <4>1, <4>2, HandType DEF lo
    <3> QED
      BY <3>1, <3>2
  <2>6. returned <= lo
    <3>1. TID_NR - 1 \in Stages /\ t < TID_NR - 1
      BY <1>8, Constants DEF Tids
    <3> QED
      BY <1>2, <1>3, <2>1, <2>5, <3>1, Bounds
  <2> QED
    <3>1. \A u \in Stages : t < u => written[u] + InHand(u) < lo + j
      BY <1>1, <1>3, <1>8, <2>1, <2>5
    <3> QED
      BY <1>1, <1>4, <1>8, <1>9, <1>10, <2>1, <2>4, <2>6, <3>1
<1> QED
  BY <1>1, <1>5, <1>6, <1>7, <1>8

\* Different places hold different pictures ...
LEMMA PlacesDiffer ==
  ASSUME TypeInv, PipeInv,
         NEW t \in Tids, NEW i \in 0 .. Len(chan[t]), SlotAt(t, i) # NULL,
         NEW u \in Tids, NEW j \in 0 .. Len(chan[u]), SlotAt(u, j) # NULL,
         t < u \/ (t = u /\ i < j)
  PROVE  PictureAt(t, i) # PictureAt(u, j)
<1>1. /\ PictureAt(t, i) \in Nat /\ PictureAt(u, j) \in Nat /\ t \in Int /\ u \in Int
      /\ i \in Nat /\ j \in Nat /\ chan[t] \in Seq(Pointers) /\ Len(chan[t]) \in Nat
      /\ written[t] \in Nat
  <2>1. /\ t \in Int /\ u \in Int /\ i \in Nat /\ j \in Nat
        /\ chan[t] \in Seq(Pointers) /\ Len(chan[t]) \in Nat /\ written[t] \in Nat
    BY Constants DEF TypeInv, TypeOK
  <2>2. PictureAt(t, i) \in Nat
    BY PlaceFacts
  <2>3. PictureAt(u, j) \in Nat
    BY PlaceFacts
  <2> QED
    BY <2>1, <2>2, <2>3
<1>2. CASE t < u
  <2>1. u \in Stages
    BY <1>2, Constants DEF Stages, Tids
  <2>2. written[u] + InHand(u) < PictureAt(t, i) /\ written[u] + InHand(u) \in Nat
    BY <1>2, <2>1, PlaceFacts, HandType
  <2>3. PictureAt(u, j) <= written[u] + InHand(u)
    BY <2>1, PlaceFacts
  <2> QED
    BY <1>1, <2>2, <2>3
<1>3. CASE t = u /\ i = 0 /\ 0 < j
  BY <1>1, <1>3, PlaceFacts
<1>4. CASE t = u /\ 0 < i /\ i < j
  <2>1. CASE t = TID_NR - 1
    BY <1>1, <1>4, <2>1 DEF PipeInv, ReturnInv, Returns, SlotAt, PictureAt
  <2>2. CASE t # TID_NR - 1
    <3> DEFINE lo == written[t + 1] + InHand(t + 1)
    <3>1. t + 1 \in Stages /\ (t + 1) - 1 = t /\ lo \in Nat
      <4>1. t + 1 \in Stages /\ (t + 1) - 1 = t
        BY <1>1, <2>2, Constants
      <4> QED
        BY <4>1, HandType
    <3>2. chan[t][i] = Numbered(lo + i) /\ chan[t][j] = Numbered(lo + j)
      BY <1>1, <1>4, <3>1 DEF PipeInv, ChanInv, Carries
    <3> HIDE DEF lo
    <3>3. lo + i \in Nat /\ lo + j \in Nat /\ lo + i > 0 /\ lo + i < lo + j
      BY <1>1, <1>4, <3>1
    <3>4. chan[t][i].frame = lo + i /\ chan[t][j].frame = lo + j
      BY <3>2, <3>3, PictureFacts
    <3> QED
      BY <1>4, <3>3, <3>4 DEF PictureAt
  <2> QED
    BY <2>1, <2>2
<1> QED
  BY <1>1, <1>2, <1>3, <1>4

\* ... and so different slots, for fewer than N lie between them.
LEMMA SlotsDiffer ==
  ASSUME TypeInv, PipeInv, NEW m \in Nat, NEW n \in Nat, m < n, returned < m,
         n <= written[0] + 1, n = written[0] + 1 => Filling
  PROVE  SlotOf(m) # SlotOf(n)
<1>1. m - 1 \in Nat /\ n - 1 \in Nat /\ m - 1 < n - 1
  BY Bounds
<1>2. (n - 1) - (m - 1) < MJPEG_OUT_BUF_NR
  <2>1. /\ returned \in Nat /\ written[0] \in Nat /\ MJPEG_OUT_BUF_NR \in Nat
        /\ written[0] - returned <= MJPEG_OUT_BUF_NR
        /\ Filling => written[0] - returned < MJPEG_OUT_BUF_NR
    BY Bounds, Constants
  <2>2. CASE n = written[0] + 1
    BY <2>1, <2>2
  <2>3. CASE n # written[0] + 1
    BY <2>1, <2>3
  <2> QED
    BY <2>2, <2>3
<1> QED
  BY <1>1, <1>2, ModDistinct, Constants DEF SlotOf

\* No buffer is ever in two places: no two threads work on it at a time.
THEOREM RingCorrect == Spec => []RingExclusive
<1>1. ASSUME TypeInv, PipeInv,
             NEW t \in Tids, NEW i \in 0 .. Len(chan[t]), SlotAt(t, i) # NULL,
             NEW u \in Tids, NEW j \in 0 .. Len(chan[u]), SlotAt(u, j) # NULL,
             PictureAt(t, i) # PictureAt(u, j)
      PROVE  SlotAt(t, i) # SlotAt(u, j)
  <2> DEFINE m == PictureAt(t, i)
             n == PictureAt(u, j)
  <2>1. /\ m \in Nat /\ n \in Nat /\ returned < m /\ returned < n
        /\ m <= written[0] + 1 /\ n <= written[0] + 1
        /\ m = written[0] + 1 => Filling
        /\ n = written[0] + 1 => Filling
        /\ SlotAt(t, i) = SlotOf(m) /\ SlotAt(u, j) = SlotOf(n) /\ m # n
    BY <1>1, PlaceFacts
  <2> HIDE DEF m, n
  <2>2. CASE m < n
    BY <1>1, <2>1, <2>2, SlotsDiffer
  <2>3. CASE n < m
    BY <1>1, <2>1, <2>3, SlotsDiffer
  <2> QED
    BY <2>1, <2>2, <2>3
<1>2. ASSUME TypeInv, PipeInv PROVE RingExclusive
  <2>0. \A t \in Tids : t .. TID_SENDER \subseteq Tids
    BY Constants DEF Tids, TID_SENDER
  <2> SUFFICES ASSUME NEW t \in Tids, NEW u \in Tids,
                      NEW i \in 0 .. Len(chan[t]), NEW j \in 0 .. Len(chan[u]),
                      <<t, i>> # <<u, j>>, SlotAt(t, i) # NULL, SlotAt(t, i) = SlotAt(u, j)
               PROVE  FALSE
    BY <2>0 DEF RingExclusive
  <2>1. t \in Int /\ u \in Int /\ i \in Int /\ j \in Int /\ SlotAt(u, j) # NULL
    BY Constants
  <2>2. t < u \/ u < t \/ (t = u /\ i < j) \/ (u = t /\ j < i)
    BY <2>1
  <2>3. PictureAt(t, i) # PictureAt(u, j)
    <3>1. CASE t < u \/ (t = u /\ i < j)
      BY <1>2, <2>1, <3>1, PlacesDiffer
    <3>2. CASE u < t \/ (u = t /\ j < i)
      BY <1>2, <2>1, <3>2, PlacesDiffer
    <3> QED
      BY <2>2, <3>1, <3>2
  <2> QED
    BY <1>1, <1>2, <2>1, <2>3
<1> QED
  BY <1>2, Invariance, PTL

-----------------------------------------------------------------------------
(* What is in the buffers.                                                 *)

\* Each picture that has not come home is still the one in its slot.
ContentInv ==
  /\ \A n \in Nat : returned < n /\ n <= written[0] => ring[SlotOf(n)].frame = n
  /\ capPC = "write" => ring[ring_index].frame = written[0] + 1

\* A step that neither hands over nor returns a picture, nor fills a buffer.
LEMMA ContentQuiet ==
  ASSUME TypeInv, ContentInv, returned' >= returned, returned' \in Nat,
         written'[0] = written[0], ring_index' = ring_index,
         \A s \in Slots : ring'[s].frame = ring[s].frame,
         capPC' = "write" => capPC = "write"
  PROVE  ContentInv'
<1>1. ring_index \in Slots /\ returned \in Nat
  BY DEF TypeInv, TypeOK
<1>2. \A n \in Nat : returned' < n => returned < n /\ SlotOf(n) \in Slots
  BY <1>1, SlotType
<1> QED
  BY <1>1, <1>2 DEF ContentInv, SlotOf

LEMMA ContentInit == Init => ContentInv
BY Constants DEF Init, ContentInv

LEMMA ContentCapture ==
  ASSUME TypeInv, PipeInv, ContentInv, Capture
  PROVE  ContentInv'
<1>0. /\ ring \in [Slots -> Buffers] /\ ring_index \in Slots /\ returned \in Nat
      /\ written[0] \in Nat /\ written \in [Tids -> Nat]
  BY Constants DEF TypeInv, TypeOK
<1>1. CASE CaptureCommand
  BY <1>0, <1>1, ContentQuiet DEF CaptureCommand, CaptureGoes
<1>2. CASE CaptureReturned
  BY <1>0, <1>2, ContentQuiet DEF CaptureReturned, CaptureGoes
<1>3. CASE CaptureCheckFlushing \/ CaptureCheckPort \/ CaptureCamera
  BY <1>0, <1>3, ContentQuiet
     DEF CaptureCheckFlushing, CaptureCheckPort, CaptureCamera, CaptureGoes, CaptureSame
<1>4. CASE CaptureLoop
  <2>1. \A b \in Buffers : BufferInit(b).frame = b.frame
    BY DEF BufferInit, Buffers
  <2>2. \A s \in Slots : ring'[s].frame = ring[s].frame
    BY <1>0, <1>4, <2>1 DEF CaptureLoop
  <2> QED
    BY <1>0, <1>4, <2>2, ContentQuiet DEF CaptureLoop, CaptureGoes, CaptureSame
<1>5. CASE CaptureFill /\ Fill
  <2>1. /\ Filling /\ UNCHANGED <<ring_index, returned, written>>
        /\ ring' = [ring EXCEPT ![ring_index] = Filled(ring[ring_index])]
    BY <1>5 DEF CaptureFill, Fill, Filling, CaptureAt, CaptureSame
  <2>2. \A b \in Buffers : Filled(b).frame = written[0] + 1
    BY <1>0 DEF Filled, Buffers
  <2>3. ring'[ring_index].frame = written[0] + 1
    BY <1>0, <2>1, <2>2
  <2>4. ASSUME NEW n \in Nat, returned < n, n <= written[0]
        PROVE  ring'[SlotOf(n)].frame = n
    <3>1. SlotOf(n) # SlotOf(written[0] + 1)
      BY <1>0, <2>1, <2>4, SlotsDiffer
    <3>2. ring_index = SlotOf(written[0] + 1)
      BY <1>0 DEF PipeInv, IndexInv, SlotOf
    <3>3. SlotOf(n) \in Slots
      BY <1>0, <2>4, SlotType
    <3> QED
      BY <1>0, <2>1, <2>4, <3>1, <3>2, <3>3 DEF ContentInv
  <2> QED
    BY <2>1, <2>3, <2>4 DEF ContentInv, SlotOf
<1>6. CASE CaptureFill /\ ~Fill
  BY <1>0, <1>6, ContentQuiet DEF CaptureFill, CaptureGoes, CaptureSame
<1>7. CASE CaptureCrash
  BY <1>0, <1>7, ContentQuiet DEF CaptureCrash, CaptureSame
<1>8. CASE CaptureWrite
  <2>1. /\ written'[0] = written[0] + 1 /\ UNCHANGED <<ring, returned>>
        /\ capPC = "write" /\ capPC' = "count"
    BY <1>0, <1>8, Constants DEF CaptureWrite, CaptureAt, CaptureGoes
  <2>2. ring[SlotOf(written[0] + 1)].frame = written[0] + 1
    BY <1>0, <2>1 DEF ContentInv, PipeInv, IndexInv, SlotOf
  <2>3. \A n \in Nat : n <= written[0] + 1 => n <= written[0] \/ n = written[0] + 1
    BY <1>0
  <2>4. ASSUME NEW n \in Nat, returned < n, n <= written[0] + 1
        PROVE  ring[SlotOf(n)].frame = n
    BY <2>2, <2>3, <2>4 DEF ContentInv
  <2> QED
    BY <2>1, <2>4 DEF ContentInv, SlotOf
<1>9. CASE CaptureCount
  BY <1>0, <1>9, ContentQuiet DEF CaptureCount, CountedOut, CaptureGoes
<1> QED
  BY <1>1, <1>2, <1>3, <1>4, <1>5, <1>6, <1>7, <1>8, <1>9 DEF Capture

LEMMA ContentNext == TypeInv /\ PipeInv /\ ContentInv /\ [Next]_vars => ContentInv'
<1> SUFFICES ASSUME TypeInv, PipeInv, ContentInv, [Next]_vars PROVE ContentInv'
  OBVIOUS
<1>0. /\ ring \in [Slots -> Buffers] /\ returned \in Nat /\ written \in [Tids -> Nat]
  BY DEF TypeInv, TypeOK
<1>1. CASE Capture
  BY <1>1, ContentCapture
<1>2. ASSUME NEW t \in Stages, Stage(t) PROVE ContentInv'
  <2>1. \A b \in Buffers : Work(t, b).frame = b.frame
    BY DEF Work, Detected, Aligned, Embedded, Buffers
  <2>2. \A s \in Slots : ring'[s].frame = ring[s].frame
    BY <1>0, <1>2, <2>1
       DEF Stage, StageTake, StagePass, StageThrows, SenderSkip, SenderStart, SenderDone, SenderSame
  <2>3. written'[0] = written[0]
    BY <1>0, <1>2, Constants
       DEF Stage, StageTake, StagePass, StageThrows, SenderSkip, SenderStart, SenderDone, PassOn
  <2> QED
    BY <1>0, <1>2, <2>2, <2>3, ContentQuiet
       DEF Stage, StageTake, StagePass, StageThrows, SenderSkip, SenderStart, SenderDone, SenderSame,
           capVars
<1>3. CASE Main
  <2>1. CASE FlushEnd
    <3>1. \A s \in Slots : ring'[s].frame = ring[s].frame
      BY <1>0, <2>1 DEF FlushEnd, Buffers
    <3> QED
      BY <1>0, <2>1, <3>1, ContentQuiet DEF FlushEnd, capVars
  <2>2. CASE MainCamera
    <3>1. capPC' = "write" => capPC = "write"
      BY <2>2 DEF MainCamera
    <3>2. UNCHANGED <<ring, ring_index, written, returned>>
      BY <2>2 DEF MainCamera
    <3> QED
      BY <1>0, <3>1, <3>2, ContentQuiet
  <2>3. CASE Accept \/ Accepted \/ ClientGone \/ FlushSeen \/ MainMode \/ MainPost
    BY <1>0, <2>3, ContentQuiet
       DEF Accept, Accepted, ClientGone, FlushSeen, MainMode, MainPost, MainSame, capVars
  <2>4. ASSUME NEW c \in ClientCommands, ClientMsg(c) PROVE ContentInv'
    BY <1>0, <2>4, ContentQuiet DEF ClientMsg, MainSame, capVars
  <2> QED
    BY <1>3, <2>1, <2>2, <2>3, <2>4 DEF Main, Handle
<1>4. CASE Ended \/ UNCHANGED vars
  BY <1>0, <1>4, ContentQuiet DEF Ended, vars, capVars
<1> QED
  BY <1>1, <1>2, <1>3, <1>4 DEF Next

\* The sender never sends a picture that was overwritten on its way.
THEOREM SentCorrect == Spec => []SentIntact
<1>1. ASSUME TypeInv, PipeInv, ContentInv PROVE SentIntact
  <2> SUFFICES ASSUME sending
               PROVE  ring[held[TID_NR - 1].output].frame = held[TID_NR - 1].frame
    BY DEF SentIntact
  <2> DEFINE n == written[TID_NR - 1] + 1
  <2>1. /\ Busy(TID_NR - 1) /\ InHand(TID_NR - 1) = 1 /\ held[TID_NR - 1] = Numbered(n)
    BY <1>1, Constants DEF PipeInv, SendingInv, HeldInv, Busy, InHand
  <2>2. n \in Nat /\ n > 0 /\ returned < n
    BY <1>1, Bounds
  <2>3. n <= written[0]
    BY <1>1, <2>1, Constants DEF PipeInv, OrderInv
  <2> QED
    BY <1>1, <2>1, <2>2, <2>3, PictureFacts DEF ContentInv
<1> QED
  BY <1>1, Invariance, ContentInit, ContentNext, PTL DEF Spec

-----------------------------------------------------------------------------
(* Where commands are on their way to the capture thread.  The last of     *)
(* them is that of the mode, and with none on its way the capture thread   *)
(* has changed to the source of the mode.                                  *)

Fits(mode, source) ==
  /\ mode \in {"RUN", "RARUN"} => source = "camera"
  /\ mode \in {"TEST_RUN", "TEST_ACC"} => source = "file"

\* i is the place of the last command in q.
IsLastCmd(q, i) == q[i].output = NULL /\ \A j \in 1 .. Len(q) : i < j => q[j].output # NULL

LastIs(q, mode) == \A i \in 1 .. Len(q) : IsLastCmd(q, i) => q[i].msg = mode
NoneIn(q)       == \A i \in 1 .. Len(q) : q[i].output # NULL

SourceInv ==
  ~face_detect_autostart =>
    IF mainPC = "post" THEN run_video_mode = msg
    ELSE /\ LastIs(chan[TID_NR - 1], run_video_mode)
         /\ NoneIn(chan[TID_NR - 1]) => Fits(run_video_mode, input_mode)

LEMMA SourceInit == Init => SourceInv
BY Constants DEF Init, SourceInv, LastIs, NoneIn, Fits

\* A step that adds no command, and leaves the mode and the sources alone.
LEMMA SourceQuiet ==
  ASSUME TypeInv, SourceInv, UNCHANGED <<run_video_mode, input_mode>>,
         mainPC' = "post" <=> mainPC = "post", mainPC = "post" => msg' = msg,
         \/ chan'[TID_NR - 1] = chan[TID_NR - 1]
         \/ \E p \in Pointers : p.output # NULL
                                /\ chan'[TID_NR - 1] = Append(chan[TID_NR - 1], p)
  PROVE  SourceInv'
<1> DEFINE q == chan[TID_NR - 1]
<1>1. CASE chan'[TID_NR - 1] = q
  BY <1>1 DEF SourceInv
<1>2. ASSUME NEW p \in Pointers, p.output # NULL, chan'[TID_NR - 1] = Append(q, p)
      PROVE  SourceInv'
  <2>1. q \in Seq(Pointers) /\ Len(q) \in Nat  BY Constants DEF TypeInv, TypeOK
  <2> DEFINE r == Append(q, p)
  <2>2. /\ Len(r) = Len(q) + 1 /\ r[Len(q) + 1] = p
        /\ \A i \in 1 .. Len(q) : r[i] = q[i]
    BY <2>1, AppendFacts
  <2>3. chan'[TID_NR - 1] = r  BY <1>2
  <2> HIDE DEF q, r
  <2>4. ASSUME NEW i \in 1 .. Len(r), IsLastCmd(r, i)
        PROVE  i \in 1 .. Len(q) /\ IsLastCmd(q, i) /\ r[i] = q[i]
    <3>1. i # Len(q) + 1  BY <1>2, <2>2, <2>4 DEF IsLastCmd
    <3>2. i \in 1 .. Len(q)  BY <2>1, <2>2, <3>1
    <3>3. \A j \in 1 .. Len(q) : j \in 1 .. Len(r)  BY <2>1, <2>2
    <3> QED  BY <2>2, <2>4, <3>2, <3>3 DEF IsLastCmd
  <2>5. \A mode : LastIs(q, mode) => LastIs(r, mode)  BY <2>4 DEF LastIs
  <2>6. NoneIn(r) => NoneIn(q)  BY <2>1, <2>2 DEF NoneIn
  <2> QED  BY <2>3, <2>5, <2>6 DEF SourceInv, q
<1> QED  BY <1>1, <1>2

\* What is written to the sender's pair by a stage is a picture.
LEMMA SourceNext == TypeInv /\ PipeInv /\ SourceInv /\ [Next]_vars => SourceInv'
<1> SUFFICES ASSUME TypeInv, PipeInv, SourceInv, [Next]_vars PROVE SourceInv'
  OBVIOUS
<1> DEFINE q == chan[TID_NR - 1]
<1>0. q \in Seq(Pointers) /\ Len(q) \in Nat /\ chan \in [Tids -> Seq(Pointers)]
  BY Constants DEF TypeInv, TypeOK
<1>1. CASE CaptureCommand \/ CaptureReturned
  <2>1. /\ q # <<>> /\ chan'[TID_NR - 1] = Tail(q) /\ UNCHANGED <<mainPC, msg, run_video_mode>>
        /\ IF Head(q).output = NULL THEN input_mode' = SourceOf(Head(q).msg, input_mode)
                                    ELSE input_mode' = input_mode
    BY <1>0, <1>1, Constants DEF CaptureCommand, CaptureReturned, mainVars
  <2> DEFINE r == Tail(q)
  <2>2. /\ Len(r) = Len(q) - 1 /\ Len(q) >= 1 /\ Head(q) = q[1]
        /\ \A j \in 1 .. Len(q) - 1 : r[j] = q[j + 1]
    BY <1>0, <2>1, TailFacts
  <2> HIDE DEF q, r
  <2>3. ASSUME NEW i \in 1 .. Len(r), IsLastCmd(r, i)
        PROVE  i + 1 \in 1 .. Len(q) /\ IsLastCmd(q, i + 1) /\ r[i] = q[i + 1]
    <3>1. i + 1 \in 1 .. Len(q) /\ r[i] = q[i + 1]  BY <1>0, <2>2
    <3>2. ASSUME NEW j \in 1 .. Len(q), i + 1 < j PROVE q[j].output # NULL
      <4>1. j - 1 \in 1 .. Len(r) /\ i < j - 1 /\ (j - 1) + 1 = j
        BY <1>0, <2>2, <3>2
      <4>2. r[j - 1].output # NULL  BY <2>3, <4>1 DEF IsLastCmd
      <4>3. r[j - 1] = q[j]  BY <2>2, <4>1
      <4> QED  BY <4>2, <4>3
    <3> QED  BY <2>3, <3>1, <3>2 DEF IsLastCmd
  <2>4. \A mode : LastIs(q, mode) => LastIs(r, mode)  BY <2>3 DEF LastIs
  <2>5. ASSUME NoneIn(r) PROVE \A j \in 1 .. Len(q) : 1 < j => q[j].output # NULL
    <3> SUFFICES ASSUME NEW j \in 1 .. Len(q), 1 < j PROVE q[j].output # NULL
      OBVIOUS
    <3>1. j - 1 \in 1 .. Len(r) /\ j - 1 \in 1 .. Len(q) - 1 /\ (j - 1) + 1 = j
      BY <1>0, <2>2
    <3>2. r[j - 1].output # NULL /\ r[j - 1] = q[j]
      BY <2>2, <2>5, <3>1 DEF NoneIn
    <3> QED  BY <3>2
  <2>6. ASSUME NoneIn(r), LastIs(q, run_video_mode), NoneIn(q) => Fits(run_video_mode, input_mode)
        PROVE  Fits(run_video_mode, input_mode')
    <3>1. CASE q[1].output = NULL
      <4>1. IsLastCmd(q, 1) /\ 1 \in 1 .. Len(q)
        BY <1>0, <2>2, <2>5, <2>6, <3>1 DEF IsLastCmd
      <4>2. q[1].msg = run_video_mode  BY <2>6, <4>1 DEF LastIs
      <4> QED  BY <2>1, <2>2, <3>1, <4>2 DEF Fits, SourceOf
    <3>2. CASE q[1].output # NULL
      <4>1. NoneIn(q)
        <5> SUFFICES ASSUME NEW j \in 1 .. Len(q) PROVE q[j].output # NULL  BY DEF NoneIn
        <5>1. j = 1 \/ 1 < j  BY <1>0
        <5> QED  BY <2>5, <2>6, <3>2, <5>1
      <4> QED  BY <2>1, <2>2, <2>6, <3>2, <4>1
    <3> QED  BY <3>1, <3>2
  <2>7. chan'[TID_NR - 1] = r  BY <2>1 DEF r
  <2> QED  BY <2>1, <2>4, <2>6, <2>7 DEF SourceInv, q
<1>2. CASE Capture /\ ~CaptureCommand /\ ~CaptureReturned
  <2>1. chan'[TID_NR - 1] = chan[TID_NR - 1]
    BY <1>0, <1>2, Constants
       DEF Capture, CaptureCheckFlushing, CaptureCheckPort, CaptureLoop, CaptureCamera,
           CaptureFill, CaptureCrash, CaptureWrite, CaptureCount, CaptureSame
  <2>2. UNCHANGED <<run_video_mode, input_mode, mainPC, msg>>
    BY <1>2
       DEF Capture, CaptureCheckFlushing, CaptureCheckPort, CaptureLoop, CaptureCamera,
           CaptureFill, CaptureCrash, CaptureWrite, CaptureCount, CaptureSame, OthersSame, mainVars
  <2> QED  BY <2>1, <2>2, SourceQuiet
<1>3. ASSUME NEW t \in Stages, Stage(t) PROVE SourceInv'
  <2>1. UNCHANGED <<run_video_mode, input_mode, mainPC, msg>>
    BY <1>3 DEF Stage, StageTake, StagePass, StageThrows, SenderSkip, SenderStart, SenderDone,
                SenderSame, capVars, mainVars
  <2>2. CASE StageTake(t) \/ StageThrows(t) \/ SenderStart
    <3>1. chan'[TID_NR - 1] = chan[TID_NR - 1]
      BY <1>0, <2>2, Constants DEF StageTake, StageThrows, SenderStart
    <3> QED  BY <2>1, <3>1, SourceQuiet
  <2>3. CASE Busy(t) /\ PassOn(t)
    <3>1. held[t] \in Pointers /\ held[t].output # NULL
      <4>1. held[t] = Numbered(written[t] + 1) /\ written[t] \in Nat
        BY <2>3, HandType DEF PipeInv, HeldInv
      <4> QED  BY <4>1, PictureFacts
    <3>2. \/ chan'[TID_NR - 1] = chan[TID_NR - 1]
          \/ chan'[TID_NR - 1] = Append(chan[TID_NR - 1], held[t])
      BY <1>0, <2>3, Constants DEF PassOn
    <3> QED  BY <2>1, <3>1, <3>2, SourceQuiet
  <2> QED
    BY <1>3, <2>2, <2>3 DEF Stage, StagePass, SenderSkip, SenderDone, SenderBusy
<1>4. CASE Main
  <2>1. CASE Accept \/ ClientGone \/ FlushSeen \/ FlushEnd \/ MainCamera
    <3>1. UNCHANGED <<run_video_mode, input_mode, chan>> /\ (mainPC' = "post" <=> mainPC = "post")
          /\ mainPC # "post"  
      BY <2>1 DEF Accept, ClientGone, FlushSeen, FlushEnd, MainCamera, MainAt, MainSame, capVars, mainVars
    <3> QED  BY <3>1, SourceQuiet
  <2>2. ASSUME NEW c \in ClientCommands, ClientMsg(c) PROVE SourceInv'
    <3>1. UNCHANGED <<run_video_mode, input_mode, chan>> /\ mainPC # "post" /\ mainPC' # "post"
      BY <2>2 DEF ClientMsg, MainAt, MainSame, capVars
    <3> QED  BY <3>1, SourceQuiet
  <2>3. CASE Accepted
    <3>1. CASE face_detect_autostart
      BY <3>1 DEF SourceInv
    <3>2. CASE ~face_detect_autostart
      <4>1. UNCHANGED <<run_video_mode, input_mode, chan>> /\ mainPC # "post" /\ mainPC' # "post"
        BY <2>3, <3>2 DEF Accepted, MainAt, MainSame, capVars
      <4> QED  BY <4>1, SourceQuiet
    <3> QED  BY <3>1, <3>2
  <2>4. CASE MainMode
    BY <2>4 DEF MainMode, SourceInv
  <2>5. CASE MainPost
    <3>1. /\ mainPC = "post" /\ mainPC' = "epoll" /\ UNCHANGED <<run_video_mode, input_mode>>
          /\ msg \in Commands /\ written[TID_NR - 1] \in Nat
          /\ chan'[TID_NR - 1] = Append(q, Command(msg, written[TID_NR - 1]))
      BY <1>0, <2>5, Constants
         DEF MainPost, MainAt, MainSame, SendCmd, capVars, TypeInv, TypeOK, MsgKnown
    <3> DEFINE p == Command(msg, written[TID_NR - 1])
               r == Append(q, p)
    <3>2. p \in Pointers /\ p.output = NULL /\ p.msg = msg
      BY <3>1, PointerTypes DEF Command
    <3>3. Len(r) = Len(q) + 1 /\ r[Len(q) + 1] = p
      BY <1>0, <3>2, AppendFacts
    <3>4. chan'[TID_NR - 1] = r  BY <3>1
    <3> HIDE DEF p, q, r
    <3>5. ASSUME NEW i \in 1 .. Len(r), IsLastCmd(r, i) PROVE r[i].msg = msg
      <4>1. i = Len(q) + 1 \/ i < Len(q) + 1  BY <1>0, <3>3
      <4>2. Len(q) + 1 \in 1 .. Len(r)  BY <1>0, <3>3
      <4>3. i = Len(q) + 1  BY <3>2, <3>3, <3>5, <4>1, <4>2 DEF IsLastCmd
      <4> QED  BY <3>2, <3>3, <4>3
    <3>6. ~NoneIn(r)
      <4>1. Len(q) + 1 \in 1 .. Len(r)  BY <1>0, <3>3
      <4> QED  BY <3>2, <3>3, <4>1 DEF NoneIn
    <3>7. ~face_detect_autostart => run_video_mode = msg  BY <3>1 DEF SourceInv
    <3> QED  BY <3>1, <3>4, <3>5, <3>6, <3>7 DEF SourceInv, LastIs
  <2> QED  BY <1>4, <2>1, <2>2, <2>3, <2>4, <2>5 DEF Main, Handle
<1>5. CASE Ended \/ UNCHANGED vars
  BY <1>5, SourceQuiet DEF Ended, vars, capVars, mainVars
<1> QED
  BY <1>1, <1>2, <1>3, <1>4, <1>5 DEF Next, Capture

\* Once no command is on its way the capture thread reads from the source of
\* the mode pictures are tagged with, however many commands overtook it.
THEOREM SourceCorrect == Spec => []SettledSource
<1>1. TypeInv /\ SourceInv => SettledSource
  BY Constants DEF SourceInv, SettledSource, Waiting, NoneIn, Fits, TypeInv, TypeOK
<1> QED
  BY <1>1, Invariance, SourceInit, SourceNext, PTL DEF Spec

-----------------------------------------------------------------------------
(* What the stages have made of a picture that has not come home.  A stage *)
(* that skipped its work did so while the main thread was flushing; when   *)
(* the flag falls, what is still between that stage and the one that needs *)
(* its work is late.                                                       *)

\* Picture n, in its buffer b.
Made(n, b) ==
  \/ b.late
  \/ /\ b.rects \in {0, n}
     /\ n <= written[1] /\ written[2] < n => flushing \/ b.detections = n
     /\ TID_NR > 5 /\ n <= written[3] /\ written[4] < n
          => flushing \/ b.rects = 0 \/ b.face_embeddings # 0

Out(n) == n \in Nat /\ returned < n /\ n <= written[0]

MadeInv ==
  /\ \A n \in Nat : Out(n) => Made(n, ring[SlotOf(n)])
  /\ Filling => ring[ring_index].rects = 0

\* Any two pictures that are out, or being captured, are in different buffers.
LEMMA OutDiffer ==
  ASSUME TypeInv, PipeInv, NEW m \in Nat, NEW n \in Nat, Out(m), m # n,
         Out(n) \/ (n = written[0] + 1 /\ buffer_count > 0 /\ capPC # "count")
  PROVE  SlotOf(m) # SlotOf(n)
<1>1. /\ returned \in Nat /\ written[0] \in Nat /\ MJPEG_OUT_BUF_NR \in Nat
      /\ written[0] - returned <= MJPEG_OUT_BUF_NR /\ buffer_count \in Nat
  BY Bounds, Constants DEF TypeInv, TypeOK
<1>2. buffer_count > 0 /\ capPC # "count" => written[0] - returned < MJPEG_OUT_BUF_NR
  BY <1>1 DEF PipeInv, CountAgrees
<1>3. CASE m < n
  <2>1. m - 1 \in Nat /\ n - 1 \in Nat /\ m - 1 < n - 1 /\ (n - 1) - (m - 1) < MJPEG_OUT_BUF_NR
    BY <1>1, <1>2, <1>3 DEF Out
  <2> QED  BY <2>1, ModDistinct, Constants DEF SlotOf
<1>4. CASE n < m
  <2>1. n - 1 \in Nat /\ m - 1 \in Nat /\ n - 1 < m - 1 /\ (m - 1) - (n - 1) < MJPEG_OUT_BUF_NR
    BY <1>1, <1>4 DEF Out
  <2>2. SlotOf(n) # SlotOf(m)  BY <2>1, ModDistinct, Constants DEF SlotOf
  <2> QED  BY <2>2
<1> QED  BY <1>3, <1>4

\* The buffer that is being filled is that of the next picture.
LEMMA NextSlot ==
  ASSUME TypeInv, PipeInv
  PROVE  ring_index = SlotOf(written[0] + 1) /\ written[0] + 1 \in Nat
<1>1. written[0] \in Nat  BY Constants DEF TypeInv, TypeOK
<1> QED  BY <1>1 DEF PipeInv, IndexInv, SlotOf

\* What lies between stage t and the one before it, the picture in the hands of
\* stage t included, is in flight.
LEMMA BetweenInFlight ==
  ASSUME TypeInv, PipeInv, NEW t \in Stages, NEW n \in Nat, written[t] < n, n <= written[t - 1]
  PROVE  SlotOf(n) \in InFlight
<1>1. /\ t - 1 \in Tids /\ written[t] \in Nat /\ written[t - 1] \in Nat /\ InHand(t) \in {0, 1}
      /\ chan[t - 1] \in Seq(Pointers) /\ DOMAIN held = Stages /\ DOMAIN chan = Tids
  BY Constants, HandType DEF TypeInv, TypeOK
<1>2. CASE n = written[t] + 1 /\ Busy(t)
  <2>1. held[t] = Numbered(n)  BY <1>2 DEF PipeInv, HeldInv
  <2>2. held[t] \in Range(held)  BY <1>1 DEF Range
  <2>3. held[t].output = SlotOf(n)  BY <1>1, <1>2, <2>1, PictureFacts
  <2> QED  BY <2>2, <2>3 DEF InFlight
<1>3. CASE ~(n = written[t] + 1 /\ Busy(t))
  <2> DEFINE lo == written[t] + InHand(t)
             j == n - lo
  <2>1. Carries(chan[t - 1], lo, written[t - 1])  BY DEF PipeInv, ChanInv
  <2>2. lo \in Nat /\ lo < n
    BY <1>1, <1>3 DEF InHand, Busy
  <2> HIDE DEF lo
  <2>3. Len(chan[t - 1]) = written[t - 1] - lo /\ j \in 1 .. Len(chan[t - 1]) /\ lo + j = n
    BY <1>1, <2>1, <2>2 DEF Carries
  <2> HIDE DEF j
  <2>4. chan[t - 1][j] = Numbered(n)  BY <2>1, <2>3 DEF Carries
  <2>5. chan[t - 1][j].output = SlotOf(n)  BY <1>1, <2>2, <2>4, PictureFacts
  <2>6. chan[t - 1][j] \in Range(chan[t - 1])  BY <1>1, <2>3 DEF Range
  <2> QED  BY <1>1, <2>5, <2>6 DEF InFlight
<1> QED  BY <1>2, <1>3

LEMMA MadeInit == Init => MadeInv
BY Constants DEF Init, MadeInv, Out, Filling

\* A step that only moves the threads on, and raises the flag at most.
LEMMA MadeQuiet ==
  ASSUME TypeInv, MadeInv, UNCHANGED <<ring, ring_index, written>>, returned' \in Nat,
         returned' >= returned, flushing => flushing', Filling' => Filling
  PROVE  MadeInv'
<1>1. returned \in Nat  BY DEF TypeInv, TypeOK
<1>2. \A n \in Nat : Out(n)' => Out(n)  BY <1>1 DEF Out
<1>3. ASSUME NEW n \in Nat, Out(n)' PROVE Made(n, ring[SlotOf(n)])'
  <2>1. Made(n, ring[SlotOf(n)])  BY <1>2, <1>3 DEF MadeInv
  <2> QED  BY <2>1 DEF Made, SlotOf
<1>4. Filling' => ring'[ring_index'].rects = 0  BY DEF MadeInv
<1> QED  BY <1>3, <1>4 DEF MadeInv

LEMMA MadeCapture ==
  ASSUME TypeInv, PipeInv, MadeInv, Capture
  PROVE  MadeInv'
<1>0. /\ ring \in [Slots -> Buffers] /\ ring_index \in Slots /\ returned \in Nat
      /\ written[0] \in Nat /\ written \in [Tids -> Nat] /\ buffer_count \in Nat
  BY Constants DEF TypeInv, TypeOK
<1>1. CASE CaptureCommand \/ CaptureReturned \/ CaptureCheckFlushing \/ CaptureCheckPort
           \/ CaptureCamera \/ CaptureCrash \/ CaptureCount \/ (CaptureFill /\ ~Fill)
  <2>1. /\ UNCHANGED <<ring, ring_index, written, flushing>>
        /\ returned' \in {returned, returned + 1} /\ (Filling' => Filling)
    BY <1>1 DEF CaptureCommand, CaptureReturned, CaptureCheckFlushing, CaptureCheckPort, CaptureCamera,
         CaptureCrash, CaptureCount, CaptureFill, CaptureAt, CaptureGoes, CaptureSame, OthersSame,
         mainVars, Filling
  <2> QED  BY <1>0, <2>1, MadeQuiet
\* The others touch the buffer of the next picture only.
<1>2. ASSUME buffer_count > 0, capPC # "count",
             NEW b \in Buffers, ring' = [ring EXCEPT ![ring_index] = b], b.rects = 0,
             UNCHANGED <<written, returned, flushing, ring_index>>
      PROVE  MadeInv'
  <2>1. ASSUME NEW n \in Nat, Out(n)' PROVE Made(n, ring[SlotOf(n)])'
    <3>1. Out(n)  BY <1>2, <2>1 DEF Out
    <3>2. SlotOf(n) # ring_index
      <4>1. n # written[0] + 1  BY <1>0, <3>1 DEF Out
      <4> QED  BY <1>2, <3>1, <4>1, OutDiffer, NextSlot
    <3>3. ring'[SlotOf(n)] = ring[SlotOf(n)]
      <4>1. SlotOf(n) \in Slots  BY <1>0, <3>1, SlotType DEF Out
      <4> QED  BY <1>0, <1>2, <3>2, <4>1
    <3>4. Made(n, ring[SlotOf(n)])  BY <3>1 DEF MadeInv
    <3> QED  BY <1>2, <3>3, <3>4 DEF Made, SlotOf
  <2>2. ring'[ring_index'].rects = 0  BY <1>0, <1>2
  <2> QED  BY <2>1, <2>2 DEF MadeInv
<1>3. CASE CaptureLoop
  <2>1. CASE Spare
    <3>1. /\ ring' = [ring EXCEPT ![ring_index] = BufferInit(ring[ring_index])]
          /\ UNCHANGED <<written, returned, flushing, ring_index>>
          /\ buffer_count > 0 /\ capPC # "count"
      BY <1>3, <2>1 DEF CaptureLoop, CaptureAt, CaptureSame, OthersSame, mainVars, Spare
    <3>2. BufferInit(ring[ring_index]) \in Buffers /\ BufferInit(ring[ring_index]).rects = 0
      <4>1. ring[ring_index] \in Buffers /\ run_video_mode \in Commands
        BY <1>0 DEF TypeInv, TypeOK
      <4> QED  BY <4>1 DEF BufferInit, Buffers
    <3> QED  BY <1>2, <3>1, <3>2
  <2>2. CASE ~Spare
    <3>1. UNCHANGED <<ring, ring_index, written, flushing, returned>> /\ ~Filling'
      BY <1>3, <2>2 DEF CaptureLoop, CaptureSame, OthersSame, mainVars, CaptureGoes, Filling
    <3> QED  BY <1>0, <3>1, MadeQuiet
  <2> QED  BY <2>1, <2>2
<1>4. CASE CaptureFill /\ Fill
  <2>1. /\ ring' = [ring EXCEPT ![ring_index] = Filled(ring[ring_index])]
        /\ UNCHANGED <<written, returned, flushing, ring_index>>
        /\ Filling
    BY <1>4 DEF CaptureFill, Fill, CaptureAt, CaptureSame, OthersSame, mainVars, Filling
  <2>2. Filled(ring[ring_index]) \in Buffers /\ Filled(ring[ring_index]).rects = 0
    <3>1. ring[ring_index] \in Buffers /\ input_mode \in {"camera", "file"}
          /\ ring[ring_index].rects = 0
      BY <1>0, <2>1 DEF TypeInv, TypeOK, MadeInv
    <3> DEFINE n == written[0] + 1
    <3>2. \A b \in Buffers : Filled(b) = [b EXCEPT !.frame = n, !.source = input_mode, !.late = FALSE]
      BY DEF Filled
    <3>3. n \in Nat  BY <1>0
    <3> HIDE DEF n
    <3> QED  BY <3>1, <3>2, <3>3 DEF Buffers
  <2>3. buffer_count > 0 /\ capPC # "count"
    BY <2>1 DEF Filling, TypeInv, CountPositive, InBatch
  <2> QED  BY <1>2, <2>1, <2>2, <2>3
<1>5. CASE CaptureWrite
  <2>1. /\ written' = [written EXCEPT ![0] = written[0] + 1] /\ UNCHANGED <<ring, returned, flushing>>
        /\ Filling /\ ~Filling'
    BY <1>5 DEF CaptureWrite, CaptureAt, CaptureGoes, OthersSame, mainVars, Filling
  <2>2. written'[0] = written[0] + 1 /\ \A t \in Stages : written'[t] = written[t]
    BY <1>0, <2>1, Constants
  <2>3. ASSUME NEW n \in Nat, Out(n)' PROVE Made(n, ring[SlotOf(n)])'
    <3>1. CASE n = written[0] + 1
      <4>1. ring[SlotOf(n)].rects = 0
        BY <2>1, <3>1, NextSlot DEF MadeInv
      <4>2. 1 \in Stages /\ written[1] \in Nat /\ written[1] <= written[0]
        <5>1. 1 \in Stages /\ 0 \in Tids  BY Constants DEF Stages, Tids
        <5>2. written[1] + InHand(1) <= written[0]  BY <5>1 DEF PipeInv, OrderInv
        <5> QED  BY <1>0, <5>1, <5>2, HandType
      <4>3. ~(n <= written'[1])  BY <1>0, <2>2, <3>1, <4>2
      <4> QED  BY <2>1, <4>1, <4>3 DEF Made, SlotOf
    <3>2. CASE n # written[0] + 1
      <4>1. Out(n)  BY <1>0, <2>1, <2>2, <2>3, <3>2 DEF Out
      <4>2. Made(n, ring[SlotOf(n)])  BY <4>1 DEF MadeInv
      <4>3. /\ written'[1] = written[1] /\ written'[2] = written[2]
            /\ TID_NR > 5 => written'[3] = written[3] /\ written'[4] = written[4]
        BY <2>2 DEF Stages, Tids
      <4> QED  BY <2>1, <4>2, <4>3 DEF Made, SlotOf
    <3> QED  BY <3>1, <3>2
  <2> QED  BY <2>1, <2>3 DEF MadeInv
<1> QED
  BY <1>1, <1>3, <1>4, <1>5 DEF Capture

\* A picture in the hands of a stage is out, and none before it has passed it.
LEMMA HeldOut ==
  ASSUME TypeInv, PipeInv, NEW t \in Stages, Busy(t), NEW n, n = written[t] + 1
  PROVE  /\ n \in Nat /\ Out(n) /\ held[t] = Numbered(n) /\ held[t].output = SlotOf(n)
         /\ \A u \in Stages : u < t => n <= written[u]
         /\ \A u \in Stages : t < u => written[u] < n
<1>1. InHand(t) = 1 /\ held[t] = Numbered(n) /\ written[t] \in Nat /\ n \in Nat
      /\ t \in Int /\ t > 0
  <2>1. held[t] = Numbered(n)  BY DEF PipeInv, HeldInv
  <2>2. InHand(t) = 1  BY DEF InHand, Busy
  <2>3. written[t] \in Nat /\ t \in Int /\ t > 0  BY Constants, HandType
  <2> QED  BY <2>1, <2>2, <2>3
<1>2. \A u \in Tids : u < t => n <= written[u]
  BY <1>1 DEF PipeInv, OrderInv
<1>3. ASSUME NEW u \in Stages, t < u PROVE written[u] < n
  <2>1. written[u] + InHand(u) <= written[t]
    BY <1>3, Constants DEF PipeInv, OrderInv
  <2>2. written[u] \in Nat /\ InHand(u) \in {0, 1}  BY HandType
  <2> QED  BY <1>1, <2>1, <2>2
<1>4. n <= written[0]  BY <1>1, <1>2, Constants
<1>5. returned < n
  <2>1. written[TID_NR - 1] < n
    <3>1. CASE t = TID_NR - 1  BY <1>1, <3>1
    <3>2. CASE t # TID_NR - 1  BY <1>1, <1>3, <3>2, Constants DEF Stages, Tids
    <3> QED  BY <3>1, <3>2
  <2> QED  BY <1>1, <2>1, Bounds
<1>6. held[t].output = SlotOf(n)  BY <1>1, PictureFacts
<1>7. \A u \in Stages : u < t => n <= written[u]  BY <1>2, Constants
<1> QED  BY <1>1, <1>3, <1>4, <1>5, <1>6, <1>7 DEF Out

LEMMA MadeStage ==
  ASSUME TypeInv, PipeInv, ContentInv, MadeInv, NEW t \in Stages, Stage(t)
  PROVE  MadeInv'
<1>0. /\ ring \in [Slots -> Buffers] /\ ring_index \in Slots /\ returned \in Nat
      /\ written \in [Tids -> Nat] /\ t \in Tids /\ t \in Int /\ t > 0 /\ written[t] \in Nat
      /\ 1 \in Stages /\ 2 \in Stages /\ (TID_NR > 5 => 3 \in Stages /\ 4 \in Stages)
      /\ written[1] \in Nat /\ written[2] \in Nat
      /\ (TID_NR > 5 => written[3] \in Nat /\ written[4] \in Nat)
  <2>1. 1 \in Stages /\ 2 \in Stages /\ (TID_NR > 5 => 3 \in Stages /\ 4 \in Stages)
    BY DEF Stages, Tids
  <2> QED  BY <2>1, Constants DEF TypeInv, TypeOK
<1>1. CASE StageTake(t) \/ StageThrows(t) \/ SenderStart
  <2>1. UNCHANGED <<ring, ring_index, written, returned, flushing, capPC>>
    BY <1>1 DEF StageTake, StageThrows, SenderStart, SenderSame, capVars, mainVars
  <2> QED  BY <1>0, <2>1, MadeQuiet DEF Filling
<1>2. CASE Busy(t) /\ PassOn(t) /\ UNCHANGED <<ring_index, returned, flushing, capPC>>
           /\ \/ t = TID_NR - 1 /\ UNCHANGED ring
              \/ /\ t # TID_NR - 1
                 /\ ring' = IF flushing THEN ring
                            ELSE [ring EXCEPT ![held[t].output] = Work(t, ring[held[t].output])]
  <2>a. PICK n : n = written[t] + 1  OBVIOUS
  <2>b. PICK b : b = ring[SlotOf(n)]  OBVIOUS
  <2>1. /\ n \in Nat /\ Out(n) /\ held[t].output = SlotOf(n) /\ SlotOf(n) \in Slots
        /\ \A u \in Stages : u < t => n <= written[u]
        /\ \A u \in Stages : t < u => written[u] < n
    <3>1. /\ n \in Nat /\ Out(n) /\ held[t].output = SlotOf(n)
          /\ \A u \in Stages : u < t => n <= written[u]
          /\ \A u \in Stages : t < u => written[u] < n
      BY <1>2, <2>a, HeldOut
    <3>2. n > 0  BY <1>0, <3>1 DEF Out
    <3> QED  BY <3>1, <3>2, SlotType
  <2>2. written' = [written EXCEPT ![t] = n]
    BY <1>2, <2>a DEF PassOn
  <2>3. b \in Buffers /\ b.frame = n /\ Made(n, b)
    BY <1>0, <2>1, <2>b DEF ContentInv, MadeInv, Out
  <2>4. \A m \in Nat : Out(m)' <=> Out(m)
    <3>1. written'[0] = written[0]  BY <1>0, <2>2, Constants
    <3> QED  BY <1>2, <3>1 DEF Out
  <2>5. ASSUME NEW m \in Nat, Out(m), m # n PROVE Made(m, ring[SlotOf(m)])'
    <3>1. SlotOf(m) # SlotOf(n) /\ SlotOf(m) \in Slots
      <4>1. m > 0  BY <1>0, <2>5 DEF Out
      <4> QED  BY <2>1, <2>5, <4>1, OutDiffer, SlotType
    <3>2. ring'[SlotOf(m)] = ring[SlotOf(m)]
      BY <1>0, <1>2, <2>1, <3>1
    <3>3. Made(m, ring[SlotOf(m)])  BY <2>5 DEF MadeInv
    <3>4. \A u \in Stages : written'[u] = IF u = t THEN n ELSE written[u]
      BY <1>0, <2>2, Constants
    <3>5. \A u \in Stages : written[u] \in Nat /\ (m <= written'[u] <=> m <= written[u])
                            /\ (written'[u] < m <=> written[u] < m)
      BY <1>0, <2>a, <2>5, <3>4, Constants
    <3>6. /\ m <= written'[1] <=> m <= written[1]
          /\ written'[2] < m <=> written[2] < m
          /\ TID_NR > 5 => (m <= written'[3] <=> m <= written[3])
                           /\ (written'[4] < m <=> written[4] < m)
      BY <1>0, <3>5
    <3> QED  BY <1>2, <3>2, <3>3, <3>6 DEF Made, SlotOf
  <2> DEFINE c == ring'[SlotOf(n)]
  <2>6. /\ written'[t] = n
        /\ \A u \in Stages : u < t => n <= written'[u] /\ ~(written'[u] < n)
        /\ \A u \in Stages : t < u => ~(n <= written'[u])
        /\ ~(written'[t] < n)
    <3>1. \A u \in Stages : written'[u] = (IF u = t THEN n ELSE written[u]) /\ written[u] \in Nat
      BY <1>0, <2>2, Constants
    <3> QED  BY <1>0, <2>1, <3>1, Constants
  <2>7. Made(n, ring[SlotOf(n)])'
    <3>1. CASE t = TID_NR - 1
      <4>1. c = b  BY <1>2, <2>b, <3>1
      <4>2. ~(written'[2] < n)  BY <1>0, <2>6, <3>1
      <4>3. TID_NR > 5 => ~(written'[4] < n)  BY <1>0, <2>6, <3>1
      <4> QED  BY <2>3, <4>1, <4>2, <4>3 DEF Made, SlotOf
    <3>2. CASE t # TID_NR - 1 /\ flushing
      <4>1. c = b /\ flushing'  BY <1>2, <2>b, <3>2
      <4> QED  BY <2>3, <3>2, <4>1 DEF Made, SlotOf
    <3>3. CASE t # TID_NR - 1 /\ ~flushing
      <4>1. c = Work(t, b)  BY <1>0, <1>2, <2>1, <2>b, <3>3
      <4>2. CASE t = 1
        <5>1. c.detections = n /\ c.rects = b.rects /\ c.late = b.late
          <6>1. c = Detected(b)  BY <4>1, <4>2 DEF Work, TID_FACE_RECOGNIZE2
          <6> HIDE DEF c
          <6> QED  BY <2>3, <6>1 DEF Detected, Buffers
        <5>2. TID_NR > 5 => ~(n <= written'[3])  BY <1>0, <2>6, <4>2
        <5> HIDE DEF c
        <5> QED  BY <2>3, <5>1, <5>2 DEF Made, SlotOf, c
      <4>3. CASE t = 2
        <5>1. c.rects = b.detections /\ c.late = b.late
          <6>1. c = Aligned(b)  BY <4>1, <4>3 DEF Work, TID_FACE_RECOGNIZE2
          <6> HIDE DEF c
          <6> QED  BY <2>3, <6>1 DEF Aligned, Buffers
        <5>2. ~b.late => b.detections = n
          <6>1. n <= written[1] /\ written[2] < n  BY <1>0, <2>1, <2>a, <4>3
          <6> QED  BY <2>3, <3>3, <6>1 DEF Made
        <5>3. TID_NR > 5 => ~(n <= written'[3])  BY <1>0, <2>6, <4>3
        <5>4. ~(written'[2] < n)  BY <2>6, <4>3
        <5> HIDE DEF c
        <5> QED  BY <5>1, <5>2, <5>3, <5>4 DEF Made, SlotOf, c
      <4>4. CASE t = 3
        <5>1. c.rects = b.rects /\ c.late = b.late /\ c.face_embeddings = b.rects
          BY <2>3, <4>1, <4>4 DEF Work, Embedded, Buffers, TID_FACE_RECOGNIZE2
        <5>2. ~(written'[2] < n)  BY <1>0, <2>6, <4>4
        <5> HIDE DEF c
        <5> QED  BY <2>3, <5>1, <5>2 DEF Made, SlotOf, c
      <4>5. CASE t > 3
        <5>1. c = b  BY <4>1, <4>5 DEF Work, TID_FACE_RECOGNIZE2
        <5>2. ~(written'[2] < n)  BY <1>0, <2>6, <4>5
        <5>3. TID_NR > 5 => ~(written'[4] < n)
          <6>1. t = 4 \/ 4 < t  BY <1>0, <4>5
          <6> QED  BY <1>0, <2>6, <6>1
        <5> QED  BY <2>3, <5>1, <5>2, <5>3 DEF Made, SlotOf
      <4> QED  BY <1>0, <4>2, <4>3, <4>4, <4>5
    <3> QED  BY <3>1, <3>2, <3>3
  <2>8. ASSUME NEW m \in Nat, Out(m)' PROVE Made(m, ring[SlotOf(m)])'
    BY <2>4, <2>5, <2>7, <2>8
  <2>9. Filling' => ring'[ring_index'].rects = 0
    <3> SUFFICES ASSUME Filling' PROVE ring'[ring_index].rects = 0  BY <1>2
    <3>1. Filling /\ buffer_count > 0 /\ capPC # "count"
      BY <1>2 DEF Filling, TypeInv, CountPositive, InBatch
    <3>2. SlotOf(n) # ring_index
      <4>1. n # written[0] + 1  BY <1>0, <2>1, Bounds DEF Out
      <4> QED  BY <2>1, <3>1, <4>1, OutDiffer, NextSlot
    <3>3. ring'[ring_index] = ring[ring_index]  BY <1>0, <1>2, <2>1, <3>2
    <3> QED  BY <3>1, <3>3 DEF MadeInv
  <2> QED  BY <2>8, <2>9 DEF MadeInv
<1> QED
  BY <1>1, <1>2
     DEF Stage, StagePass, SenderSkip, SenderDone, SenderBusy, SenderSame, capVars, mainVars

LEMMA MadeMain ==
  ASSUME TypeInv, PipeInv, MadeInv, Main
  PROVE  MadeInv'
<1>0. ring \in [Slots -> Buffers] /\ returned \in Nat
  BY DEF TypeInv, TypeOK
<1>1. CASE FlushEnd
  <2>1. /\ UNCHANGED <<ring_index, written, returned, capPC>>
        /\ ring' = [s \in Slots |-> [ring[s] EXCEPT !.late = @ \/ s \in InFlight]]
    BY <1>1 DEF FlushEnd, capVars
  <2>2. ASSUME NEW s \in Slots
        PROVE  /\ ring'[s].rects = ring[s].rects /\ ring'[s].detections = ring[s].detections
               /\ ring'[s].face_embeddings = ring[s].face_embeddings
               /\ ring'[s].late <=> (ring[s].late \/ s \in InFlight)
    BY <1>0, <2>1 DEF Buffers
  <2>3. ASSUME NEW n \in Nat, Out(n)' PROVE Made(n, ring[SlotOf(n)])'
    <3>1. Out(n) /\ SlotOf(n) \in Slots
      <4>1. Out(n) /\ n > 0  BY <1>0, <2>1, <2>3 DEF Out
      <4> QED  BY <4>1, SlotType
    <3>2. Made(n, ring[SlotOf(n)])  BY <3>1 DEF MadeInv
    <3>3. n <= written[1] /\ written[2] < n => SlotOf(n) \in InFlight
      <4>1. 2 \in Stages /\ 2 - 1 = 1  BY DEF Stages, Tids
      <4> QED  BY <4>1, BetweenInFlight
    <3>4. TID_NR > 5 /\ n <= written[3] /\ written[4] < n => SlotOf(n) \in InFlight
      <4>1. TID_NR > 5 => 4 \in Stages /\ 4 - 1 = 3  BY DEF Stages, Tids
      <4> QED  BY <4>1, BetweenInFlight
    <3> QED  BY <2>1, <2>2, <3>1, <3>2, <3>3, <3>4 DEF Made, SlotOf
  <2>4. Filling' => ring'[ring_index'].rects = 0
    <3>1. ring_index \in Slots  BY DEF TypeInv, TypeOK
    <3> QED  BY <2>1, <2>2, <3>1 DEF MadeInv, Filling
  <2> QED  BY <2>3, <2>4 DEF MadeInv
<1>2. CASE MainCamera
  <2>1. UNCHANGED <<ring, ring_index, written, returned, flushing>> /\ (Filling' => Filling)
    BY <1>2 DEF MainCamera, Filling
  <2> QED  BY <1>0, <2>1, MadeQuiet
<1>3. CASE Accept \/ Accepted \/ ClientGone \/ FlushSeen \/ MainMode \/ MainPost
  <2>1. UNCHANGED <<ring, ring_index, written, returned, flushing, capPC>>
    BY <1>3 DEF Accept, Accepted, ClientGone, FlushSeen, MainMode, MainPost, MainSame, capVars, mainVars
  <2> QED  BY <1>0, <2>1, MadeQuiet DEF Filling
<1>4. ASSUME NEW c \in ClientCommands, ClientMsg(c) PROVE MadeInv'
  <2>1. UNCHANGED <<ring, ring_index, written, returned, capPC>> /\ (flushing => flushing')
    BY <1>4 DEF ClientMsg, MainSame, capVars
  <2> QED  BY <1>0, <2>1, MadeQuiet DEF Filling
<1> QED
  BY <1>1, <1>2, <1>3, <1>4 DEF Main, Handle

LEMMA MadeNext == TypeInv /\ PipeInv /\ ContentInv /\ MadeInv /\ [Next]_vars => MadeInv'
<1> SUFFICES ASSUME TypeInv, PipeInv, ContentInv, MadeInv, [Next]_vars PROVE MadeInv'
  OBVIOUS
<1>1. CASE Capture
  BY <1>1, MadeCapture
<1>2. ASSUME NEW t \in Stages, Stage(t) PROVE MadeInv'
  BY <1>2, MadeStage
<1>3. CASE Main
  BY <1>3, MadeMain
<1>4. CASE Ended \/ UNCHANGED vars
  <2>1. UNCHANGED <<ring, ring_index, written, returned, flushing, capPC>> /\ returned \in Nat
    BY <1>4 DEF Ended, vars, capVars, mainVars, TypeInv, TypeOK
  <2> QED  BY <2>1, MadeQuiet DEF Filling
<1> QED
  BY <1>1, <1>2, <1>3, <1>4 DEF Next

\* A buffer in flight is that of a picture that is out.
LEMMA InFlightOut ==
  ASSUME TypeInv, PipeInv, NEW s \in Slots, s \in InFlight
  PROVE  \E n \in Nat : Out(n) /\ s = SlotOf(n)
<1>1. PICK p \in (UNION {Range(chan[t]) : t \in Tids}) \cup Range(held) : p.output = s
  BY DEF InFlight
<1>2. s # NULL  BY Constants
<1>3. CASE p \in Range(held)
  <2>1. PICK t \in Stages : p = held[t]
    BY <1>3 DEF Range, TypeInv, TypeOK
  <2>2. Busy(t)  BY <1>1, <1>2, <2>1 DEF Busy, Nothing
  <2>3. PICK n : n = written[t] + 1  OBVIOUS
  <2> QED  BY <1>1, <2>1, <2>2, <2>3, HeldOut
<1>4. ASSUME NEW t \in Tids, p \in Range(chan[t]) PROVE \E n \in Nat : Out(n) /\ s = SlotOf(n)
  <2>1. chan[t] \in Seq(Pointers) /\ Len(chan[t]) \in Nat /\ written[t] \in Nat /\ written[0] \in Nat
    BY Constants DEF TypeInv, TypeOK
  <2>2. PICK j \in 1 .. Len(chan[t]) : p = chan[t][j]
    BY <1>4, <2>1 DEF Range
  <2>3. j \in 0 .. Len(chan[t]) /\ j > 0 /\ SlotAt(t, j) = s
    BY <1>1, <2>1, <2>2 DEF SlotAt
  <2>4. /\ PictureAt(t, j) \in Nat /\ s = SlotOf(PictureAt(t, j)) /\ returned < PictureAt(t, j)
        /\ PictureAt(t, j) <= written[t]
    BY <1>2, <2>3, PlaceFacts
  <2>5. written[t] <= written[0]
    <3>1. CASE t = 0  BY <2>1, <3>1
    <3>2. CASE t # 0
      <4>1. t \in Stages /\ 0 < t  BY <3>2, Constants
      <4>2. written[t] + InHand(t) <= written[0] /\ InHand(t) \in {0, 1}
        BY <4>1, HandType, Constants DEF PipeInv, OrderInv
      <4> QED  BY <2>1, <4>2
    <3> QED  BY <3>1, <3>2
  <2> QED  BY <2>1, <2>4, <2>5 DEF Out
<1> QED
  BY <1>1, <1>3, <1>4

LEMMA Contents == Spec => [](TypeInv /\ PipeInv /\ ContentInv /\ MadeInv)
BY TypeInit, PipeInit, ContentInit, MadeInit, TypeNext, PipeNext, ContentNext, MadeNext, PTL DEF Spec

\* The boxes of a picture come from its own detections, or a flush ended with
\* the picture in the pipeline: for any number of stages and any ring.
THEOREM BoxesAreFresh == Spec => []BoxesFresh
<1>1. ASSUME TypeInv, PipeInv, ContentInv, MadeInv PROVE BoxesFresh
  <2> SUFFICES ASSUME NEW s \in Slots, s \in InFlight
               PROVE  ring[s].rects \in {0, ring[s].frame} \/ ring[s].late
    BY DEF BoxesFresh
  <2>1. PICK n \in Nat : Out(n) /\ s = SlotOf(n)  BY <1>1, InFlightOut
  <2>2. Made(n, ring[s]) /\ ring[s].frame = n
    BY <1>1, <2>1 DEF MadeInv, ContentInv, Out
  <2> QED  BY <2>2 DEF Made
<1> QED
  BY <1>1, Contents, PTL

\* The server never looks up the name of a face that was not embedded, unless a
\* flush ended with its picture in the pipeline (alignment.cpp:205).
THEOREM NamedAreEmbedded == Spec => []NamesEmbedded
<1>1. ASSUME TypeInv, PipeInv, ContentInv, MadeInv PROVE NamesEmbedded
  <2> SUFFICES ASSUME NEW t \in Stages, Unnamable(t), ~flushing PROVE ring[held[t].output].late
    BY DEF NamesEmbedded
  <2>1. t = 4 /\ Busy(t) /\ TID_NR > 5 /\ 3 \in Stages
    BY DEF Unnamable, TID_FACE_RECOGNIZE3, Stages, Tids
  <2>2. PICK n : n = written[t] + 1  OBVIOUS
  <2>3. n \in Nat /\ Out(n) /\ held[t].output = SlotOf(n) /\ n <= written[3]
    BY <1>1, <2>1, <2>2, HeldOut
  <2>4. written[4] < n
    <3>1. written[t] \in Nat  BY <1>1, HandType
    <3> QED  BY <2>1, <2>2, <3>1
  <2>5. Made(n, ring[held[t].output])  BY <1>1, <2>3 DEF MadeInv
  <2> QED  BY <2>1, <2>3, <2>4, <2>5 DEF Made, Unnamable
<1> QED
  BY <1>1, Contents, PTL

-----------------------------------------------------------------------------
(* The pipeline implements the abstract stream of pictures.                *)

USE DEF Stream!vars

LEMMA StreamStep ==
  ASSUME TypeInv, PipeInv, [Next]_vars
  PROVE  [Stream!Next]_(Stream!vars)
<1>0. /\ returned \in Nat /\ written[0] \in Nat /\ written[TID_NR - 1] \in Nat
      /\ written \in [Tids -> Nat] /\ 0 # TID_NR - 1 /\ TID_NR - 1 \in Tids /\ 0 \in Tids
  BY Bounds, Constants DEF TypeInv, TypeOK
<1>1. CASE CaptureWrite
  <2>1. written[0] - returned < MJPEG_OUT_BUF_NR
    BY <1>1, Bounds DEF CaptureWrite, CaptureAt, Filling
  <2>2. Stream!Capture
    BY <1>0, <1>1, <2>1 DEF CaptureWrite, OthersSame, Stream!Capture
  <2> QED
    BY <2>2 DEF Stream!Next
<1>2. CASE CaptureReturned
  <2>1. returned < written[TID_NR - 1]
    BY <1>0, <1>2, Constants, ReturnsTail
       DEF CaptureReturned, PipeInv, ReturnInv, TypeInv, TypeOK
  <2>2. Stream!Return
    BY <1>0, <1>2, <2>1 DEF CaptureReturned, Stream!Return
  <2> QED
    BY <2>2 DEF Stream!Next
<1>3. CASE Capture /\ ~CaptureWrite /\ ~CaptureReturned
  BY <1>3
     DEF Capture, CaptureCommand, CaptureCheckFlushing, CaptureCheckPort, CaptureLoop,
         CaptureCamera, CaptureFill, CaptureCrash, CaptureCount, CountedOut, CaptureSame, OthersSame
<1>4. ASSUME Busy(TID_NR - 1), PassOn(TID_NR - 1)
      PROVE  /\ written[TID_NR - 1] < written[0]
             /\ written'[TID_NR - 1] = written[TID_NR - 1] + 1 /\ written'[0] = written[0]
             /\ held[TID_NR - 1].frame = written[TID_NR - 1] + 1
  <2>1. InHand(TID_NR - 1) = 1 /\ held[TID_NR - 1] = Numbered(written[TID_NR - 1] + 1)
    BY <1>4, Constants DEF InHand, Busy, PipeInv, HeldInv
  <2>2. written[TID_NR - 1] + 1 <= written[0]
    BY <2>1, Constants DEF PipeInv, OrderInv
  <2> QED
    BY <1>0, <1>4, <2>1, <2>2, PictureFacts DEF PassOn
<1>5. ASSUME NEW t \in Stages, Stage(t) PROVE [Stream!Next]_(Stream!vars)
  <2>1. CASE StageTake(t)
    BY <2>1 DEF StageTake
  <2>2. CASE StagePass(t)
    BY <1>0, <2>2, Constants DEF StagePass, PassOn
  <2>3. CASE SenderStart
    BY <2>3 DEF SenderStart, SenderSame
  <2>6. CASE StageThrows(t)
    BY <2>6 DEF StageThrows
  <2>4. CASE SenderSkip
    <3>1. Stream!Skip
      BY <1>4, <2>4 DEF SenderSkip, SenderBusy, SenderSame, Stream!Skip
    <3> QED
      BY <3>1 DEF Stream!Next
  <2>5. CASE SenderDone
    <3>1. Stream!Skip \/ Stream!Send
      BY <1>4, <2>5 DEF SenderDone, SenderBusy, SenderSame, Stream!Skip, Stream!Send
    <3> QED
      BY <3>1 DEF Stream!Next
  <2> QED
    BY <1>5, <2>1, <2>2, <2>3, <2>4, <2>5, <2>6 DEF Stage
<1>6. CASE Main
  BY <1>6
     DEF Main, Handle, Accept, Accepted, ClientGone, ClientMsg, FlushSeen, FlushEnd,
         MainCamera, MainMode, MainPost, MainSame
<1>7. CASE Ended \/ UNCHANGED vars
  BY <1>7 DEF Ended, vars
<1> QED
  BY <1>1, <1>2, <1>3, <1>5, <1>6, <1>7 DEF Next

\* Clients see pictures in the order they were captured, none twice, and never
\* more than the ring holds are between the camera and the network.
THEOREM StreamImplemented == Spec => ImplementsStream
<1>1. Init => Stream!Init
  BY Constants DEF Init, Stream!Init
<1> QED
  BY <1>1, StreamStep, Invariance, PTL DEF Spec, ImplementsStream, Stream!Spec

-----------------------------------------------------------------------------
(* No picture is lost.  The pair into the capture thread carries every     *)
(* picture the sender has passed and the capture thread has not got back;  *)
(* with ChanInv and HeldInv, which say it of the other threads, every      *)
(* picture that is out is somewhere in the pipeline.                       *)

Homeward(q, lo, hi) == \A n \in lo + 1 .. hi : \E j \in 1 .. Len(q) : q[j] = Numbered(n)
HomeInv == Homeward(chan[TID_NR - 1], returned, written[TID_NR - 1])

LEMMA HomewardAppend ==
  ASSUME NEW q \in Seq(Pointers), NEW lo, NEW hi, Homeward(q, lo, hi), NEW e \in Pointers
  PROVE  Homeward(Append(q, e), lo, hi)
<1> DEFINE r == Append(q, e)
<1>1. Len(r) = Len(q) + 1 /\ Len(q) \in Nat /\ \A j \in 1 .. Len(q) : r[j] = q[j]
  BY AppendFacts
<1>2. \A j \in 1 .. Len(q) : j \in 1 .. Len(r)
  BY <1>1
<1> HIDE DEF r
<1>3. Homeward(r, lo, hi)
  BY <1>1, <1>2 DEF Homeward
<1> QED
  BY <1>3 DEF r

LEMMA HomewardPicture ==
  ASSUME NEW q \in Seq(Pointers), NEW lo \in Nat, NEW hi \in Nat, Homeward(q, lo, hi)
  PROVE  Homeward(Append(q, Numbered(hi + 1)), lo, hi + 1)
<1> DEFINE r == Append(q, Numbered(hi + 1))
<1>1. Numbered(hi + 1) \in Pointers
  BY PictureFacts
<1>2. Len(r) = Len(q) + 1 /\ Len(q) \in Nat /\ r[Len(r)] = Numbered(hi + 1)
  BY <1>1, AppendFacts
<1>3. Homeward(r, lo, hi)
  BY <1>1, HomewardAppend
<1> HIDE DEF r
<1>4. ASSUME NEW n \in lo + 1 .. hi + 1 PROVE \E j \in 1 .. Len(r) : r[j] = Numbered(n)
  <2>1. CASE n = hi + 1
    BY <1>2, <2>1
  <2>2. CASE n # hi + 1
    <3>1. n \in lo + 1 .. hi
      BY <2>2
    <3> QED
      BY <1>3, <3>1 DEF Homeward
  <2> QED
    BY <2>1, <2>2
<1> QED
  BY <1>4 DEF Homeward, r

\* A command is read, or a picture: it is the oldest that is out.
LEMMA HomewardTail ==
  ASSUME NEW q \in Seq(Pointers), NEW lo \in Nat, NEW hi \in Nat,
         Returns(q, lo, hi), Homeward(q, lo, hi), q # <<>>
  PROVE  /\ Head(q).output = NULL => Homeward(Tail(q), lo, hi)
         /\ Head(q).output # NULL => Head(q) = Numbered(lo + 1) /\ Homeward(Tail(q), lo + 1, hi)
<1> DEFINE r == Tail(q)
<1>1. /\ Len(r) = Len(q) - 1 /\ Len(q) \in Nat /\ Len(q) >= 1 /\ Head(q) = q[1]
      /\ \A j \in 1 .. Len(q) - 1 : r[j] = q[j + 1]
      /\ \A j \in 1 .. Len(q) : q[j].frame \in Nat
  BY TailFacts, FrameType
<1> HIDE DEF r
<1>2. ASSUME NEW n \in lo + 1 .. hi, q[1] # Numbered(n)
      PROVE  \E j \in 1 .. Len(r) : r[j] = Numbered(n)
  <2>1. PICK j \in 1 .. Len(q) : q[j] = Numbered(n)
    BY DEF Homeward
  <2>2. j # 1 /\ j - 1 \in 1 .. Len(q) - 1 /\ (j - 1) + 1 = j
    BY <1>1, <1>2, <2>1
  <2>3. r[j - 1] = Numbered(n) /\ j - 1 \in 1 .. Len(r)
    BY <1>1, <2>1, <2>2
  <2> QED
    BY <2>3
<1>3. ASSUME q[1].output = NULL PROVE Homeward(r, lo, hi)
  <2>1. \A n \in lo + 1 .. hi : q[1] # Numbered(n)
    BY <1>3, PictureFacts
  <2> QED
    BY <1>2, <2>1 DEF Homeward
<1>4. ASSUME q[1].output # NULL PROVE q[1] = Numbered(lo + 1) /\ Homeward(r, lo + 1, hi)
  <2>1. 1 \in 1 .. Len(q) /\ lo < q[1].frame /\ q[1].frame <= hi /\ q[1].frame \in Nat
    BY <1>1, <1>4 DEF Returns
  <2>2. PICK j \in 1 .. Len(q) : q[j] = Numbered(lo + 1)
    BY <2>1 DEF Homeward
  <2>3. q[j].output # NULL /\ q[j].frame = lo + 1
    BY <2>2, PictureFacts
  <2>4. 1 < j => q[1].frame < q[j].frame
    BY <2>1, <2>3 DEF Returns
  <2>5. q[1] = Numbered(lo + 1)
    BY <2>1, <2>2, <2>3, <2>4
  <2>6. ASSUME NEW n \in lo + 2 .. hi PROVE n \in lo + 1 .. hi /\ q[1] # Numbered(n)
    BY <2>5, PictureFacts
  <2>7. Homeward(r, lo + 1, hi)
    <3>1. (lo + 1) + 1 = lo + 2
      OBVIOUS
    <3> QED
      BY <1>2, <2>6, <3>1 DEF Homeward
  <2> QED
    BY <2>5, <2>7
<1> QED
  BY <1>1, <1>3, <1>4 DEF r

LEMMA HomeQuiet ==
  ASSUME HomeInv, chan'[TID_NR - 1] = chan[TID_NR - 1], returned' = returned,
         written'[TID_NR - 1] = written[TID_NR - 1]
  PROVE  HomeInv'
BY DEF HomeInv

LEMMA HomeSendCmd ==
  ASSUME TypeInv, HomeInv, NEW c \in Commands, SendCmd(c), UNCHANGED <<written, returned>>
  PROVE  HomeInv'
<1> DEFINE e == Command(c, written[TID_NR - 1])
<1>1. chan[TID_NR - 1] \in Seq(Pointers) /\ e \in Pointers
  BY Constants, PointerTypes DEF TypeInv, TypeOK
<1>2. chan'[TID_NR - 1] = Append(chan[TID_NR - 1], e)
  BY Constants DEF SendCmd, TypeInv, TypeOK
<1> HIDE DEF e
<1> QED
  BY <1>1, <1>2, HomewardAppend DEF HomeInv

LEMMA HomePass ==
  ASSUME TypeInv, PipeInv, HomeInv, NEW t \in Stages, Busy(t), PassOn(t), returned' = returned
  PROVE  HomeInv'
<1>1. t \in Tids /\ written[t] \in Nat /\ returned \in Nat /\ chan[t] \in Seq(Pointers)
  BY Constants DEF TypeInv, TypeOK
<1>2. /\ chan' = [chan EXCEPT ![t] = Append(@, Numbered(written[t] + 1))]
      /\ written' = [written EXCEPT ![t] = @ + 1]
  BY DEF PassOn, PipeInv, HeldInv
<1>3. CASE t = TID_NR - 1
  <2>1. /\ chan'[t] = Append(chan[t], Numbered(written[t] + 1)) /\ written'[t] = written[t] + 1
    BY <1>1, <1>2 DEF TypeInv, TypeOK
  <2> QED
    BY <1>1, <1>3, <2>1, HomewardPicture DEF HomeInv
<1>4. CASE t # TID_NR - 1
  BY <1>2, <1>4, HomeQuiet, Constants DEF TypeInv, TypeOK
<1> QED
  BY <1>3, <1>4

LEMMA HomeNext == TypeInv /\ PipeInv /\ HomeInv /\ [Next]_vars => HomeInv'
<1> SUFFICES ASSUME TypeInv, PipeInv, HomeInv, [Next]_vars PROVE HomeInv'
  OBVIOUS
<1>0. /\ chan[TID_NR - 1] \in Seq(Pointers) /\ written[TID_NR - 1] \in Nat /\ returned \in Nat
      /\ Returns(chan[TID_NR - 1], returned, written[TID_NR - 1])
      /\ Homeward(chan[TID_NR - 1], returned, written[TID_NR - 1])
  BY Constants DEF TypeInv, TypeOK, PipeInv, ReturnInv, HomeInv
<1>1. CASE CaptureCommand
  <2>1. /\ chan'[TID_NR - 1] = Tail(chan[TID_NR - 1]) /\ UNCHANGED <<written, returned>>
        /\ chan[TID_NR - 1] # <<>> /\ Head(chan[TID_NR - 1]).output = NULL
    BY <1>1, Constants DEF CaptureCommand, TypeInv, TypeOK
  <2> QED
    BY <1>0, <2>1, HomewardTail DEF HomeInv
<1>2. CASE CaptureReturned
  <2>1. /\ chan'[TID_NR - 1] = Tail(chan[TID_NR - 1]) /\ written' = written /\ returned' = returned + 1
        /\ chan[TID_NR - 1] # <<>> /\ Head(chan[TID_NR - 1]).output # NULL
    BY <1>2, Constants DEF CaptureReturned, TypeInv, TypeOK
  <2> QED
    BY <1>0, <2>1, HomewardTail DEF HomeInv
<1>3. CASE CaptureWrite
  BY <1>3, HomeQuiet, Constants DEF CaptureWrite, TypeInv, TypeOK
<1>4. CASE \/ CaptureCheckFlushing \/ CaptureCheckPort \/ CaptureLoop \/ CaptureCamera
           \/ CaptureFill \/ CaptureCrash \/ CaptureCount
  BY <1>4, HomeQuiet DEF CaptureCheckFlushing, CaptureCheckPort, CaptureLoop, CaptureCamera,
     CaptureFill, CaptureCrash, CaptureCount, CaptureSame
<1>5. ASSUME NEW t \in Stages, Stage(t) PROVE HomeInv'
  <2>1. CASE StageTake(t)
    <3>1. chan' = [chan EXCEPT ![t - 1] = Tail(@)] /\ UNCHANGED <<written, returned>>
      BY <2>1 DEF StageTake
    <3>2. chan'[TID_NR - 1] = chan[TID_NR - 1]
      BY <3>1, Constants DEF TypeInv, TypeOK
    <3> QED
      BY <3>1, <3>2, HomeQuiet
  <2>2. CASE StagePass(t)
    BY <2>2, HomePass DEF StagePass
  <2>3. CASE StageThrows(t)
    BY <2>3, HomeQuiet DEF StageThrows
  <2>4. CASE t = TID_SENDER /\ (SenderSkip \/ SenderDone)
    BY <2>4, HomePass DEF SenderSkip, SenderDone, SenderBusy, SenderSame
  <2>5. CASE SenderStart
    BY <2>5, HomeQuiet DEF SenderStart, SenderSame
  <2> QED
    BY <1>5, <2>1, <2>2, <2>3, <2>4, <2>5 DEF Stage
<1>6. CASE Main
  <2>1. CASE Accepted
    BY <2>1, HomeQuiet, HomeSendCmd DEF Accepted, MainSame, Commands
  <2>2. CASE MainPost
    BY <2>2, HomeSendCmd DEF MainPost, MainSame, MainAt, TypeInv, MsgKnown
  <2>3. CASE \/ Accept \/ ClientGone \/ \E c \in ClientCommands : ClientMsg(c)
             \/ FlushSeen \/ FlushEnd \/ MainCamera \/ MainMode
    BY <2>3, HomeQuiet DEF Accept, ClientGone, ClientMsg, FlushSeen, FlushEnd, MainCamera, MainMode, MainSame
  <2> QED
    BY <1>6, <2>1, <2>2, <2>3 DEF Main, Handle
<1>7. CASE Ended \/ UNCHANGED vars
  BY <1>7, HomeQuiet DEF Ended, vars
<1> QED
  BY <1>1, <1>2, <1>3, <1>4, <1>5, <1>6, <1>7 DEF Next, Capture

LEMMA HomeInvariance == Spec => [](TypeInv /\ PipeInv /\ HomeInv)
<1>1. Init => HomeInv
  BY Constants DEF Init, HomeInv, Homeward
<1> QED
  BY <1>1, HomeNext, TypeInit, PipeInit, TypeNext, PipeNext, PTL DEF Spec

\* A set of natural numbers has a least one.
LEMMA Least ==
  ASSUME NEW T \in SUBSET Nat, T # {}
  PROVE  \E x \in T : \A y \in T : x <= y
<1> DEFINE R == {ss \in Nat \X Nat : ss[1] < ss[2]}
<1>1. OpToRel(<, Nat) = R
  BY Zenon DEF OpToRel
<1>2. IsWellFoundedOn(R, Nat)
  BY <1>1, NatLessThanWellFounded, Zenon
<1>3. PICK x \in T : \A y \in T : ~(<<y, x>> \in R)
  <2> HIDE DEF R
  <2> QED
    BY <1>2, WFMin, Zenon
<1>4. ASSUME NEW y \in T PROVE x <= y
  <2>1. x \in Nat /\ y \in Nat /\ ~(<<y, x>> \in R)
    BY <1>3
  <2> QED
    BY <2>1
<1> QED
  BY <1>4

\* Of a picture the sender has not passed, the first thread that has not.
LEMMA FirstBehind ==
  ASSUME TypeInv, NEW n \in Nat, n <= written[0], written[TID_NR - 1] < n
  PROVE  \E t \in Stages : written[t] < n /\ n <= written[t - 1]
<1> DEFINE T == {t \in Tids : written[t] < n}
<1>1. T \in SUBSET Nat /\ TID_NR - 1 \in T
  BY Constants DEF Tids
<1>2. PICK t \in T : \A u \in T : t <= u
  <2> HIDE DEF T
  <2> QED
    BY <1>1, Least
<1>3. t \in Stages /\ t - 1 \in Tids /\ t - 1 \notin T
  BY <1>2, Constants DEF TypeInv, TypeOK
<1> QED
  BY <1>2, <1>3 DEF TypeInv, TypeOK

\* Every picture that was handed over and has not come home is in the hands of
\* a thread or on its way between two: nothing a flush, a lost client or a
\* failed transmission makes the threads skip loses a buffer
\* (LgFaceRecDemoTCP.cpp:944).
NoneLost ==
  \A n \in returned + 1 .. written[TID_CAPTURE] :
    \/ \E t \in Stages : held[t] = Numbered(n)
    \/ \E t \in Tids : \E j \in 1 .. Len(chan[t]) : chan[t][j] = Numbered(n)

\* Buffers come home in the order of their pictures, each once: the capture
\* thread counts them and never looks which one it has got
\* (LgFaceRecDemoTCP.cpp:805).
ReturnedInOrder ==
  [][CaptureReturned => Head(chan[TID_SENDER]) = Numbered(returned')]_vars

\* The capture thread, or another thread of the pipeline, has a step to take
\* that does not wait for the main thread.
CanMove == \/ capPC # "poll" \/ chan[TID_SENDER] # <<>>
           \/ \E t \in Stages : Busy(t) \/ chan[t - 1] # <<>>

\* A flush never waits for nothing: the flag is up, and unless every buffer is
\* counted home some thread can still move one (LgFaceRecDemoTCP.cpp:381).
FlushNeverStuck == proc = "up" /\ mainPC = "flush" => flushing /\ (AllHome \/ CanMove)

LEMMA NoneIsLost ==
  ASSUME TypeInv, PipeInv, HomeInv
  PROVE  NoneLost
<1>1. ASSUME NEW n \in returned + 1 .. written[0]
      PROVE  \/ \E t \in Stages : held[t] = Numbered(n)
             \/ \E t \in Tids : \E j \in 1 .. Len(chan[t]) : chan[t][j] = Numbered(n)
  <2>0. n \in Nat /\ returned \in Nat /\ written[0] \in Nat /\ written[TID_NR - 1] \in Nat
    BY Constants DEF TypeInv, TypeOK
  <2>1. CASE n <= written[TID_NR - 1]
    <3>1. n \in returned + 1 .. written[TID_NR - 1]
      BY <2>0, <2>1
    <3> QED
      BY <3>1, Constants DEF HomeInv, Homeward
  <2>2. CASE written[TID_NR - 1] < n
    <3>1. PICK t \in Stages : written[t] < n /\ n <= written[t - 1]
      BY <2>0, <2>2, FirstBehind
    <3>2. t - 1 \in Tids /\ written[t] \in Nat /\ written[t - 1] \in Nat /\ InHand(t) \in {0, 1}
      BY <3>1, HandType, Constants DEF TypeInv, TypeOK
    <3>3. CASE n = written[t] + 1 /\ InHand(t) = 1
      <4>1. held[t] = Numbered(n)
        BY <3>3 DEF PipeInv, HeldInv, InHand, Busy
      <4> QED
        BY <4>1
    <3>4. CASE ~(n = written[t] + 1 /\ InHand(t) = 1)
      <4> DEFINE lo == written[t] + InHand(t)
                 j == n - lo
      <4>1. Carries(chan[t - 1], lo, written[t - 1])
        BY DEF PipeInv, ChanInv
      <4>2. lo \in Nat /\ lo < n /\ j \in 1 .. written[t - 1] - lo /\ lo + j = n
        BY <2>0, <3>1, <3>2, <3>4
      <4> HIDE DEF lo, j
      <4>3. j \in 1 .. Len(chan[t - 1]) /\ chan[t - 1][j] = Numbered(n)
        BY <4>1, <4>2 DEF Carries
      <4> QED
        BY <3>2, <4>3
    <3> QED
      BY <3>3, <3>4
  <2> QED
    BY <2>0, <2>1, <2>2
<1> QED
  BY <1>1 DEF NoneLost

\* No picture is lost, for any ring and any number of threads.
THEOREM NothingIsLost == Spec => []NoneLost
BY NoneIsLost, HomeInvariance, PTL

\* Buffers come home in order.
THEOREM BuffersReturnInOrder == Spec => ReturnedInOrder
<1>1. ASSUME TypeInv, PipeInv, HomeInv, CaptureReturned
      PROVE  Head(chan[TID_SENDER]) = Numbered(returned')
  <2>1. /\ chan[TID_NR - 1] \in Seq(Pointers) /\ chan[TID_NR - 1] # <<>>
        /\ Head(chan[TID_NR - 1]).output # NULL /\ returned' = returned + 1
        /\ returned \in Nat /\ written[TID_NR - 1] \in Nat
    BY <1>1, Constants DEF CaptureReturned, TypeInv, TypeOK
  <2> QED
    BY <1>1, <2>1, HomewardTail DEF PipeInv, ReturnInv, HomeInv
<1>2. TypeInv /\ PipeInv /\ HomeInv /\ [Next]_vars
        => [CaptureReturned => Head(chan[TID_SENDER]) = Numbered(returned')]_vars
  BY <1>1
<1> QED
  BY <1>2, HomeInvariance, PTL DEF Spec, ReturnedInOrder

\* A flush can always go on.
THEOREM FlushCanGoOn == Spec => []FlushNeverStuck
<1> DEFINE FlagUp == mainPC = "flush" => flushing
<1>1. Init => FlagUp
  BY DEF Init
<1>2. FlagUp /\ [Next]_vars => FlagUp'
  <2> SUFFICES ASSUME FlagUp, [Next]_vars PROVE FlagUp'
    OBVIOUS
  <2>1. CASE Capture
    BY <2>1 DEF Capture, CaptureCommand, CaptureReturned, CaptureCheckFlushing, CaptureCheckPort,
       CaptureLoop, CaptureCamera, CaptureFill, CaptureCrash, CaptureWrite, CaptureCount,
       OthersSame, mainVars
  <2>2. ASSUME NEW t \in Stages, Stage(t) PROVE FlagUp'
    BY <2>2 DEF Stage, StageTake, StagePass, StageThrows, SenderSkip, SenderStart, SenderDone,
       SenderSame, mainVars
  <2>3. CASE Main
    BY <2>3 DEF Main, Handle, Accept, Accepted, ClientGone, ClientMsg, FlushSeen, FlushEnd,
       MainCamera, MainMode, MainPost, MainAt, mainVars
  <2>4. CASE Ended \/ UNCHANGED vars
    BY <2>4 DEF Ended, vars, mainVars
  <2> QED
    BY <2>1, <2>2, <2>3, <2>4 DEF Next
<1>3. TypeInv /\ PipeInv /\ HomeInv /\ FlagUp => FlushNeverStuck
  <2> SUFFICES ASSUME TypeInv, PipeInv, HomeInv, FlagUp, mainPC = "flush", ~AllHome, ~CanMove
               PROVE  FALSE
    BY DEF FlushNeverStuck
  <2>0. /\ returned \in Nat /\ written[0] \in Nat /\ written[TID_NR - 1] \in Nat
        /\ buffer_count \in Nat /\ returned <= written[0]
    BY Bounds, Constants DEF TypeInv, TypeOK
  <2>1. capPC # "count" /\ buffer_count # MJPEG_OUT_BUF_NR
    BY DEF CanMove, AllHome
  <2>2. returned + 1 \in returned + 1 .. written[0]
    BY <2>0, <2>1 DEF PipeInv, CountAgrees
  <2>3. ASSUME NEW t \in Tids PROVE chan[t] = <<>>
    <3>1. CASE t = TID_NR - 1
      BY <3>1 DEF CanMove
    <3>2. CASE t # TID_NR - 1
      <4>1. t + 1 \in Stages /\ (t + 1) - 1 = t
        BY <3>2, Constants
      <4> QED
        BY <4>1 DEF CanMove
    <3> QED
      BY <3>1, <3>2
  <2>4. \A t \in Stages : held[t] = Nothing
    BY DEF CanMove, Busy
  <2>5. Numbered(returned + 1) # Nothing
    BY <2>0, PictureFacts
  <2> QED
    BY <2>2, <2>3, <2>4, <2>5, NoneIsLost DEF NoneLost
<1> QED
  BY <1>1, <1>2, <1>3, HomeInvariance, PTL DEF Spec
=============================================================================
