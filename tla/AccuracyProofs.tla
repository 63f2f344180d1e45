---------------------------- MODULE AccuracyProofs ----------------------------
(***************************************************************************)
(* Proofs about Accuracy for any list of test pictures, any video, any     *)
(* number of buffers and commands.                                         *)
(***************************************************************************)
EXTENDS Accuracy, TLAPS

LEMMA Frames ==
  /\ ACC_FRAME_NR \in Nat \ {0} /\ LastTestFrame \in Nat \ {0}
  /\ \A i \in 1 .. ACC_FRAME_NR :
       AccTestFrames[i] \in Nat \ {0} /\ AccTestFrames[i] <= LastTestFrame
  /\ \A i \in 1 .. ACC_FRAME_NR : AccTestFrames[i] = LastTestFrame => i = ACC_FRAME_NR
<1>1. ACC_FRAME_NR \in Nat /\ \A i \in 1 .. ACC_FRAME_NR : AccTestFrames[i] \in Nat \ {0}
  BY AccuracyAssumption DEF ACC_FRAME_NR
<1>2. ACC_FRAME_NR # 0
  BY AccuracyAssumption DEF ACC_FRAME_NR
<1>3. \A i \in 1 .. ACC_FRAME_NR : i # ACC_FRAME_NR => AccTestFrames[i] < LastTestFrame
  BY <1>1, <1>2, AccuracyAssumption DEF LastTestFrame
<1> QED BY <1>1, <1>2, <1>3 DEF LastTestFrame

\* The next index: the first after the last, else one more.
LEMMA NextIdx ==
  ASSUME NEW i \in 1 .. ACC_FRAME_NR
  PROVE  /\ (i % ACC_FRAME_NR) + 1 \in 1 .. ACC_FRAME_NR
         /\ (i % ACC_FRAME_NR) + 1 = 1 <=> i = ACC_FRAME_NR
<1>1. CASE i = ACC_FRAME_NR
  <2>1. i % ACC_FRAME_NR = 0 BY <1>1, Frames
  <2> QED BY <2>1, <1>1, Frames
<1>2. CASE i < ACC_FRAME_NR
  <2>1. i % ACC_FRAME_NR = i BY <1>2, Frames
  <2> QED BY <2>1, <1>2, Frames
<1> QED BY <1>1, <1>2, Frames

-----------------------------------------------------------------------------
(* Types.                                                                  *)

\* In its loop the capture thread has a buffer.
Room == capturing => out < MJPEG_OUT_BUF_NR

TInv == TypeOK /\ Room

LEMMA TypeInit == Init => TInv
<1> SUFFICES ASSUME Init PROVE TInv
  OBVIOUS
<1>1. length \in Nat \ {0} /\ FrameCount \in 0 .. length
  BY AccuracyAssumption DEF Init
<1>2. shown \in Seq(Nat)
  BY DEF Init
<1>3. acc_idx \in 1 .. ACC_FRAME_NR /\ from \in 1 .. ACC_FRAME_NR
  BY Frames DEF Init
<1>4. out \in 0 .. MJPEG_OUT_BUF_NR /\ cmds \in 0 .. MAX_CMDS
  BY AccuracyAssumption DEF Init
<1>5. posted \in Seq(Commands) /\ {mode, msg} \subseteq Commands
  BY DEF Init, Commands
<1> QED BY <1>1, <1>2, <1>3, <1>4, <1>5 DEF Init, TInv, Room, TypeOK

\* A picture found is one of the video.
LEMMA WantedIn ==
  ASSUME TypeOK, Found
  PROVE  Wanted \in Nat \ {0} /\ Wanted <= Readable /\ Readable <= length /\ FrameCount < Wanted
<1>1. length \in Nat \ {0} /\ Readable \in Nat /\ Readable <= length
  BY AccuracyAssumption DEF TypeOK, Readable
<1>2. Wanted \in Nat \ {0}
  BY <1>1, Frames DEF TypeOK, Wanted
<1> QED BY <1>1, <1>2 DEF Found

LEMMA CapturedTypes ==
  ASSUME TypeOK, Room, capturing, Captured
  PROVE  out' \in 0 .. MJPEG_OUT_BUF_NR /\ Room' /\ capturing' \in BOOLEAN
<1>1. MJPEG_OUT_BUF_NR \in Nat /\ out \in Nat /\ out < MJPEG_OUT_BUF_NR
  BY AccuracyAssumption DEF TypeOK, Room
<1>2. out' = out + 1 /\ capturing' = (out' < MJPEG_OUT_BUF_NR)
  BY DEF Captured
<1>3. out' \in 0 .. MJPEG_OUT_BUF_NR
  BY <1>1, <1>2
<1>4. capturing' <=> out' < MJPEG_OUT_BUF_NR
  BY <1>2
<1>5. (out' < MJPEG_OUT_BUF_NR) \in BOOLEAN
  OBVIOUS
<1>6. capturing' \in BOOLEAN
  BY <1>2, <1>5, Zenon
<1> QED BY <1>3, <1>4, <1>6, Zenon DEF Room

LEMMA OnTypes ==
  ASSUME CapturesOn, out' \in 0 .. MJPEG_OUT_BUF_NR
  PROVE  Room' /\ capturing' \in BOOLEAN
<1>1. capturing' = (connected /\ main # "flush" /\ out' < MJPEG_OUT_BUF_NR)
  BY DEF CapturesOn
<1>2. (connected /\ main # "flush" /\ out' < MJPEG_OUT_BUF_NR) \in BOOLEAN
  OBVIOUS
<1>3. capturing' \in BOOLEAN
  BY <1>1, <1>2, Zenon
<1>4. capturing' => out' < MJPEG_OUT_BUF_NR
  BY <1>1
<1> QED BY <1>3, <1>4 DEF Room

LEMMA TypeNext == TInv /\ [Next]_vars => TInv'
<1> SUFFICES ASSUME TInv, [Next]_vars PROVE TInv'
  OBVIOUS
<1> USE DEF TInv
<1>0. /\ length \in Nat \ {0} /\ Readable \in 0 .. length
      /\ out \in Nat /\ MJPEG_OUT_BUF_NR \in Nat \ {0}
  BY AccuracyAssumption DEF TypeOK, Readable
<1>1. CASE CaptureFile
  <2>1. CASE LoadMotionJpegFrame /\ Captured
    <3>1. acc_idx' \in 1 .. ACC_FRAME_NR
      BY <2>1, NextIdx DEF LoadMotionJpegFrame, ReadMotionJpeg, AccIdxAfter, NextAccIdx, TypeOK
    <3>2. Wanted \in Nat /\ FrameCount' \in 0 .. length
      BY <2>1, <1>0, WantedIn DEF LoadMotionJpegFrame, ReadMotionJpeg
    <3>3. shown' \in Seq(Nat)
      BY <2>1, <3>2 DEF LoadMotionJpegFrame, TypeOK
    <3>4. out' \in 0 .. MJPEG_OUT_BUF_NR /\ Room' /\ capturing' \in BOOLEAN
      BY <1>1, <2>1, CapturedTypes DEF CaptureFile
    <3>5. face_detect_acc_test_mode' \in BOOLEAN
      BY <2>1 DEF LoadMotionJpegFrame, TypeOK
    <3> QED BY <1>1, <2>1, <3>1, <3>2, <3>3, <3>4, <3>5
            DEF CaptureFile, LoadMotionJpegFrame, TypeOK, video, handler
  <2>2. CASE LoadFails /\ GivenUp
    <3>1. FrameCount' \in 0 .. length
      BY <2>2, <1>0 DEF LoadFails, TypeOK
    <3>2. failbit' \in BOOLEAN
      BY <2>2 DEF LoadFails, TypeOK
    <3> QED BY <1>1, <2>2, <3>1, <3>2
            DEF CaptureFile, LoadFails, GivenUp, TypeOK, Room, video, handler, history
  <2>3. CASE DecodeFails /\ GivenUp
    <3>1. acc_idx' \in 1 .. ACC_FRAME_NR
      BY <2>3, NextIdx DEF DecodeFails, ReadMotionJpeg, AccIdxAfter, NextAccIdx, TypeOK
    <3>2. FrameCount' \in 0 .. length
      BY <2>3, <1>0, WantedIn DEF DecodeFails, ReadMotionJpeg
    <3> QED BY <1>1, <2>3, <3>1, <3>2
            DEF CaptureFile, DecodeFails, GivenUp, TypeOK, Room, video, handler
  <2> QED BY <1>1, <2>1, <2>2, <2>3 DEF CaptureFile
<1>2. CASE CaptureCamera
  <2>1. out' \in 0 .. MJPEG_OUT_BUF_NR /\ Room' /\ capturing' \in BOOLEAN
    <3>1. CASE Captured
      BY <1>2, <3>1, CapturedTypes DEF CaptureCamera
    <3>2. CASE GivenUp
      BY <3>2 DEF GivenUp, Room, TypeOK
    <3> QED BY <1>2, <3>1, <3>2 DEF CaptureCamera
  <2> QED BY <1>2, <2>1 DEF CaptureCamera, TypeOK, video, reader, handler, history
<1>3. CASE Returned
  <2>1. out' \in 0 .. MJPEG_OUT_BUF_NR /\ Room' /\ capturing' \in BOOLEAN
    BY <1>0, <1>3, OnTypes DEF Returned, TypeOK
  <2> QED BY <1>3, <2>1 DEF Returned, TypeOK, video, reader, handler, history
<1>4. CASE Commanded
  <2> DEFINE c == Head(posted)
  <2>1. posted' \in Seq(Commands) /\ c \in Commands
    BY <1>4 DEF Commanded, TypeOK
  <2>2. out' \in 0 .. MJPEG_OUT_BUF_NR /\ Room' /\ capturing' \in BOOLEAN
    BY <1>0, <1>4, OnTypes DEF Commanded, TypeOK
  <2>3. handle_cmd_msg(c)
    BY <1>4 DEF Commanded
  <2>4. /\ shown' = <<>> /\ mode' = c /\ spoiled' = FALSE
        /\ from' \in {acc_idx, from}
    BY <2>3 DEF handle_cmd_msg, Recorded
  <2>9. /\ shown' \in Seq(Nat) /\ mode' \in Commands /\ spoiled' \in BOOLEAN
        /\ from' \in 1 .. ACC_FRAME_NR
    <3>1. from' \in 1 .. ACC_FRAME_NR
      BY <2>4 DEF TypeOK
    <3>2. <<>> \in Seq(Nat)
      OBVIOUS
    <3> QED BY <2>1, <2>4, <3>1, <3>2, Zenon
  <2>5. cut' \in BOOLEAN
    BY <2>3, Zenon DEF handle_cmd_msg, Recorded, TypeOK, TestCut
  <2>6. input_mode' \in {"file", "camera"}
    BY <2>3 DEF handle_cmd_msg, TypeOK
  <2>7. /\ failbit' \in BOOLEAN /\ acc_idx' \in 1 .. ACC_FRAME_NR
        /\ FrameCount' \in 0 .. length /\ face_detect_acc_test_mode' \in BOOLEAN
    <3>1. CASE c \in FileCommands
      BY <2>3, <3>1, <1>0 DEF handle_cmd_msg, RewindMotionJpegFile, TypeOK
    <3>2. CASE c \notin FileCommands
      BY <2>3, <3>2, <1>0 DEF handle_cmd_msg, reader, TypeOK
    <3> QED BY <3>1, <3>2
  <2>8. UNCHANGED <<length, torn, g_camera, connected, main, msg, cmds, alone>>
    BY <1>4 DEF Commanded, video
  <2> QED BY <2>1, <2>2, <2>5, <2>6, <2>7, <2>8, <2>9 DEF TypeOK
<1>5. ASSUME NEW c \in Commands, ClientMsg(c) PROVE TInv'
  <2>1. cmds' \in 0 .. MAX_CMDS
    BY <1>5, AccuracyAssumption DEF ClientMsg, TypeOK
  <2>2. main' \in {"epoll", "flush", "post"}
    BY <1>5 DEF ClientMsg
  <2> QED BY <1>5, <2>1, <2>2 DEF ClientMsg, TypeOK, Room, video, reader
<1>6. CASE FlushEnd
  BY <1>6 DEF FlushEnd, TypeOK, Room, video, reader, history
<1>7. CASE Post
  <2>1. posted' \in Seq(Commands)
    BY <1>7 DEF Post, TypeOK
  <2>2. g_camera' \in BOOLEAN
    BY <1>7 DEF Post, TypeOK
  <2> QED BY <1>7, <2>1, <2>2 DEF Post, TypeOK, Room, video, reader, history
<1>8. CASE Rescan
  <2>1. shown' \in Seq(Nat) /\ acc_idx' \in 1 .. ACC_FRAME_NR /\ from' \in 1 .. ACC_FRAME_NR
    BY <1>8, Frames DEF Rescan
  <2>2. out' \in 0 .. MJPEG_OUT_BUF_NR /\ Room' /\ FrameCount' \in 0 .. length'
    BY <1>8, <1>0 DEF Rescan, Room, video
  <2>3. posted' \in Seq(Commands) /\ mode' \in Commands
    BY <1>8 DEF Rescan, Commands
  <2> QED BY <1>8, <2>1, <2>2, <2>3 DEF Rescan, TypeOK, video
<1>9. CASE Accept
  BY <1>9 DEF Accept, TypeOK, Room, video, reader, handler, history
<1>10. CASE ClientGone
  BY <1>10 DEF ClientGone, TypeOK, Room, video, reader, handler
<1>11. CASE UNCHANGED vars
  BY <1>11 DEF vars, TypeOK, Room, video, reader, handler, history
<1> QED BY <1>1, <1>2, <1>3, <1>4, <1>5, <1>6, <1>7, <1>8, <1>9, <1>10, <1>11
    DEF Next, Capture, Main

\* The capture thread and the reader keep the types of their variables.
THEOREM TypeCorrect == Spec => []TypeOK
<1>1. TInv => TypeOK
  BY DEF TInv
<1> QED BY <1>1, TypeInit, TypeNext, PTL DEF Spec
-----------------------------------------------------------------------------
(* WholeUnlessCut.                                                         *)

\* The last test has shown its last picture.
Complete == IF mode = "TEST_ACC" THEN ~TestCut ELSE ~cut

\* acc_idx is back at the beginning when a test has shown its last picture,
\* and nothing moves it until the next.
WInv ==
  /\ face_detect_acc_test_mode => mode # "TEST_RUN"
  /\ mode = "TEST_ACC" => /\ face_detect_acc_test_mode
                          /\ from # 1 => cut
                          /\ ~TestCut => acc_idx = 1
  /\ mode # "TEST_ACC" /\ acc_idx # 1 => cut
  /\ face_detect_acc_test_mode /\ Complete => FrameCount >= LastTestFrame

IInv == TInv /\ (Fits => WInv)

LEMMA WInit == Init => WInv
BY DEF Init, WInv, Complete

LEMMA WLoad ==
  ASSUME TInv, Fits, WInv, LoadMotionJpegFrame, UNCHANGED <<video, mode>>
  PROVE  WInv'
<1>1. /\ Wanted \in Nat \ {0} /\ Wanted <= length /\ FrameCount < Wanted
      /\ length \in Nat /\ FrameCount \in Nat /\ Readable = length
  BY WantedIn, AccuracyAssumption DEF LoadMotionJpegFrame, ReadMotionJpeg, TInv, TypeOK, Fits,
     Readable
<1>2. CASE ~face_detect_acc_test_mode
  BY <1>2 DEF LoadMotionJpegFrame, ReadMotionJpeg, WInv, Complete, TestCut
<1>3. CASE face_detect_acc_test_mode
  <2>1. Wanted = AccTestFrames[acc_idx] /\ acc_idx \in 1 .. ACC_FRAME_NR
    BY <1>3 DEF Wanted, TInv, TypeOK
  <2>2. Wanted <= LastTestFrame /\ (Wanted = LastTestFrame <=> acc_idx = ACC_FRAME_NR)
    BY <2>1, Frames DEF LastTestFrame
  <2>3. ~RewoundAtEnd
    BY <2>2, <1>1, Frames DEF Fits, RewoundAtEnd, AtEnd
  <2>4. FrameCount' = Wanted /\ face_detect_acc_test_mode'
    BY <2>3, <1>3 DEF LoadMotionJpegFrame
  <2>5. acc_idx' = 1 <=> Wanted = LastTestFrame
    BY <2>2, <2>1, <1>3, NextIdx DEF LoadMotionJpegFrame, ReadMotionJpeg, AccIdxAfter, NextAccIdx
  <2>6. shown' = Append(shown, Wanted) /\ from' = from /\ cut' = cut
    BY <1>3 DEF LoadMotionJpegFrame
  <2>7. shown' # <<>> /\ shown'[Len(shown')] = Wanted
    BY <2>6, <1>1 DEF TInv, TypeOK
  <2>8. FrameCount < LastTestFrame
    BY <1>1, <2>2, Frames
  <2>9. CASE mode = "TEST_ACC"
    <3>1. TestCut' <=> Wanted # LastTestFrame
      BY <2>7, <2>9 DEF TestCut
    <3> QED BY <3>1, <2>9, <1>3, <2>4, <2>5, <2>6, <2>7, Frames DEF WInv, Complete
  <2>10. CASE mode # "TEST_ACC"
    <3>1. cut
      BY <2>10, <1>1, <1>3, <2>8, Frames DEF WInv, Complete
    <3>2. cut' /\ mode' # "TEST_ACC" /\ mode' # "TEST_RUN"
      BY <3>1, <2>10, <2>6, <1>3 DEF WInv
    <3>3. ~Complete'
      BY <3>2 DEF Complete
    <3> QED BY <3>2, <3>3 DEF WInv
  <2> QED BY <2>9, <2>10
<1> QED BY <1>2, <1>3 DEF TInv, TypeOK

LEMMA WDecode ==
  ASSUME TInv, Fits, WInv, DecodeFails, UNCHANGED <<video>>
  PROVE  WInv'
<1>1. /\ Wanted \in Nat \ {0} /\ Wanted <= length /\ FrameCount < Wanted /\ length \in Nat
      /\ FrameCount \in Nat
  BY WantedIn, AccuracyAssumption DEF DecodeFails, ReadMotionJpeg, TInv, TypeOK, Readable
<1>2. /\ UNCHANGED <<face_detect_acc_test_mode, mode, shown, from, cut>>
      /\ FrameCount' = Wanted
      /\ acc_idx' = IF face_detect_acc_test_mode THEN AccIdxAfter ELSE acc_idx
  BY DEF DecodeFails, ReadMotionJpeg
<1>3. (TestCut' <=> TestCut) /\ (Complete' <=> Complete)
  BY <1>2 DEF TestCut, Complete
<1>4. CASE ~face_detect_acc_test_mode
  BY <1>2, <1>3, <1>4 DEF WInv
\* The picture is one of the list, so the test is not complete.
<1>5. CASE face_detect_acc_test_mode
  <2>1. Wanted = AccTestFrames[acc_idx] /\ acc_idx \in 1 .. ACC_FRAME_NR
    BY <1>5 DEF Wanted, TInv, TypeOK
  <2>2. FrameCount < LastTestFrame
    BY <1>1, <2>1, Frames
  <2>3. ~Complete
    BY <1>1, <1>5, <2>2, Frames DEF WInv
  <2> QED BY <1>2, <1>3, <1>5, <2>3 DEF WInv, Complete
<1> QED BY <1>4, <1>5 DEF TInv, TypeOK

LEMMA WFails ==
  ASSUME TInv, Fits, WInv, LoadFails, UNCHANGED <<video, mode>>
  PROVE  WInv'
<1>1. FrameCount' = FrameCount \/ FrameCount' >= LastTestFrame
  BY AccuracyAssumption, Frames DEF LoadFails, Readable, Fits, TInv, TypeOK
<1> QED BY <1>1 DEF LoadFails, WInv, Complete, TestCut, history

LEMMA WCommand ==
  ASSUME TInv, Fits, WInv, NEW c \in Commands, handle_cmd_msg(c)
  PROVE  WInv'
<1>1. /\ mode' = c /\ acc_idx' = acc_idx /\ shown' = <<>>
      /\ from' = IF c = "TEST_ACC" THEN acc_idx ELSE from
      /\ cut' = IF mode = "TEST_ACC" THEN TestCut ELSE cut
  BY DEF handle_cmd_msg, RewindMotionJpegFile, Recorded, reader
<1>2. acc_idx # 1 => cut'
  BY <1>1 DEF WInv, TestCut
<1>3. CASE c \in FileCommands
  <2>1. face_detect_acc_test_mode' = (c = "TEST_ACC")
    BY <1>3 DEF handle_cmd_msg
  <2>2. TestCut' <=> c = "TEST_ACC"
    BY <1>1 DEF TestCut
  <2> QED BY <1>1, <1>2, <2>1, <2>2 DEF WInv, Complete
<1>4. CASE c \notin FileCommands
  <2>1. face_detect_acc_test_mode' = face_detect_acc_test_mode /\ FrameCount' = FrameCount
    BY <1>4 DEF handle_cmd_msg, reader
  <2>2. c # "TEST_ACC" /\ c # "TEST_RUN"
    BY <1>4 DEF FileCommands
  <2>3. Complete' <=> Complete
    BY <1>1, <2>2 DEF Complete, TestCut
  <2> QED BY <1>1, <1>2, <2>1, <2>2, <2>3 DEF WInv
<1> QED BY <1>3, <1>4

\* The steps that leave what a test is about as it is.
Quiet == UNCHANGED <<video, reader, mode, shown, from, cut, spoiled>>

LEMMA QuietSteps ==
  CaptureCamera \/ Returned \/ FlushEnd \/ Post \/ Accept \/ ClientGone
    \/ (\E c \in Commands : ClientMsg(c)) \/ UNCHANGED vars
  => Quiet
BY DEF Quiet, CaptureCamera, Returned, FlushEnd, Post, Accept, ClientGone, ClientMsg, vars, history

LEMMA WNext == IInv /\ [Next]_vars => IInv'
<1> SUFFICES ASSUME TInv, Fits => WInv, [Next]_vars, Fits' PROVE WInv'
  BY TypeNext DEF IInv
<1>0. UNCHANGED video
  BY DEF Next, Capture, CaptureFile, CaptureCamera, Commanded, Returned, ClientMsg, Main,
     FlushEnd, Post, Rescan, Accept, ClientGone, vars
<1>1. Fits /\ WInv
  BY <1>0 DEF Fits, video
<1>2. CASE CaptureFile
  <2>1. CASE LoadMotionJpegFrame
    BY <1>0, <1>1, <2>1, WLoad DEF LoadMotionJpegFrame
  <2>2. CASE LoadFails
    BY <1>0, <1>1, <2>2, WFails DEF LoadFails, history
  <2>3. CASE DecodeFails
    BY <1>0, <1>1, <2>3, WDecode
  <2> QED BY <1>2, <2>1, <2>2, <2>3 DEF CaptureFile
<1>3. CASE Commanded
  BY <1>1, <1>3, WCommand DEF Commanded, TInv, TypeOK
<1>4. CASE Rescan
  BY <1>4 DEF Rescan, WInv, Complete
<1>5. CASE Quiet
  BY <1>1, <1>5 DEF Quiet, WInv, Complete, TestCut, reader
<1> QED BY <1>2, <1>3, <1>4, <1>5, QuietSteps DEF Next, Capture, Main

\* For every list of test pictures and every video that has them all, a test
\* begins anywhere but at its first picture only if the test before was cut.
THEOREM OneTestSpoiled == Spec => []WholeUnlessCut
<1>1. Init => IInv
  BY TypeInit, WInit DEF IInv
<1>2. IInv => WholeUnlessCut
  BY DEF IInv, WInv, WholeUnlessCut
<1> QED BY <1>1, <1>2, WNext, PTL DEF Spec

-----------------------------------------------------------------------------
(* What a test shows.                                                      *)

\* In an accuracy test the pictures shown so far are those of the list, in its
\* order, from the one the test starts with: none is left out, shown twice or
\* shown after the last, however often the test or the camera was started
\* before, as long as every picture can be decoded (the safety half of TestEnds;
\* LgFaceRecDemoTCP.cpp:392).
InOrder ==
  Fits /\ ~spoiled /\ mode = "TEST_ACC" =>
    /\ from + Len(shown) - 1 <= ACC_FRAME_NR
    /\ shown = SubSeq(AccTestFrames, from, from + Len(shown) - 1)

\* The list up to acc_idx, which is the next picture's as long as there is one.
ShownInv ==
  Fits /\ ~spoiled /\ mode = "TEST_ACC" =>
    /\ from + Len(shown) - 1 \in 0 .. ACC_FRAME_NR
    /\ \A i \in 1 .. Len(shown) : shown[i] = AccTestFrames[from + i - 1]
    /\ TestCut => acc_idx = from + Len(shown)

LEMMA ShownLoad ==
  ASSUME TInv, Fits, WInv, ShownInv, LoadMotionJpegFrame, UNCHANGED <<video, mode>>
  PROVE  ShownInv'
<1> SUFFICES ASSUME mode = "TEST_ACC", ~spoiled PROVE ShownInv'
  BY DEF ShownInv, LoadMotionJpegFrame
<1>1. /\ face_detect_acc_test_mode /\ acc_idx \in 1 .. ACC_FRAME_NR
      /\ Wanted = AccTestFrames[acc_idx] /\ from \in 1 .. ACC_FRAME_NR
      /\ shown \in Seq(Nat) /\ ACC_FRAME_NR \in Nat
      /\ LastTestFrame \in Nat /\ FrameCount \in Nat
  BY Frames DEF WInv, Wanted, TInv, TypeOK
<1>2. Wanted \in Nat /\ Wanted <= LastTestFrame /\ FrameCount < Wanted
  BY <1>1, Frames, WantedIn DEF LoadMotionJpegFrame, ReadMotionJpeg, TInv
<1>3. TestCut
  BY <1>1, <1>2 DEF WInv, Complete
<1>4. /\ acc_idx = from + Len(shown)
      /\ \A i \in 1 .. Len(shown) : shown[i] = AccTestFrames[from + i - 1]
  BY <1>3 DEF ShownInv
<1>5. shown' = Append(shown, Wanted) /\ from' = from
  BY <1>1 DEF LoadMotionJpegFrame
<1>6. Len(shown') = Len(shown) + 1 /\ Len(shown) \in Nat /\ shown'[Len(shown')] = Wanted
  BY <1>1, <1>2, <1>5
<1>7. ASSUME NEW i \in 1 .. Len(shown') PROVE shown'[i] = AccTestFrames[from + i - 1]
  <2>1. CASE i = Len(shown')
    BY <1>1, <1>4, <1>6, <2>1
  <2>2. CASE i # Len(shown')
    <3>1. i \in 1 .. Len(shown)
      BY <1>6, <2>2
    <3> QED BY <1>1, <1>2, <1>4, <1>5, <3>1
  <2> QED BY <2>1, <2>2
<1>8. TestCut' => acc_idx' = from + Len(shown')
  <2>1. TestCut' => Wanted # LastTestFrame
    BY <1>1, <1>2, <1>5, <1>6 DEF TestCut
  <2>2. Wanted # LastTestFrame => acc_idx # ACC_FRAME_NR
    BY <1>1 DEF LastTestFrame
  <2>3. acc_idx # ACC_FRAME_NR => acc_idx' = acc_idx + 1
    <3>1. acc_idx' = (acc_idx % ACC_FRAME_NR) + 1
      BY <1>1 DEF LoadMotionJpegFrame, ReadMotionJpeg, AccIdxAfter, NextAccIdx
    <3> QED BY <1>1, <3>1
  <2> QED BY <1>1, <1>4, <1>6, <2>1, <2>2, <2>3
<1> QED BY <1>1, <1>4, <1>5, <1>6, <1>7, <1>8 DEF ShownInv

LEMMA ShownNext == IInv /\ ShownInv /\ [Next]_vars => ShownInv'
<1> SUFFICES ASSUME IInv, ShownInv, [Next]_vars, Fits' PROVE ShownInv'
  BY DEF ShownInv
<1>0. UNCHANGED video
  BY DEF Next, Capture, CaptureFile, CaptureCamera, Commanded, Returned, ClientMsg, Main,
     FlushEnd, Post, Rescan, Accept, ClientGone, vars
<1>1. TInv /\ Fits /\ WInv
  BY <1>0 DEF Fits, video, IInv
<1>2. CASE CaptureFile
  <2>1. CASE LoadMotionJpegFrame
    BY <1>0, <1>1, <2>1, ShownLoad DEF LoadMotionJpegFrame
  <2>2. CASE LoadFails
    BY <1>1, <2>2 DEF LoadFails, ShownInv, TestCut, history
  <2>3. CASE DecodeFails
    BY <2>3 DEF DecodeFails, ShownInv
  <2> QED BY <1>2, <2>1, <2>2, <2>3 DEF CaptureFile
<1>3. CASE Commanded
  <2> DEFINE c == Head(posted)
  <2>1. mode' = c /\ handle_cmd_msg(c)
    BY <1>3 DEF Commanded, handle_cmd_msg, Recorded
  <2>2. CASE c = "TEST_ACC"
    <3>1. shown' = <<>> /\ from' = acc_idx /\ acc_idx' = acc_idx
      BY <2>1, <2>2 DEF Recorded, handle_cmd_msg, RewindMotionJpegFile, FileCommands
    <3>2. acc_idx \in 1 .. ACC_FRAME_NR /\ ACC_FRAME_NR \in Nat /\ Len(shown') = 0
      BY <1>1, <3>1, Frames DEF TInv, TypeOK
    <3> QED BY <3>1, <3>2 DEF ShownInv
  <2>3. CASE c # "TEST_ACC"
    BY <2>1, <2>3 DEF ShownInv
  <2> QED BY <2>2, <2>3
<1>4. CASE Rescan
  BY <1>4 DEF Rescan, ShownInv
<1>5. CASE Quiet
  BY <1>1, <1>5 DEF Quiet, ShownInv, TestCut, reader
<1> QED BY <1>2, <1>3, <1>4, <1>5, QuietSteps DEF Next, Capture, Main

\* For every list of test pictures and every video that has them all and can be
\* decoded, a test shows the pictures of the list in order.
THEOREM TestShowsItsList == Spec => []InOrder
<1>1. Init => IInv /\ ShownInv
  BY TypeInit, WInit DEF IInv, Init, ShownInv
<1>2. IInv /\ ShownInv => InOrder
  <2> SUFFICES ASSUME TInv, ShownInv, Fits, ~spoiled, mode = "TEST_ACC" PROVE InOrder
    BY DEF IInv, InOrder
  <2>1. /\ from \in 1 .. ACC_FRAME_NR /\ shown \in Seq(Nat) /\ AccTestFrames \in Seq(Nat)
        /\ from + Len(shown) - 1 \in 0 .. ACC_FRAME_NR
        /\ \A i \in 1 .. Len(shown) : shown[i] = AccTestFrames[from + i - 1]
    BY AccuracyAssumption DEF TInv, TypeOK, ShownInv
  <2>2. shown = SubSeq(AccTestFrames, from, from + Len(shown) - 1)
    BY <2>1, Frames
  <2> QED BY <2>1, <2>2 DEF InOrder
<1> QED BY <1>1, <1>2, WNext, ShownNext, PTL DEF Spec
=============================================================================
