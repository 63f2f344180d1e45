------------------------------- MODULE Accuracy -------------------------------
(***************************************************************************)
(* The test video and the accuracy test: which pictures of the video the   *)
(* capture thread hands on, where it stands in the video, and when it has  *)
(* nothing more to hand on.                                                *)
(*                                                                         *)
(* A picture of the video is its number; FrameCount also stands for the    *)
(* position in the file (pos), which advances and rewinds with it.  The    *)
(* way of a picture through the other threads is VideoPipeline's matter:   *)
(* here a picture is out, and comes back.                                  *)
(***************************************************************************)
EXTENDS Integers, Sequences

CONSTANTS
  AccTestFrames,   \* the pictures an accuracy test shows
  VideoLengths,    \* how many pictures the video may have
  MJPEG_OUT_BUF_NR,
  MAX_CMDS         \* bound: commands

ACC_FRAME_NR == Len(AccTestFrames)
LastTestFrame == AccTestFrames[ACC_FRAME_NR]

ASSUME AccuracyAssumption ==
  /\ AccTestFrames \in Seq(Nat \ {0}) /\ AccTestFrames # <<>>
  /\ \A i, j \in 1 .. ACC_FRAME_NR : i < j => AccTestFrames[i] < AccTestFrames[j]
  /\ VideoLengths \subseteq Nat \ {0} /\ MJPEG_OUT_BUF_NR \in Nat \ {0} /\ MAX_CMDS \in Nat

FileCommands   == {"TEST_RUN", "TEST_ACC"}
CameraCommands == {"RUN", "RARUN"}
Commands       == FileCommands \cup CameraCommands \cup {"STOP", "RESCAN"}

VARIABLES
  length,          \* pictures in the video, and
  torn,            \* whether the last of them is cut short
  failbit,         \* of the stream the video is read from
  FrameCount,      \* the picture read last
  face_detect_acc_test_mode,
  acc_idx,         \* which of AccTestFrames comes next (from 1)
  input_mode,      \* "file" or "camera"
  g_camera,        \* whether the camera is open
  connected,       \* whether there is a client
  capturing,       \* the capture thread is in its loop
  out,             \* pictures on their way: MJPEG_OUT_BUF_NR - buffer_count
  main,            \* the main thread: "epoll", "flush" (video_buffer_flushing), "post"
  msg,             \* the command it works on
  posted,          \* commands on their way to the capture thread
  cmds,            \* commands so far
  \* history:
  mode,            \* the command the capture thread has handled last
  shown,           \* pictures captured in this accuracy test
  from,            \* acc_idx when it began
  cut,             \* the test before it was stopped before its last picture
  spoiled,         \* since the last command a picture could not be decoded
  alone            \* the client of the last command has stayed

video   == <<length, torn>>
reader  == <<failbit, FrameCount, face_detect_acc_test_mode, acc_idx>>
handler == <<main, msg, posted, cmds>>
history == <<mode, shown, from, cut, spoiled, alone>>
vars    == <<video, reader, input_mode, g_camera, connected, capturing, out, handler, history>>

Init ==
  /\ length \in VideoLengths /\ torn \in BOOLEAN
  /\ failbit = FALSE /\ FrameCount = 0
  /\ face_detect_acc_test_mode = FALSE /\ acc_idx = 1
  /\ input_mode = "camera" /\ g_camera = FALSE
  /\ connected = FALSE /\ capturing = FALSE /\ out = 0
  /\ main = "epoll" /\ msg = "STOP" /\ posted = <<>> /\ cmds = 0
  /\ mode = "STOP" /\ shown = <<>> /\ from = 1 /\ cut = FALSE /\ spoiled = FALSE
  /\ alone = FALSE

(***************************************************************************)
(* Reading the video.                                                      *)
(***************************************************************************)
Readable == IF torn THEN length - 1 ELSE length      \* pictures that are whole

\* The picture the loop of LoadMotionJpegFrame looks for.
Wanted ==
  IF face_detect_acc_test_mode THEN AccTestFrames[acc_idx] ELSE FrameCount + 1

Found == ~failbit /\ FrameCount < Wanted /\ Wanted <= Readable

NextAccIdx == (acc_idx % ACC_FRAME_NR) + 1
AccIdxKept == IF acc_idx = ACC_FRAME_NR THEN acc_idx ELSE acc_idx + 1   \* mutant: does not wrap
AccIdxRuns == acc_idx + 1                    \* mutant: no modulo
AccIdxAfter == NextAccIdx

AtEnd  == Wanted = length
NotRewound == FALSE                          \* mutant: the video is not rewound at its end
RewoundAtEnd == AtEnd

\* The picture is read, and with it acc_idx moves on.
ReadMotionJpeg ==
  /\ Found
  /\ acc_idx' = IF face_detect_acc_test_mode THEN AccIdxAfter ELSE acc_idx

LoadMotionJpegFrame ==
  /\ ReadMotionJpeg
  /\ FrameCount' = IF RewoundAtEnd THEN 0 ELSE Wanted
  /\ face_detect_acc_test_mode' = (face_detect_acc_test_mode /\ ~RewoundAtEnd)
  /\ shown' = IF face_detect_acc_test_mode THEN Append(shown, Wanted) ELSE shown
  /\ UNCHANGED <<failbit, mode, from, cut, spoiled, alone>>

\* imdecode or the conversion fails: the picture is passed over, and if it was
\* the last of the video nothing rewinds it.
DecodeFails ==
  /\ ReadMotionJpeg
  /\ FrameCount' = Wanted /\ spoiled' = TRUE
  /\ UNCHANGED <<failbit, face_detect_acc_test_mode, mode, shown, from, cut, alone>>

\* Nothing more to read, or a read that comes up short: the stream then fails
\* for good, seekg does not clear its failbit.
LoadFails ==
  /\ ~Found
  /\ FrameCount' = IF failbit THEN FrameCount ELSE Readable
  /\ failbit' = (failbit \/ torn)
  /\ UNCHANGED <<face_detect_acc_test_mode, acc_idx, history>>

(***************************************************************************)
(* The capture thread.                                                     *)
(***************************************************************************)
Captured == out' = out + 1 /\ capturing' = (out' < MJPEG_OUT_BUF_NR)
GivenUp  == capturing' = FALSE /\ out' = out

CaptureFile ==
  /\ capturing /\ input_mode = "file"
  /\ \/ LoadMotionJpegFrame /\ Captured
     \/ (LoadFails \/ DecodeFails) /\ GivenUp
  /\ UNCHANGED <<video, input_mode, g_camera, connected, handler>>

CaptureCamera ==
  /\ capturing /\ input_mode = "camera"
  /\ \/ g_camera /\ Captured
     \/ GivenUp
  /\ UNCHANGED <<video, reader, input_mode, g_camera, connected, handler, history>>

\* The thread captures on if there is a client and no flush.
CapturesOn == capturing' = (connected /\ main # "flush" /\ out' < MJPEG_OUT_BUF_NR)

\* A picture comes back.
Returned ==
  /\ ~capturing /\ out > 0
  /\ out' = out - 1 /\ CapturesOn
  /\ UNCHANGED <<video, reader, input_mode, g_camera, connected, handler, history>>

\* A command comes to the capture thread.
RewindForgotten == UNCHANGED <<FrameCount, failbit, acc_idx>>   \* mutant
RewindMotionJpegFile == FrameCount' = 0 /\ UNCHANGED <<failbit, acc_idx>>

TestCut == mode = "TEST_ACC" /\ (shown = <<>> \/ shown[Len(shown)] # LastTestFrame)

Recorded(c) ==
  /\ mode' = c /\ shown' = <<>> /\ spoiled' = FALSE
  /\ cut' = IF mode = "TEST_ACC" THEN TestCut ELSE cut
  /\ from' = IF c = "TEST_ACC" THEN acc_idx ELSE from

handle_cmd_msg(c) ==
  /\ input_mode' = CASE c \in FileCommands   -> "file"
                     [] c \in CameraCommands -> "camera"
                     [] OTHER                -> input_mode
  /\ IF c \in FileCommands
       THEN RewindMotionJpegFile /\ face_detect_acc_test_mode' = (c = "TEST_ACC")
       ELSE UNCHANGED reader
  /\ Recorded(c)

Commanded ==
  /\ ~capturing /\ posted # <<>>
  /\ posted' = Tail(posted)
  /\ handle_cmd_msg(Head(posted))
  /\ out' = out /\ CapturesOn
  /\ UNCHANGED <<video, g_camera, connected, main, msg, cmds, alone>>

(***************************************************************************)
(* The main thread.  A command is flushed for, but for RUN with the camera *)
(* open already; then the camera is opened or closed, and the command is   *)
(* posted to the capture thread, which meanwhile goes on with what it did. *)
(***************************************************************************)
ClientMsg(c) ==
  /\ main = "epoll" /\ connected /\ cmds < MAX_CMDS /\ cmds' = cmds + 1
  /\ msg' = c /\ main' = IF c = "RUN" /\ g_camera THEN "post" ELSE "flush"
  /\ alone' = TRUE
  /\ UNCHANGED <<video, reader, input_mode, g_camera, connected, capturing, out, posted,
                 mode, shown, from, cut, spoiled>>

\* One picture may be handed over and not yet counted when the flush ends.
FlushSeen == main = "flush" /\ out <= 1

FlushEnd ==
  /\ FlushSeen /\ msg # "RESCAN"
  /\ main' = "post"
  /\ UNCHANGED <<video, reader, input_mode, g_camera, connected, capturing, out, msg, posted,
                 cmds, history>>

Post ==
  /\ main = "post" /\ main' = "epoll"
  /\ IF msg \in CameraCommands THEN g_camera' \in {TRUE, g_camera} ELSE g_camera' = FALSE
  /\ posted' = Append(posted, msg)
  /\ UNCHANGED <<video, reader, input_mode, connected, capturing, out, msg, cmds, history>>

\* The process ends and begins anew, with its static variables.
Rescan ==
  /\ FlushSeen /\ msg = "RESCAN"
  /\ failbit' = FALSE /\ FrameCount' = 0 /\ face_detect_acc_test_mode' = FALSE /\ acc_idx' = 1
  /\ input_mode' = "camera" /\ g_camera' = FALSE /\ connected' = FALSE
  /\ capturing' = FALSE /\ out' = 0 /\ main' = "epoll" /\ posted' = <<>>
  /\ mode' = "STOP" /\ shown' = <<>> /\ from' = 1 /\ cut' = FALSE /\ spoiled' = FALSE
  /\ alone' = FALSE
  /\ UNCHANGED <<video, msg, cmds>>

Accept ==
  /\ main = "epoll" /\ ~connected /\ connected' = TRUE
  /\ UNCHANGED <<video, reader, input_mode, g_camera, capturing, out, handler, history>>

\* Seen by the main thread, or by the sender at any time.
ClientGone ==
  /\ connected /\ connected' = FALSE /\ alone' = FALSE
  /\ UNCHANGED <<video, reader, input_mode, g_camera, capturing, out, handler,
                 mode, shown, from, cut, spoiled>>

Capture == CaptureFile \/ CaptureCamera \/ Commanded
Main    == FlushEnd \/ Post \/ Rescan
Next    == Capture \/ Returned \/ Main \/ (\E c \in Commands : ClientMsg(c))
           \/ Accept \/ ClientGone

\* The two threads run, and pictures come back (VideoPipeline's FramesReturn).
Spec == Init /\ [][Next]_vars /\ WF_vars(Capture) /\ WF_vars(Returned) /\ WF_vars(Main)

(***************************************************************************)
(* Properties.                                                             *)
(***************************************************************************)
\* The types; acc_idx always names one of the pictures of a test, and what is
\* on its way fits the ring.
TypeOK ==
  /\ length \in VideoLengths /\ torn \in BOOLEAN /\ failbit \in BOOLEAN
  /\ FrameCount \in 0 .. length /\ face_detect_acc_test_mode \in BOOLEAN
  /\ acc_idx \in 1 .. ACC_FRAME_NR /\ from \in 1 .. ACC_FRAME_NR
  /\ input_mode \in {"file", "camera"} /\ {mode, msg} \subseteq Commands
  /\ main \in {"epoll", "flush", "post"} /\ posted \in Seq(Commands) /\ cmds \in 0 .. MAX_CMDS
  /\ {g_camera, connected, capturing, cut, spoiled, alone} \subseteq BOOLEAN
  /\ out \in 0 .. MJPEG_OUT_BUF_NR /\ shown \in Seq(Nat)

\* The video has all the pictures of a test, and more after them.
Fits == ~torn /\ LastTestFrame < length

\* A test starts with the first picture (and so shows all of them: see
\* TestEnds) unless the test before it was stopped before its last one:
\* acc_idx is not reset with the video (LgFaceRecDemoTCP.cpp:392), but one
\* test that is let run brings it back to the beginning.
WholeUnlessCut == Fits /\ mode = "TEST_ACC" /\ from # 1 => cut

\* A test that is left alone comes to its end: it shows every picture of the
\* list from where it starts, in order, each once, and no other, if every
\* picture can be decoded.
TestEnds ==
  <>[](Fits /\ alone /\ ~spoiled /\ mode = "TEST_ACC")
    => <>[](shown = SubSeq(AccTestFrames, from, ACC_FRAME_NR) /\ out = 0)

\* The test video, left alone, is shown over and over, whatever was done
\* before: the capture thread never stays without a picture on its way, which
\* would leave nothing to wake it (LgFaceRecDemoTCP.cpp:845).  A picture that
\* cannot be decoded may leave it so.
VideoLoops ==
  <>[](~torn /\ alone /\ ~spoiled /\ mode = "TEST_RUN") => []<>(FrameCount = 0) /\ []<>(out > 0)
=============================================================================
