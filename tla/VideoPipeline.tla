---------------------------- MODULE VideoPipeline ----------------------------
(***************************************************************************)
(* The threads of the recognition server (LgFaceRecDemoTCP.cpp).           *)
(*                                                                         *)
(* A ring of MJPEG_OUT_BUF_NR picture buffers is filled by the capture     *)
(* thread and passed, by pointer, through one socket pair per thread:      *)
(* capture -> face detection -> recognition stages -> sender -> capture.   *)
(* The last pair, out of the sender, is also where the main thread posts   *)
(* the client's commands, as a buffer whose output is NULL.  The threads   *)
(* share, without a lock, buffer_count (the buffers the capture thread     *)
(* believes it has), video_buffer_flushing (the main thread asks the       *)
(* others to hurry the buffers home), gTcpConnectedPort, run_video_mode    *)
(* and g_camera.  A process lasts until CMD_RESCAN makes it exit, or until *)
(* it crashes; Monitor.cpp then starts another, from Init.                 *)
(***************************************************************************)
EXTENDS Integers, Sequences, FiniteSets, Functions

CONSTANTS
  MJPEG_OUT_BUF_NR,     \* buffers in the ring
  TID_NR,               \* threads of the pipeline, capture and sender included
  face_detect_autostart,\* a connection starts the test video by itself
  ClientCommands,       \* the commands clients send
  MAX_FRAMES,           \* bound: pictures captured by one process
  MAX_CMDS              \* bound: commands waiting for the capture thread

Commands == {"STOP", "RUN", "TEST_RUN", "TEST_ACC", "RESCAN", "RARUN", "UNKNOWN"}

ASSUME PipelineAssumption ==
  /\ MJPEG_OUT_BUF_NR \in Nat \ {0}
  /\ TID_NR \in Nat /\ TID_NR >= 3
  /\ face_detect_autostart \in BOOLEAN
  /\ ClientCommands \subseteq Commands
  /\ MAX_FRAMES \in Nat /\ MAX_CMDS \in Nat

TID_CAPTURE         == 0
TID_FACE_DETECT     == 1
TID_FACE_RECOGNIZE1 == 2
TID_FACE_RECOGNIZE2 == 3
TID_FACE_RECOGNIZE3 == 4
TID_SENDER          == TID_NR - 1

Tids   == 0 .. TID_NR - 1
Stages == Tids \ {TID_CAPTURE}       \* the threads of video_task_face_detect
Slots  == 0 .. MJPEG_OUT_BUF_NR - 1
NULL   == -1
NoCmd  == "none"

\* What travels through a socket pair: a pointer to a ring buffer, or to a
\* malloc'ed buffer (output = NULL) that carries a command.  frame is history:
\* the picture the pointer was written for or, for a command, the last picture
\* the sender had passed when the command was posted.
Pointers == [output : Slots \cup {NULL}, msg : Commands \cup {NoCmd}, frame : Nat]
Picture(slot, n) == [output |-> slot, msg |-> NoCmd, frame |-> n]
Command(c, n)    == [output |-> NULL, msg |-> c, frame |-> n]
Nothing          == [output |-> NULL, msg |-> NoCmd, frame |-> 0]

\* The content of a buffer: the number of the picture in it, where it came
\* from, its tag, and the pictures whose detections, boxes and face embeddings
\* it holds (0: none).  late is history: a flush ended while the picture was
\* still in the pipeline.
Buffers == [frame : Nat, source : {"camera", "file"}, video_mode : Commands,
            detections : Nat, rects : Nat, face_embeddings : Nat, late : BOOLEAN]

VARIABLES
  proc,           \* "up", or how the process ended
  ring,           \* ring_buffer
  ring_index,
  chan,           \* chan[t]: the socket pair ipcs[t], written by thread t
  held,           \* held[t]: the pointer thread t has read and not yet passed
  buffer_count,
  capPC,          \* where the capture thread is
  sending,        \* the sender is inside TcpSendImageAsJpeg
  input_mode,
  flushing,       \* video_buffer_flushing
  mainPC, msg,    \* where the main thread is, and the command it executes
  connected,      \* gTcpConnectedPort # -1
  g_camera,       \* g_camera # NULL
  run_video_mode,
  retroactive_mode,
  written,        \* history: written[t] = pictures thread t has passed on
  returned,       \* history: pictures the capture thread got back
  sent            \* history: the last picture put on the network

capVars  == <<ring_index, buffer_count, capPC, input_mode>>
mainVars == <<flushing, mainPC, msg, g_camera, run_video_mode, retroactive_mode>>
vars == <<proc, ring, chan, held, capVars, sending, mainVars, connected,
          written, returned, sent>>

Init ==
  /\ proc = "up"
  /\ ring = [s \in Slots |-> [frame |-> 0, source |-> "camera", video_mode |-> "STOP",
                              detections |-> 0, rects |-> 0, face_embeddings |-> 0,
                              late |-> FALSE]]
  /\ ring_index = 0
  /\ chan = [t \in Tids |-> <<>>]
  /\ held = [t \in Stages |-> Nothing]
  /\ buffer_count = MJPEG_OUT_BUF_NR
  /\ capPC = "poll"
  /\ sending = FALSE
  /\ input_mode = "camera"
  /\ flushing = FALSE
  /\ mainPC = "epoll" /\ msg = NoCmd
  /\ connected = FALSE
  /\ g_camera = FALSE
  /\ run_video_mode = "STOP"
  /\ retroactive_mode = FALSE
  /\ written = [t \in Tids |-> 0]
  /\ returned = 0
  /\ sent = 0

-----------------------------------------------------------------------------
(* The capture thread: video_task_reader and do_capture.                   *)

Busy(t) == held[t] # Nothing

\* video_buffer_next; whether a buffer may still be filled; and buffer_count
\* after one is handed over.  The operator that precedes each one, here and
\* below, is a fault the properties are tried against.
SkippingIndex == (ring_index + 2) % MJPEG_OUT_BUF_NR
RunawayIndex  == ring_index + 1
NextIndex     == (ring_index + 1) % MJPEG_OUT_BUF_NR

SpareOffByOne == buffer_count >= 0
Spare         == buffer_count > 0

CountedOutUnlessFlushing == IF flushing THEN buffer_count ELSE buffer_count - 1
CountedOut               == buffer_count - 1

CaptureAt(pc) == proc = "up" /\ capPC = pc
CaptureGoes(pc) == capPC' = pc

SourceOfWithoutAcc(c, default) == CASE c \in {"RUN", "RARUN"} -> "camera"
                                    [] c = "TEST_RUN" -> "file"
                                    [] OTHER -> default
SourceOf(c, default) == CASE c \in {"RUN", "RARUN"} -> "camera"
                          [] c \in {"TEST_RUN", "TEST_ACC"} -> "file"
                          [] OTHER -> default

\* A command comes out of the sender's pair: handle_cmd_msg.
CaptureCommand ==
  /\ CaptureAt("poll")
  /\ chan[TID_SENDER] # <<>> /\ Head(chan[TID_SENDER]).output = NULL
  /\ input_mode' = SourceOf(Head(chan[TID_SENDER]).msg, input_mode)
  /\ chan' = [chan EXCEPT ![TID_SENDER] = Tail(@)]
  /\ CaptureGoes("check")
  /\ UNCHANGED <<proc, ring, held, ring_index, buffer_count, sending, mainVars,
                 connected, written, returned, sent>>

\* A buffer comes home.
CaptureReturned ==
  /\ CaptureAt("poll")
  /\ chan[TID_SENDER] # <<>> /\ Head(chan[TID_SENDER]).output # NULL
  /\ buffer_count' = buffer_count + 1
  /\ returned' = returned + 1
  /\ chan' = [chan EXCEPT ![TID_SENDER] = Tail(@)]
  /\ CaptureGoes("check")
  /\ UNCHANGED <<proc, ring, held, ring_index, input_mode, sending, mainVars,
                 connected, written, sent>>

CaptureSame == UNCHANGED <<ring_index, buffer_count, input_mode, chan, written, returned>>
OthersSame  == UNCHANGED <<held, sending, mainVars, connected, sent>>

CaptureCheckFlushing ==
  /\ CaptureAt("check")
  /\ CaptureGoes(IF flushing THEN "poll" ELSE "port")
  /\ CaptureSame /\ OthersSame /\ UNCHANGED <<proc, ring>>

CaptureCheckPort ==
  /\ CaptureAt("port")
  /\ CaptureGoes(IF connected THEN "loop" ELSE "poll")
  /\ CaptureSame /\ OthersSame /\ UNCHANGED <<proc, ring>>

\* video_buffer_init leaves the detections of the buffer's last picture in it.
InitKeepsRects(b) == [b EXCEPT !.video_mode = run_video_mode, !.face_embeddings = 0]
BufferInit(b)     == [b EXCEPT !.video_mode = run_video_mode, !.rects = 0, !.face_embeddings = 0]

\* The head of either while loop, and video_buffer_init of the current buffer.
CaptureLoop ==
  /\ CaptureAt("loop")
  /\ IF Spare
     THEN ring' = [ring EXCEPT ![ring_index] = BufferInit(@)] /\ CaptureGoes("fill")
     ELSE CaptureGoes("poll") /\ UNCHANGED ring
  /\ CaptureSame /\ OthersSame /\ UNCHANGED proc

\* do_capture_camera tests g_camera before it uses it.
CaptureCamera ==
  /\ CaptureAt("fill") /\ input_mode = "camera"
  /\ CaptureGoes(IF g_camera THEN "grab" ELSE "poll")
  /\ CaptureSame /\ OthersSame /\ UNCHANGED <<proc, ring>>

\* A picture is read into the buffer (detections keeps what it held before).
Filled(b) == [b EXCEPT !.frame = written[TID_CAPTURE] + 1, !.source = input_mode, !.late = FALSE]
Fill ==
  /\ written[TID_CAPTURE] < MAX_FRAMES
  /\ ring' = [ring EXCEPT ![ring_index] = Filled(@)]
  /\ CaptureGoes("write")

\* CaptureRGBA or LoadMotionJpegFrame succeeds, or fails and ends the loop.
\* "lost": the camera was deleted after the test above, and anything may come.
CaptureFill ==
  /\ \/ CaptureAt("grab") \/ CaptureAt("lost")
     \/ CaptureAt("fill") /\ input_mode = "file"
  /\ Fill \/ (CaptureGoes("poll") /\ UNCHANGED ring)
  /\ CaptureSame /\ OthersSame /\ UNCHANGED proc

CaptureCrash ==
  /\ CaptureAt("lost")
  /\ proc' = "crashed"
  /\ CaptureSame /\ OthersSame /\ UNCHANGED <<ring, capPC>>

\* video_buffer_next, then the write to the detection thread.
CaptureWrite ==
  /\ CaptureAt("write")
  /\ ring_index' = NextIndex
  /\ chan' = [chan EXCEPT ![TID_CAPTURE] =
                Append(@, Picture(ring_index, written[TID_CAPTURE] + 1))]
  /\ written' = [written EXCEPT ![TID_CAPTURE] = @ + 1]
  /\ CaptureGoes("count")
  /\ OthersSame /\ UNCHANGED <<proc, ring, buffer_count, input_mode, returned>>

CaptureCount ==
  /\ CaptureAt("count")
  /\ buffer_count' = CountedOut
  /\ CaptureGoes("loop")
  /\ OthersSame
  /\ UNCHANGED <<proc, ring, ring_index, input_mode, chan, written, returned>>

Capture == \/ CaptureCommand \/ CaptureReturned \/ CaptureCheckFlushing
           \/ CaptureCheckPort \/ CaptureLoop \/ CaptureCamera
           \/ CaptureFill \/ CaptureCrash \/ CaptureWrite \/ CaptureCount

-----------------------------------------------------------------------------
(* The stages: video_task_face_detect, run by every thread but capture.    *)

StageTake(t) ==
  /\ proc = "up" /\ ~Busy(t) /\ chan[t - 1] # <<>>
  /\ held' = [held EXCEPT ![t] = Head(chan[t - 1])]
  /\ chan' = [chan EXCEPT ![t - 1] = Tail(@)]
  /\ UNCHANGED <<proc, ring, capVars, sending, mainVars, connected, written, returned, sent>>

PassUnlessFlushing(t) ==
  /\ chan' = [chan EXCEPT ![t] = IF flushing THEN @ ELSE Append(@, held[t])]
  /\ held' = [held EXCEPT ![t] = Nothing]
  /\ written' = [written EXCEPT ![t] = @ + 1]
PassTwice(t) ==              \* passed on where the work is skipped, and again
  /\ chan' = [chan EXCEPT ![t] = @ \o <<held[t], held[t]>>]
  /\ held' = [held EXCEPT ![t] = Nothing]
  /\ written' = [written EXCEPT ![t] = @ + 1]
PassOn(t) ==
  /\ chan' = [chan EXCEPT ![t] = Append(@, held[t])]
  /\ held' = [held EXCEPT ![t] = Nothing]
  /\ written' = [written EXCEPT ![t] = @ + 1]

\* do_face_detect, do_face_crop_and_align and do_face_embede; every picture
\* shows a face.  What the work functions leave in the buffer b of thread t.
Detected(b)        == [b EXCEPT !.detections = b.frame]
Aligned(b)         == [b EXCEPT !.rects = b.detections]
EmbedsNothing(b)   == b                 \* mutant: this stage alone finds too many faces
Embedded(b)        == [b EXCEPT !.face_embeddings = b.rects]
Work(t, b) ==
  CASE t = TID_FACE_DETECT     -> Detected(b)
    [] t = TID_FACE_RECOGNIZE1 -> Aligned(b)
    [] t = TID_FACE_RECOGNIZE2 -> Embedded(b)
    [] OTHER -> b

\* do_face_predict looks up a label for every box; where embeddings are missing
\* there is none, and at() throws in a thread that catches nothing.
Unnamable(t) ==
  /\ t = TID_FACE_RECOGNIZE3 /\ t # TID_SENDER /\ Busy(t)
  /\ ring[held[t].output].rects # 0 /\ ring[held[t].output].face_embeddings = 0

StageThrows(t) ==
  /\ proc = "up" /\ Unnamable(t) /\ ~flushing
  /\ proc' = "crashed"
  /\ UNCHANGED <<ring, chan, held, capVars, sending, mainVars, connected, written, returned, sent>>

\* A recognition thread works on its buffer, unless flushing, and passes it on.
StagePass(t) ==
  /\ proc = "up" /\ Busy(t) /\ t # TID_SENDER /\ (flushing \/ ~Unnamable(t))
  /\ ring' = IF flushing THEN ring
             ELSE [ring EXCEPT ![held[t].output] = Work(t, @)]
  /\ PassOn(t)
  /\ UNCHANGED <<proc, capVars, sending, mainVars, connected, returned, sent>>

SenderBusy == proc = "up" /\ Busy(TID_SENDER)
SenderSame == UNCHANGED <<proc, ring, capVars, mainVars, returned>>

\* do_send_video is skipped while flushing and returns with no client ...
SenderSkip ==
  /\ SenderBusy /\ ~sending
  /\ flushing \/ ~connected
  /\ PassOn(TID_SENDER)
  /\ SenderSame /\ UNCHANGED <<sending, connected, sent>>

\* ... otherwise it sends the picture, which lasts,
SenderStart ==
  /\ SenderBusy /\ ~sending
  /\ ~flushing /\ connected
  /\ sending' = TRUE
  /\ SenderSame /\ UNCHANGED <<chan, held, written, connected, sent>>

\* and ends well, or with an error that drops the client.
SenderDone ==
  /\ SenderBusy /\ sending
  /\ sending' = FALSE
  /\ \/ sent' = held[TID_SENDER].frame /\ UNCHANGED connected
     \/ connected' = FALSE /\ UNCHANGED sent
  /\ PassOn(TID_SENDER)
  /\ SenderSame

Stage(t) == \/ StageTake(t)
            \/ StagePass(t) \/ StageThrows(t)
            \/ t = TID_SENDER /\ (SenderSkip \/ SenderStart \/ SenderDone)

-----------------------------------------------------------------------------
(* The main thread: the epoll loop and handle_client_msg.                  *)

MainAt(pc) == proc = "up" /\ mainPC = pc
MainSame   == UNCHANGED <<ring, held, capVars, sending, written, returned, sent>>

\* The places of the commands that wait there.
Waiting == {i \in DOMAIN chan[TID_SENDER] : chan[TID_SENDER][i].output = NULL}

\* send_cmd_msg: a command joins the buffers on their way home.
SendCmd(c) ==
  chan' = [chan EXCEPT ![TID_SENDER] = Append(@, Command(c, written[TID_SENDER]))]

\* A client connects: an older one is dropped first, and for a moment there is
\* none, which the other threads may see.
Accept ==
  /\ MainAt("epoll")
  /\ face_detect_autostart => Cardinality(Waiting) < MAX_CMDS
  /\ connected' = FALSE
  /\ mainPC' = "accept"
  /\ MainSame
  /\ UNCHANGED <<proc, chan, flushing, msg, g_camera, run_video_mode, retroactive_mode>>

Accepted ==
  /\ MainAt("accept")
  /\ connected' = TRUE
  /\ mainPC' = "epoll"
  /\ IF face_detect_autostart THEN SendCmd("TEST_RUN") ELSE UNCHANGED chan
  /\ MainSame
  /\ UNCHANGED <<proc, flushing, msg, g_camera, run_video_mode, retroactive_mode>>

\* Reading a command fails: the client is gone.
ClientGone ==
  /\ MainAt("epoll") /\ connected
  /\ connected' = FALSE
  /\ MainSame /\ UNCHANGED <<proc, chan, mainVars>>

\* A command arrives.  RUN with the camera already open needs no flush.  The
\* assertion on msg.type always holds: the client sends CONTROL_TYPE_NORMAL only.
ClientMsg(c) ==
  /\ MainAt("epoll") /\ connected
  /\ Cardinality(Waiting) < MAX_CMDS
  /\ retroactive_mode' = FALSE
  /\ IF c = "UNKNOWN" THEN UNCHANGED <<mainPC, msg, flushing>>
     ELSE /\ msg' = c
          /\ IF c = "RUN" /\ g_camera
             THEN mainPC' = "camera" /\ UNCHANGED flushing
             ELSE mainPC' = "flush" /\ flushing' = TRUE
  /\ MainSame /\ UNCHANGED <<proc, chan, connected, g_camera, run_video_mode>>

AlmostAllHome == buffer_count >= MJPEG_OUT_BUF_NR - 1
AllHome       == buffer_count = MJPEG_OUT_BUF_NR

\* video_buffer_do_flush sees every buffer counted home ...
FlushSeen ==
  /\ MainAt("flush") /\ AllHome
  /\ mainPC' = "flushed"
  /\ MainSame
  /\ UNCHANGED <<proc, chan, connected, flushing, msg, g_camera, run_video_mode,
                 retroactive_mode>>

\* Slots that are still in the pipeline.
InFlight == {p.output : p \in (UNION {Range(chan[t]) : t \in Tids}) \cup Range(held)}

\* ... and lowers the flag.  RESCAN then deletes the camera, under the capture
\* thread if that has passed its test, and ends the process.
FlushEnd ==
  /\ MainAt("flushed")
  /\ flushing' = FALSE
  /\ ring' = [s \in Slots |-> [ring[s] EXCEPT !.late = @ \/ s \in InFlight]]
  /\ IF msg = "RESCAN"
     THEN /\ g_camera' = FALSE
          /\ \/ proc' = "rescan"
             \/ proc' = "crashed" /\ g_camera /\ capPC = "grab"
          /\ UNCHANGED <<mainPC, retroactive_mode>>
     ELSE /\ mainPC' = "camera"
          /\ retroactive_mode' = (msg = "RARUN")
          /\ UNCHANGED <<proc, g_camera>>
  /\ UNCHANGED <<chan, held, capVars, sending, connected, written, returned, sent,
                 msg, run_video_mode>>

\* RUN and RARUN open the camera (which may fail), other commands delete it,
\* also from under the capture thread.
MainCamera ==
  /\ MainAt("camera")
  /\ mainPC' = "mode"
  /\ IF msg \in {"RUN", "RARUN"}
     THEN g_camera' \in {g_camera, TRUE} /\ UNCHANGED capPC
     ELSE /\ g_camera' = FALSE
          /\ capPC' = IF g_camera /\ capPC = "grab" THEN "lost" ELSE capPC
  /\ UNCHANGED <<proc, ring, chan, held, ring_index, buffer_count, input_mode, sending,
                 flushing, msg, connected, run_video_mode, retroactive_mode,
                 written, returned, sent>>

MainMode ==
  /\ MainAt("mode")
  /\ run_video_mode' = msg
  /\ mainPC' = "post"
  /\ MainSame
  /\ UNCHANGED <<proc, chan, connected, flushing, msg, g_camera, retroactive_mode>>

MainPost ==
  /\ MainAt("post")
  /\ SendCmd(msg)
  /\ mainPC' = "epoll" /\ msg' = NoCmd
  /\ MainSame
  /\ UNCHANGED <<proc, connected, flushing, g_camera, run_video_mode, retroactive_mode>>

Handle == Accepted \/ FlushSeen \/ FlushEnd \/ MainCamera \/ MainMode \/ MainPost
Main   == \/ Accept \/ ClientGone \/ (\E c \in ClientCommands : ClientMsg(c))
          \/ Handle

\* The process is over.
Ended == proc # "up" /\ UNCHANGED vars

Next == Capture \/ (\E t \in Stages : Stage(t)) \/ Main \/ Ended

\* Every thread keeps running; clients may fall silent.  CaptureRGBA gives up
\* after 3 s and WriteDataTcp after 100000 polls of 1 s, so that neither the
\* capture thread nor the sender waits for ever.
Fairness == /\ WF_vars(Capture)
            /\ \A t \in Stages : WF_vars(Stage(t))
            /\ WF_vars(Handle)

Spec     == Init /\ [][Next]_vars
FairSpec == Spec /\ Fairness
-----------------------------------------------------------------------------
(* Properties.                                                             *)

CapPCs  == {"poll", "check", "port", "loop", "fill", "grab", "lost", "write", "count"}
MainPCs == {"epoll", "accept", "flush", "flushed", "camera", "mode", "post"}

\* Every variable keeps its type; ring_index, which the code wraps by hand, in
\* particular always names a buffer.
TypeOK ==
  /\ proc \in {"up", "rescan", "crashed"}
  /\ ring \in [Slots -> Buffers]
  /\ ring_index \in Slots
  /\ chan \in [Tids -> Seq(Pointers)]
  /\ held \in [Stages -> Pointers]
  /\ buffer_count \in Nat
  /\ capPC \in CapPCs
  /\ sending \in BOOLEAN
  /\ input_mode \in {"camera", "file"}
  /\ flushing \in BOOLEAN
  /\ mainPC \in MainPCs /\ msg \in Commands \cup {NoCmd}
  /\ connected \in BOOLEAN /\ g_camera \in BOOLEAN
  /\ run_video_mode \in Commands
  /\ retroactive_mode \in BOOLEAN
  /\ written \in [Tids -> Nat]
  /\ returned \in Nat /\ sent \in Nat

\* The slot of the ring that the place <<t, j>> refers to: the j-th pointer in
\* the pair written by t, or (j = 0) the pointer thread t has in its hands.
Filling == capPC \in {"fill", "grab", "lost", "write"}
SlotAt(t, j) == IF j > 0 THEN chan[t][j].output
                ELSE IF t = TID_CAPTURE THEN (IF Filling THEN ring_index ELSE NULL)
                ELSE held[t].output

\* No two threads ever work on one buffer, and no buffer is queued twice: the
\* capture thread picks buffers by ring_index alone, and only buffer_count and
\* the order in which the stages pass them keep it off those still in use.
RingExclusive ==
  \A t \in Tids : \A i \in 0 .. Len(chan[t]) : SlotAt(t, i) # NULL =>
    \A u \in t .. TID_SENDER : \A j \in 0 .. Len(chan[u]) :
      <<t, i>> # <<u, j>> => SlotAt(t, i) # SlotAt(u, j)

\* The buffer count and the pipeline agree: what is not counted home is on its
\* way, but for the one picture the capture thread has handed over and not yet
\* counted.  The flush of the main thread relies on it.
CountAgrees ==
  buffer_count + (written[TID_CAPTURE] - returned)
    = MJPEG_OUT_BUF_NR + IF capPC = "count" THEN 1 ELSE 0

\* The picture a pointer was written for is the one in its buffer when the
\* sender puts it on the network.
SentIntact ==
  sending => ring[held[TID_SENDER].output].frame = held[TID_SENDER].frame

\* The boxes computed for a picture come from its own detections, though the
\* stages skip work while flushing and detections survive the reuse of a
\* buffer; only a flush that ended with the picture still in the pipeline can
\* mix them.
BoxesFresh ==
  \A s \in Slots :
    ring[s].rects \in {0, ring[s].frame} \/ ring[s].late \/ s \notin InFlight

\* No label is looked up for a face that was never embedded, though a flush
\* that begins behind one stage and ends before the next makes a picture skip
\* what lies between; only a flush that ended with the picture still in the
\* pipeline can do that, and then the server dies of it (alignment.cpp:205).
NamesEmbedded ==
  \A t \in Stages : Unnamable(t) /\ ~flushing => ring[held[t].output].late

\* Once no command is on its way, the capture thread reads from the source of
\* the mode pictures are tagged with: run_video_mode is written by the main
\* thread before the capture thread hears of it.  (STOP has no source, and the
\* autostart command is posted without a mode.)
SettledSource ==
  ~face_detect_autostart /\ mainPC # "post" /\ Waiting = {} =>
    /\ run_video_mode \in {"RUN", "RARUN"} => input_mode = "camera"
    /\ run_video_mode \in {"TEST_RUN", "TEST_ACC"} => input_mode = "file"

\* When a flush is seen to be complete at most one picture is still out, and
\* then it is the newest, which the capture thread was handing over.
FlushLeavesOne ==
  [][FlushSeen => \/ returned = written[TID_CAPTURE]
                  \/ capPC = "count" /\ returned = written[TID_CAPTURE] - 1]_vars

\* The pipeline keeps its promise of order and of buffers.
Stream == INSTANCE FrameStream WITH captured <- written[TID_CAPTURE],
                                    passed <- written[TID_SENDER]
ImplementsStream == Stream!Spec

\* A flush ends: the main thread, which serves every client, is not held for
\* ever by buffers that never come home.
FlushTerminates == (mainPC = "flush") ~> (mainPC # "flush" \/ proc # "up")

\* Every picture handed over comes back, flushed, skipped, sent or failed.
FramesReturn ==
  \A n \in 1 .. MAX_FRAMES :
    (written[TID_CAPTURE] >= n) ~> (returned >= n \/ proc # "up")
=============================================================================
