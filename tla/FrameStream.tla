----------------------------- MODULE FrameStream -----------------------------
(***************************************************************************)
(* What the video server promises of its pictures, whatever its threads    *)
(* do: pictures are numbered in the order the capture thread hands them    *)
(* over, at most MJPEG_OUT_BUF_NR of them are out at a time, a picture is  *)
(* given back in the order it was taken, and the one put on the network is *)
(* always the oldest one still out: never an older one, never one twice.   *)
(* A picture may be given back without being sent.                         *)
(***************************************************************************)
EXTENDS Integers

CONSTANT MJPEG_OUT_BUF_NR

VARIABLES captured,   \* pictures handed to the pipeline
          passed,     \* pictures the sender is done with
          sent,       \* the last picture put on the network, 0 at first
          returned    \* pictures whose buffer is free again

vars == <<captured, passed, sent, returned>>

Init == captured = 0 /\ passed = 0 /\ sent = 0 /\ returned = 0

Capture == /\ captured - returned < MJPEG_OUT_BUF_NR
           /\ captured' = captured + 1
           /\ UNCHANGED <<passed, sent, returned>>

Send == /\ passed < captured
        /\ sent' = passed + 1
        /\ passed' = passed + 1
        /\ UNCHANGED <<captured, returned>>

Skip == /\ passed < captured
        /\ passed' = passed + 1
        /\ UNCHANGED <<captured, sent, returned>>

Return == /\ returned < passed
          /\ returned' = returned + 1
          /\ UNCHANGED <<captured, passed, sent>>

Next == Capture \/ Send \/ Skip \/ Return

Spec == Init /\ [][Next]_vars
=============================================================================
