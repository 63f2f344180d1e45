-------------------------------- MODULE Client --------------------------------
(***************************************************************************)
(* The client: modes started and stopped on several threads, the receiver  *)
(* of pictures with its watchdog, and the connection that is made again    *)
(* when no pictures come.                                                  *)
(*                                                                         *)
(* "Run" stands for the modes that show pictures as they come and that are *)
(* restored after a reconnection, "Accuracy" for those that show them by a *)
(* timer.  Every start runs on a thread of its own; whoever finds the      *)
(* connection gone stops the current mode on the thread it happens to be   *)
(* on.  A thread is an actor with a place in the code it executes; the     *)
(* places lie between the accesses to what the threads share.              *)
(*                                                                         *)
(* Logging, the histogram, the window's texts and the pictures collected   *)
(* before the first is shown are left out.  init looks at isReady first,   *)
(* but serviceUnavailable has always reset it by then: no action.  A call  *)
(* on the LinkedList of a receiver is one step, and so is a look at task   *)
(* with the cancel that follows it, though nothing locks either.  The      *)
(* accuracy test ends on the timer's thread, never on a receiver's.        *)
(***************************************************************************)
EXTENDS Integers, Sequences, FiniteSets

CONSTANTS
  Starters,        \* bound: threads of onUiStart at a time
  Receivers,       \* bound: receivers whose threads live at a time
  None,
  QueueLength,     \* bound: pictures waiting to be shown
  MaxClicks,       \* bound: clicks on the mode buttons and tests that end
  MaxLosses        \* bound: losses of the server or of the network, and tests
                   \* whose pictures are all sent

Showing      == {"Run", "Accuracy"}
Mode         == Showing \cup {"Connect", "Rescan"}
NeedsSocket  == Mode \ {"Connect"}         \* needTransferSocket
NeedsRestore == {"Run"}                    \* needRestore
\* The watchdog of a receiver runs on the thread of its executor.
Actor == Starters \cup Receivers \cup {"edt", "timer", "scheduled"}

ASSUME ClientAssumption ==
  /\ None \notin Actor \cup Mode
  /\ Receivers # {} /\ Starters \cap (Receivers \cup {"edt", "timer", "scheduled"}) = {}
  /\ {QueueLength, MaxClicks, MaxLosses} \subseteq Nat

VARIABLES
  currentMode,     \* of ModeManager
  running,         \* modes with isRunning
  enabled,         \* the buttons that can be clicked
  at,              \* where an actor is, for which mode, and where it goes
                   \* when it has stopped the current one
  isReady, lastMode, nanoSocket, receiver,     \* of NetworkManager
  lock,            \* who is in initialize
  task,            \* the player's timer task is there
  started,         \* the player's running
  orphan,          \* a timer whose task was overwritten: nothing cancels it
  directPlay,      \* pictures are shown by the receiver's thread as well
  playing,         \* the player's receiver
  thread,          \* where the thread of a receiver is
  rcv,             \* fields of a receiver
  queue,           \* its pictures
  hand,            \* the picture its thread has read
  future,          \* its watchdog: "null", "armed", "cancelled", "done"
  link,            \* its connection: "none", "open", "ended" by the server,
                   \* "silent" (nobody answers), "closed" by the client
  up,              \* the server accepts connections
  serving,         \* the mode the server sends pictures of
  clicks, losses,
  overlapped,      \* history: two threads started or stopped modes at once
  misled,          \* history: the last playImages found running, but no task
  crossed          \* history: two threads were between resetBuffer and
                   \* interestType at once

modes   == <<currentMode, running, enabled>>
threads == <<at, lock>>
network == <<isReady, lastMode, nanoSocket, receiver>>
chosen  == <<directPlay, playing, misled, crossed>>
player  == <<task, started, orphan, chosen>>
rcvs    == <<thread, rcv, queue, hand, future>>
server  == <<link, up, serving>>
bounds  == <<clicks, losses>>
vars    == <<modes, threads, network, player, rcvs, server, bounds, overlapped>>

NoType == "none"
\* Where playImages and startReceive are.
InPlayer == {"play", "reset", "want", "spawn", "begin", "monitor", "task", "running"}
Place  == InPlayer \cup
          {"idle", "stopOld", "set", "start", "command", "stop", "halt", "clear", "dialog",
           "disconnect", "schedule", "reinit", "enter", "connect", "ready", "restore", "settle",
           "giveUp", "leave"}
NewReceiver == [isStart |-> FALSE, isReceiving |-> FALSE, interest |-> NoType,
                monitoring |-> FALSE]

\* A thing to do, for onUiStart with the mode it was given, for startReceive
\* with the receiver it was called on.
Do(place)        == [place |-> place, mode |-> None, then |-> "idle", on |-> None]
DoFor(m, place)  == [Do(place) EXCEPT !.mode = m]
\* onUiStop, on whatever thread, and what comes after it.
OnUiStop(place)  == [Do("stop") EXCEPT !.then = place]

\* A first Connect has succeeded.
Init ==
  /\ currentMode = None /\ running = {} /\ enabled = Mode
  /\ at = [a \in Actor |-> Do("idle")] /\ lock = None
  /\ task = FALSE /\ started = FALSE /\ orphan = FALSE /\ directPlay = FALSE /\ playing = None
  /\ thread = [r \in Receivers |-> "new"] /\ rcv = [r \in Receivers |-> NewReceiver]
  /\ queue = [r \in Receivers |-> <<>>] /\ hand = [r \in Receivers |-> NoType]
  /\ future = [r \in Receivers |-> "null"]
  /\ receiver = (CHOOSE r \in Receivers : TRUE) /\ nanoSocket = receiver
  /\ isReady = TRUE /\ lastMode = None
  /\ link = [r \in Receivers |-> IF r = receiver THEN "open" ELSE "none"]
  /\ up = TRUE /\ serving = NoType
  /\ clicks = 0 /\ losses = 0 /\ overlapped = FALSE /\ misled = FALSE
  /\ crossed = FALSE

Idle(a)      == at[a].place = "idle"
At(a, place) == at[a].place = place
ModeOf(a)    == at[a].mode

\* From its first look at currentMode to the end of what it does about it an
\* actor should be alone.
Amid(thing) == thing.place \in InPlayer \cup {"halt", "set", "start", "clear"}
Goes(a, thing) ==
  /\ at' = [at EXCEPT ![a] = thing]
  /\ overlapped' = (overlapped \/ (Amid(thing) /\ \E b \in Actor \ {a} : Amid(at[b])))

(***************************************************************************)
(* Player.stop and BaseMode.stop                                           *)
(***************************************************************************)
StopSelf(r) ==
  /\ rcv' = [rcv EXCEPT ![r] = [@ EXCEPT !.isReceiving = FALSE, !.interest = NoType,
                                         !.monitoring = FALSE]]
  /\ queue' = [queue EXCEPT ![r] = <<>>]
  /\ future' = [future EXCEPT ![r] = IF @ = "armed" THEN "cancelled" ELSE @]

\* Player.stop does nothing without a task; with one, it takes it away first.
PlayerStop == task' = FALSE /\ UNCHANGED <<started, orphan, chosen>>

ModeStop(m) ==
  /\ running' = running \ {m}
  /\ IF m \in Showing THEN PlayerStop ELSE UNCHANGED player

\* Where stop goes on: in Player.stop, if that has taken a task away.
Onwards(m, place) == IF m \in Showing /\ task THEN "halt" ELSE place

(***************************************************************************)
(* ModeManager.onUiStop                                                    *)
(***************************************************************************)
Stop(a) ==
  /\ At(a, "stop") /\ Goes(a, [at[a] EXCEPT !.place = Onwards(currentMode, "clear")])
  /\ IF currentMode # None THEN ModeStop(currentMode) ELSE UNCHANGED <<running, player>>
  /\ UNCHANGED <<currentMode, enabled, lock, network, rcvs, server, bounds>>

\* The rest of Player.stop, of onUiStop or of onUiStart with its mode.
Halt(a) ==
  /\ At(a, "halt") /\ Goes(a, [at[a] EXCEPT !.place = IF ModeOf(a) = None THEN "clear" ELSE "set"])
  /\ started' = FALSE
  /\ IF playing = None THEN UNCHANGED <<rcv, queue, future>> ELSE StopSelf(playing)
  /\ enabled' = IF ModeOf(a) = None THEN enabled ELSE Mode
  /\ UNCHANGED <<currentMode, running, lock, network, task, orphan, chosen, thread, hand,
                 server, bounds>>

Clear(a) ==
  /\ At(a, "clear") /\ Goes(a, Do(at[a].then))
  /\ currentMode' = None /\ enabled' = Mode
  /\ UNCHANGED <<running, lock, network, player, rcvs, server, bounds>>

\* serviceUnavailable, and what comes after it.
Unavailable(a, next) == isReady' = FALSE /\ Goes(a, OnUiStop(next))

(***************************************************************************)
(* onUiStart                                                               *)
(***************************************************************************)
Free == {s \in Starters : Idle(s)}
Thread == CHOOSE s \in Free : TRUE

\* A click on the button of a running mode stops the current one.
Click(m) ==
  /\ Idle("edt") /\ m \in enabled /\ clicks < MaxClicks /\ clicks' = clicks + 1
  /\ CASE m \in running -> Goes("edt", OnUiStop("idle"))
       [] m \notin running /\ m \in NeedsSocket /\ ~isReady -> UNCHANGED <<at, overlapped>>
       [] OTHER -> Free # {} /\ Goes(Thread, DoFor(m, "stopOld"))
  /\ UNCHANGED <<modes, lock, network, player, rcvs, server, losses>>

KeepOld(s) ==                                \* mutant: the old mode is not stopped
  /\ At(s, "stopOld") /\ Goes(s, DoFor(ModeOf(s), "set"))
  /\ UNCHANGED <<modes, lock, network, player, rcvs, server, bounds>>
StopOld(s) ==
  /\ At(s, "stopOld")
  /\ IF currentMode = None
     THEN Goes(s, DoFor(ModeOf(s), "set")) /\ UNCHANGED <<modes, player>>
     ELSE /\ Goes(s, DoFor(ModeOf(s), Onwards(currentMode, "set")))
          /\ ModeStop(currentMode) /\ UNCHANGED currentMode
          /\ enabled' = IF Onwards(currentMode, "set") = "set" THEN Mode ELSE enabled
  /\ UNCHANGED <<lock, network, rcvs, server, bounds>>

\* disableControlButtons
EnabledFor(m) == CASE m = "Connect" -> enabled [] m = "Rescan" -> {} [] OTHER -> enabled \cap {m}

SetMode(s) ==
  /\ At(s, "set") /\ Goes(s, Do("start"))
  /\ currentMode' = ModeOf(s) /\ enabled' = EnabledFor(ModeOf(s))
  /\ UNCHANGED <<running, lock, network, player, rcvs, server, bounds>>

\* currentMode.start(): whatever currentMode is by now, null included.
Start(s) ==
  /\ At(s, "start")
  /\ running' = running \cup ({currentMode} \ {None})
  /\ CASE currentMode = None     -> Goes(s, Do("idle"))
       [] currentMode = "Connect" -> Goes(s, Do(IF isReady THEN "idle" ELSE "enter"))
       [] currentMode \in Showing -> Goes(s, DoFor(currentMode, "play"))
       [] currentMode = "Rescan"  -> /\ Idle("edt") /\ UNCHANGED overlapped
                                     /\ at' = [at EXCEPT ![s] = Do("idle"), !["edt"] = Do("dialog")]
  /\ UNCHANGED <<currentMode, enabled, lock, network, player, rcvs, server, bounds>>

(***************************************************************************)
(* Player.playImages and Receiver.startReceive: the thread is started      *)
(* before isStart is set.  A thread that has ended cannot be started.      *)
(* There has been a receiver since the first Connect.                      *)
(***************************************************************************)
TimerAlone(s) ==                             \* mutant: no receiver is taken
  /\ At(s, "play") /\ Goes(s, DoFor(ModeOf(s), "task"))
  /\ UNCHANGED <<modes, lock, network, player, rcvs, server, bounds>>
Play(s) ==
  /\ At(s, "play") /\ directPlay' = (ModeOf(s) = "Run") /\ misled' = (started /\ ~task)
  /\ IF task \/ started THEN Goes(s, DoFor(ModeOf(s), "command")) /\ UNCHANGED playing
                        ELSE Goes(s, DoFor(ModeOf(s), "reset")) /\ playing' = receiver
  /\ UNCHANGED <<modes, lock, network, task, started, orphan, crossed, rcvs, server, bounds>>

Reset(s) ==
  /\ At(s, "reset") /\ Goes(s, DoFor(ModeOf(s), "want"))
  /\ rcv' = [rcv EXCEPT ![playing].interest = NoType] /\ queue' = [queue EXCEPT ![playing] = <<>>]
  /\ crossed' = (crossed \/ \E t \in Starters \ {s} : At(t, "want"))
  /\ UNCHANGED <<modes, lock, network, task, started, orphan, directPlay, playing, misled, thread,
                 hand, future, server, bounds>>

Wants(s) ==
  /\ At(s, "want") /\ Goes(s, [DoFor(ModeOf(s), "spawn") EXCEPT !.on = playing])
  /\ rcv' = [rcv EXCEPT ![playing].interest = ModeOf(s)]
  /\ UNCHANGED <<modes, lock, network, player, thread, queue, hand, future, server, bounds>>

Spawns(s) ==
  LET r == at[s].on
      GoesOn(place) == Goes(s, [at[s] EXCEPT !.place = place])
  IN /\ At(s, "spawn")
     /\ \/ rcv[r].isStart /\ GoesOn("monitor") /\ UNCHANGED thread
        \/ /\ ~rcv[r].isStart /\ thread[r] = "new" /\ GoesOn("begin")
           /\ thread' = [thread EXCEPT ![r] = "enter"]
        \/ ~rcv[r].isStart /\ thread[r] # "new" /\ Goes(s, Do("idle")) /\ UNCHANGED thread
     /\ UNCHANGED <<modes, lock, network, player, rcv, queue, hand, future, server, bounds>>

Begins(s) ==
  /\ At(s, "begin") /\ Goes(s, [at[s] EXCEPT !.place = "monitor"])
  /\ rcv' = [rcv EXCEPT ![at[s].on].isStart = TRUE]
  /\ UNCHANGED <<modes, lock, network, player, thread, queue, hand, future, server, bounds>>

Monitors(s) ==
  /\ At(s, "monitor") /\ Goes(s, DoFor(ModeOf(s), "task"))
  /\ rcv' = [rcv EXCEPT ![at[s].on] = [@ EXCEPT !.monitoring = TRUE, !.isReceiving = TRUE]]
  /\ UNCHANGED <<modes, lock, network, player, thread, queue, hand, future, server, bounds>>

StartReceiving(s) ==
  /\ At(s, "task") /\ Goes(s, DoFor(ModeOf(s), "running"))
  /\ task' = TRUE /\ orphan' = (orphan \/ task)
  /\ UNCHANGED <<modes, lock, network, started, chosen, rcvs, server, bounds>>

Running(s) ==
  /\ At(s, "running") /\ Goes(s, DoFor(ModeOf(s), "command")) /\ started' = TRUE
  /\ UNCHANGED <<modes, lock, network, task, orphan, chosen, rcvs, server, bounds>>

\* controlNano: the first write after the server has gone may still succeed.
Written(r) == r # None /\ link[r] \in {"open", "ended", "silent"}
Refused(r) == r # None /\ link[r] \in {"ended", "closed"}
Heard(r)   == r # None /\ link[r] = "open"

Command(s) ==
  /\ At(s, "command")
  /\ \/ /\ nanoSocket = None \/ Written(nanoSocket)
        /\ Goes(s, Do("idle")) /\ UNCHANGED isReady
        /\ serving' = IF Heard(nanoSocket) THEN ModeOf(s) ELSE serving
     \/ Refused(nanoSocket) /\ Unavailable(s, "idle") /\ UNCHANGED serving
  /\ UNCHANGED <<modes, lock, lastMode, nanoSocket, receiver, player, rcvs, link, up, bounds>>

PlaySteps(s) ==
  \/ Play(s) \/ Reset(s) \/ Wants(s) \/ Spawns(s) \/ Begins(s) \/ Monitors(s)
  \/ StartReceiving(s) \/ Running(s)
StartSteps(s) == StopOld(s) \/ SetMode(s) \/ Start(s) \/ PlaySteps(s) \/ Command(s)

(***************************************************************************)
(* The question of the Rescan mode, on the event thread                    *)
(***************************************************************************)
Declined ==
  /\ At("edt", "dialog") /\ Goes("edt", OnUiStop("idle"))
  /\ UNCHANGED <<modes, lock, network, player, rcvs, server, bounds>>

\* The server stops for the rescan.
Rescan ==
  /\ At("edt", "dialog")
  /\ \/ /\ nanoSocket = None \/ Written(nanoSocket)
        /\ Goes("edt", Do("disconnect")) /\ UNCHANGED isReady
        /\ IF Heard(nanoSocket)
           THEN /\ up' = FALSE /\ serving' = NoType /\ link' = [link EXCEPT ![nanoSocket] = "ended"]
                /\ losses < MaxLosses /\ losses' = losses + 1
           ELSE UNCHANGED <<up, serving, link, losses>>
     \/ Refused(nanoSocket) /\ Unavailable("edt", "disconnect")
        /\ UNCHANGED <<up, serving, link, losses>>
  /\ UNCHANGED <<modes, lock, lastMode, nanoSocket, receiver, player, rcvs, clicks>>

Disconnect ==
  /\ At("edt", "disconnect")
  /\ IF nanoSocket = None THEN Goes("edt", Do("idle")) /\ UNCHANGED <<isReady, nanoSocket, link>>
     ELSE /\ link' = [link EXCEPT ![nanoSocket] = "closed"] /\ nanoSocket' = None
          /\ Unavailable("edt", "schedule")
  /\ UNCHANGED <<modes, lock, lastMode, receiver, player, rcvs, up, serving, bounds>>

Schedule ==
  /\ At("edt", "schedule") /\ Idle("scheduled")
  /\ at' = [at EXCEPT !["edt"] = Do("idle"), !["scheduled"] = Do("reinit")] /\ UNCHANGED overlapped
  /\ UNCHANGED <<modes, lock, network, player, rcvs, server, bounds>>

Asked == Declined \/ Rescan \/ Disconnect \/ Schedule

(***************************************************************************)
(* NetworkManager: reInitialize, and the synchronized initialize           *)
(***************************************************************************)
ReInitialize(a) ==
  /\ At(a, "reinit") /\ Goes(a, Do("enter"))
  /\ isReady' = FALSE /\ lastMode' = currentMode
  /\ UNCHANGED <<modes, lock, nanoSocket, receiver, player, rcvs, server, bounds>>

Initialize(a) ==
  /\ At(a, "enter") /\ lock = None /\ lock' = a
  /\ Unavailable(a, "connect")
  /\ UNCHANGED <<modes, lastMode, nanoSocket, receiver, player, rcvs, server, bounds>>

\* A receiver no thread has anything to do with any more stands for a new
\* one.  One that waits for a picture of a server that is silent is forgotten.
Gone(r) ==
  /\ r # receiver /\ r # playing /\ Idle(r) /\ future[r] # "armed"
  /\ thread[r] \in {"new", "ended"} \/ (thread[r] = "read" /\ link[r] = "silent")

Terminated == [rcv EXCEPT ![receiver].isStart = FALSE]

Connected(a) ==
  /\ At(a, "connect") /\ up
  /\ \E r \in Receivers : Gone(r) /\ receiver' = r
  /\ nanoSocket' = receiver'
  /\ rcv' = [Terminated EXCEPT ![receiver'] = NewReceiver]
  /\ thread' = [thread EXCEPT ![receiver'] = "new"]
  /\ queue' = [queue EXCEPT ![receiver'] = <<>>] /\ hand' = [hand EXCEPT ![receiver'] = NoType]
  /\ future' = [future EXCEPT ![receiver'] = "null"]
  /\ link' = [r \in Receivers |-> IF r = receiver' THEN "open"
                                  ELSE IF link[r] = "open" THEN "ended" ELSE link[r]]
  /\ serving' = NoType
  /\ Goes(a, Do("ready"))
  /\ UNCHANGED <<modes, lock, isReady, lastMode, player, up, bounds>>

\* The attempt fails; after retryCount of them initialize gives up.
Refusal(a) ==
  /\ At(a, "connect") /\ ~up /\ rcv' = Terminated
  /\ \E next \in {"connect", "giveUp"} : Unavailable(a, next)
  /\ UNCHANGED <<modes, lock, lastMode, nanoSocket, receiver, player, thread, queue, hand, future,
                 server, bounds>>

GiveUp(a) ==
  /\ At(a, "giveUp") /\ Unavailable(a, "leave")
  /\ UNCHANGED <<modes, lock, lastMode, nanoSocket, receiver, player, rcvs, server, bounds>>

ServiceReady(a) ==
  /\ At(a, "ready") /\ isReady' = TRUE /\ Goes(a, Do("restore"))
  /\ UNCHANGED <<modes, lock, lastMode, nanoSocket, receiver, player, rcvs, server, bounds>>

\* The mode is started again by a thread of its own, if it needs that and
\* onUiStart still finds the connection ready.
Restore(a) ==
  /\ At(a, "restore")
  /\ lastMode' = IF lastMode \in NeedsRestore THEN None ELSE lastMode
  /\ IF lastMode \in NeedsRestore /\ isReady
     THEN /\ Free # {} /\ UNCHANGED overlapped
          /\ at' = [at EXCEPT ![a] = Do("settle"), ![Thread] = DoFor(lastMode, "stopOld")]
     ELSE Goes(a, Do("settle"))
  /\ UNCHANGED <<modes, lock, isReady, nanoSocket, receiver, player, rcvs, server, bounds>>

\* initialize tries again when somebody has found the connection gone by now.
Again(a) ==
  /\ At(a, "settle") /\ ~isReady
  /\ \E next \in {"connect", "giveUp"} : Goes(a, Do(next))
  /\ UNCHANGED <<modes, lock, network, player, rcvs, server, bounds>>

Leave(a) ==
  /\ At(a, "leave") \/ (At(a, "settle") /\ isReady)
  /\ lock' = None /\ Goes(a, Do("idle"))
  /\ UNCHANGED <<modes, network, player, rcvs, server, bounds>>

NetworkSteps(a) ==
  \/ ReInitialize(a) \/ Initialize(a) \/ Connected(a) \/ Refusal(a)
  \/ GiveUp(a) \/ ServiceReady(a) \/ Restore(a) \/ Again(a) \/ Leave(a)

(***************************************************************************)
(* The receiver's thread, from one access of what it shares to the next    *)
(***************************************************************************)
Moves(r, place) == thread' = [thread EXCEPT ![r] = place]
RestOfReceiver  == <<modes, threads, network, queue, future, link, up, serving, bounds, overlapped>>

Enter(r) ==
  /\ thread[r] = "enter" /\ Moves(r, IF rcv[r].isStart THEN "inner" ELSE "ended")
  /\ rcv' = [rcv EXCEPT ![r].isReceiving = TRUE]
  /\ UNCHANGED <<RestOfReceiver, player, hand>>

\* The inner loop, and out of it and, after a second's sleep, of the outer one.
Loops(r) ==
  /\ thread[r] = "inner" /\ rcv[r].isReceiving /\ Moves(r, "read")
  /\ UNCHANGED <<RestOfReceiver, player, rcv, hand>>

Ends(r) ==
  /\ thread[r] = "inner" /\ ~rcv[r].isReceiving /\ ~rcv[r].isStart /\ Moves(r, "ended")
  /\ UNCHANGED <<RestOfReceiver, player, rcv, hand>>

\* The next picture, whether the mode it was waited for still goes on or not;
\* PlaybackMonitor.onNewFrame looks at startMonitoring, then at its future.
Reads(r) ==
  /\ thread[r] = "read" /\ link[r] = "open" /\ serving # NoType
  /\ hand' = [hand EXCEPT ![r] = serving]
  /\ Moves(r, IF rcv[r].monitoring THEN "arm" ELSE "check")
  /\ UNCHANGED <<RestOfReceiver, player, rcv>>

Arms(r) ==
  /\ thread[r] = "arm" /\ Moves(r, "check")
  /\ future' = [future EXCEPT ![r] = "armed"]
  /\ UNCHANGED <<modes, threads, network, player, rcv, queue, hand, server, bounds, overlapped>>

\* After the end of the connection: a size of zero, again and again.
ReadsNothing(r) ==
  /\ thread[r] = "read" /\ link[r] = "ended" /\ Moves(r, "inner")
  /\ future' = [future EXCEPT ![r] = IF @ = "null" /\ rcv[r].monitoring THEN "armed" ELSE @]
  /\ UNCHANGED <<modes, threads, network, player, rcv, queue, hand, server, bounds, overlapped>>

\* A connection that has ended may be reset as well: Player.onFailed takes
\* away the task of whatever plays by then, and resets running after it.
Fails(r) ==
  /\ thread[r] = "read" /\ link[r] \in {"ended", "closed"}
  /\ Moves(r, "failed") /\ task' = FALSE
  /\ UNCHANGED <<RestOfReceiver, started, orphan, chosen, rcv, hand>>
Failed(r) ==
  /\ thread[r] = "failed" /\ Moves(r, "ended") /\ started' = FALSE
  /\ UNCHANGED <<RestOfReceiver, task, orphan, chosen, rcv, hand>>

UncheckedPicture(r) ==                       \* mutant: whatever its type
  /\ thread[r] = "check" /\ Moves(r, "add")
  /\ UNCHANGED <<RestOfReceiver, player, rcv, hand>>
Checks(r) ==
  /\ thread[r] = "check"
  /\ IF hand[r] = rcv[r].interest
     THEN Moves(r, "add") /\ UNCHANGED hand
     ELSE Moves(r, "inner") /\ hand' = [hand EXCEPT ![r] = NoType]
  /\ UNCHANGED <<RestOfReceiver, player, rcv>>

Adds(r) ==
  /\ thread[r] = "add" /\ Moves(r, "direct")
  /\ queue' = [queue EXCEPT ![r] = IF Len(@) < QueueLength THEN Append(@, hand[r]) ELSE @]
  /\ hand' = [hand EXCEPT ![r] = NoType]
  /\ UNCHANGED <<modes, threads, network, player, rcv, future, server, bounds, overlapped>>

\* Player.showImage, of the timer or of a receiver's thread: the next picture
\* of the player's receiver, whichever that is by now.
Shown == queue' = [queue EXCEPT ![playing] = Tail(@)]

\* Player.onFrameReceived
ShowsDirectly(r) ==
  /\ thread[r] = "direct" /\ Moves(r, "inner")
  /\ IF directPlay /\ queue[playing] # <<>> THEN Shown ELSE UNCHANGED queue
  /\ UNCHANGED <<modes, threads, network, player, rcv, hand, future, server, bounds, overlapped>>

Receive(r) ==
  \/ Enter(r) \/ Loops(r) \/ Ends(r) \/ Reads(r) \/ Arms(r) \/ ReadsNothing(r)
  \/ Fails(r) \/ Failed(r) \/ Checks(r) \/ Adds(r) \/ ShowsDirectly(r)

\* The server sends pictures often enough for the watchdog.
Fires(r) ==
  /\ future[r] = "armed" /\ Idle(r)
  /\ ~(link[r] = "open" /\ serving # NoType)
  /\ future' = [future EXCEPT ![r] = "done"] /\ Goes(r, Do("reinit"))
  /\ UNCHANGED <<modes, lock, network, player, thread, rcv, queue, hand, server, bounds>>

\* The timer; the accuracy test ends itself with its last picture.
Shows ==
  /\ Idle("timer") /\ (task \/ orphan)
  /\ queue[playing] # <<>> /\ Shown
  /\ \/ UNCHANGED <<at, overlapped, clicks>>
     \/ /\ "Accuracy" \in running /\ Goes("timer", OnUiStop("idle"))
        /\ clicks < MaxClicks /\ clicks' = clicks + 1
  /\ UNCHANGED <<modes, lock, network, player, thread, rcv, hand, future, server, losses>>

(***************************************************************************)
(* The server and the network                                              *)
(***************************************************************************)
RestOfServer == <<modes, threads, network, player, rcvs, overlapped>>

\* The pictures of the accuracy test are all sent.
Exhausted ==
  /\ serving = "Accuracy" /\ serving' = NoType
  /\ losses < MaxLosses /\ losses' = losses + 1
  /\ UNCHANGED <<RestOfServer, link, up, clicks>>

Lost(broken) ==
  /\ losses < MaxLosses /\ losses' = losses + 1 /\ serving' = NoType /\ up' = FALSE
  /\ \E r \in Receivers : link[r] = "open" /\ link' = [link EXCEPT ![r] = broken]
  /\ UNCHANGED <<RestOfServer, clicks>>

Boots == ~up /\ up' = TRUE /\ UNCHANGED <<RestOfServer, link, serving, bounds>>

(***************************************************************************)
(* The client with its server                                              *)
(***************************************************************************)
\* What an actor has to do.
Steps(a) ==
  \/ Stop(a) \/ Halt(a) \/ Clear(a) \/ NetworkSteps(a)
  \/ a \in Starters /\ StartSteps(a)
  \/ a = "edt" /\ Asked

Next ==
  \/ \E a \in Actor : Steps(a)
  \/ \E r \in Receivers : Receive(r) \/ Fires(r)
  \/ (\E m \in Mode : Click(m)) \/ Shows \/ Exhausted \/ Boots
  \/ \E broken \in {"ended", "silent"} : Lost(broken)

\* Threads run, timers go off, the server answers and boots; nobody has to
\* click, to lose a connection or to let a test end.
Fairness ==
  /\ \A a \in Actor : WF_vars(Steps(a))
  /\ \A r \in Receivers : WF_vars(Receive(r)) /\ WF_vars(Fires(r))
  /\ WF_vars(Boots)

Spec == Init /\ [][Next]_vars /\ Fairness

(***************************************************************************)
(* Properties                                                              *)
(***************************************************************************)
\* The fields of ModeManager, NetworkManager, Player and the receivers, and
\* the places of the threads.
TypeOK ==
  /\ currentMode \in Mode \cup {None} /\ running \subseteq Mode /\ enabled \subseteq Mode
  /\ lock \in Actor \cup {None}
  /\ at \in [Actor -> [place : Place, mode : Mode \cup {None}, then : Place,
                      on : Receivers \cup {None}]]
  /\ isReady \in BOOLEAN /\ lastMode \in Mode \cup {None}
  /\ {nanoSocket, receiver, playing} \subseteq Receivers \cup {None}
  /\ {task, started, orphan, directPlay, misled, crossed} \subseteq BOOLEAN
  /\ rcv \in [Receivers -> [isStart : BOOLEAN, isReceiving : BOOLEAN, monitoring : BOOLEAN,
                            interest : Showing \cup {NoType}]]
  /\ future \in [Receivers -> {"null", "armed", "cancelled", "done"}]
  /\ thread \in [Receivers -> {"new", "enter", "inner", "read", "arm", "check", "add", "direct",
                               "failed", "ended"}]
  /\ \A r \in Receivers : Len(queue[r]) <= QueueLength /\ (thread[r] = "add" => hand[r] # NoType)
  /\ task \/ started \/ (\E r \in Receivers : thread[r] = "direct") => playing # None

\* At most the current mode runs, and the pictures the timer shows are of its
\* type - as long as no two threads have been in the middle of starting or
\* stopping one.
\* (ModeManager.onUiStart and onUiStop, BaseMode.start, Player.playImages)
OneModeRuns ==
  overlapped \/ /\ running \subseteq {currentMode}
                /\ task => currentMode \in Showing /\ rcv[playing].interest = currentMode

\* Of the pictures waiting to be shown one at most is not of the type the
\* receiver is interested in: the one that was checked before the reset and
\* added after it - as long as no two threads have been between resetBuffer
\* and interestType at once.  (Receiver.receiveImages, resetBuffer, startReceive)
PicturesOfMode ==
  crossed \/ \A r \in Receivers :
    LET Stray(picture) == picture # rcv[r].interest
        waiting == {i \in DOMAIN queue[r] : Stray(queue[r][i])}
    IN Cardinality(waiting) + (IF thread[r] = "add" /\ Stray(hand[r]) THEN 1 ELSE 0) <= 1

\* Why no picture may come though the Run mode goes on: the thread of the
\* receiver ended as soon as it began, before isStart was set; or the
\* connection has ended and the watchdog was cancelled by an earlier stop,
\* which nothing but a picture undoes; or the connection fell silent before
\* the first picture, and only what is read sets the watchdog up; or
\* playImages did nothing, because running was set though there was no task:
\* onFailed resets the two one after the other, and what it does while the
\* two are set, in the other order, leaves running for good.
Deaf ==
  \/ misled
  \/ thread[receiver] = "ended" /\ future[receiver] # "armed"
  \/ link[receiver] # "open" /\ future[receiver] = "cancelled"
  \/ link[receiver] = "silent" /\ future[receiver] = "null"
\* Bounds: no thread is left to restore the mode, no receiver to connect.
Crowded == \E a \in Actor : \/ At(a, "restore") /\ Free = {}
                            \/ At(a, "connect") /\ \A r \in Receivers : ~Gone(r)
Comes == \E r \in Receivers : thread[r] = "add" /\ hand[r] = "Run"

================================================================================
