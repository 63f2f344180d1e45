----------------------------- MODULE ClientProofs -----------------------------
(***************************************************************************)
(* Proofs about Client for any number of threads, receivers, clicks and    *)
(* losses and any length of the queue.                                     *)
(***************************************************************************)
EXTENDS Client, FiniteSetTheorems, TLAPS

(***************************************************************************)
(* The type invariant, in groups                                           *)
(***************************************************************************)
\* Where an actor goes when it has stopped the current mode.
Onward  == {"idle", "connect", "giveUp", "leave", "disconnect", "schedule"}
Picture == Showing \cup {NoType}
Thing   == [place : Place, mode : Mode \cup {None}, then : Onward, on : Receivers \cup {None}]
Fields  == [isStart : BOOLEAN, isReceiving : BOOLEAN, monitoring : BOOLEAN, interest : Picture]
Watch   == {"null", "armed", "cancelled", "done"}
OfThread == {"new", "enter", "inner", "read", "arm", "check", "add", "direct", "failed", "ended"}

\* onUiStart has been given a mode, startReceive a receiver.
OnReceiver == {"spawn", "begin", "monitor"}
Given(thing) ==
  /\ thing.place \in {"stopOld", "set"} => thing.mode \in Mode
  /\ thing.place \in InPlayer \cup {"command"} => thing.mode \in Showing
  /\ thing.place \in OnReceiver => thing.on \in Receivers

ModeType   == currentMode \in Mode \cup {None} /\ running \subseteq Mode /\ enabled \subseteq Mode
ThreadType == /\ at \in [Actor -> Thing] /\ \A a \in Actor : Given(at[a])
              /\ lock \in Actor \cup {None} /\ overlapped \in BOOLEAN
NetworkType == /\ isReady \in BOOLEAN /\ lastMode \in Mode \cup {None}
               /\ receiver \in Receivers /\ nanoSocket \in Receivers \cup {None}
PlayerType  == /\ task \in BOOLEAN /\ started \in BOOLEAN /\ orphan \in BOOLEAN
               /\ directPlay \in BOOLEAN /\ misled \in BOOLEAN /\ crossed \in BOOLEAN
               /\ playing \in Receivers \cup {None}
RcvType     == rcv \in [Receivers -> Fields] /\ future \in [Receivers -> Watch]
QueueType   == /\ queue \in [Receivers -> Seq(Showing)]
               /\ \A r \in Receivers : Len(queue[r]) <= QueueLength
PictureType == /\ serving \in Picture /\ hand \in [Receivers -> Picture]
               /\ thread \in [Receivers -> OfThread]
               /\ \A r \in Receivers : thread[r] \in {"arm", "check", "add"} => hand[r] # NoType
Types == /\ ModeType /\ ThreadType /\ NetworkType /\ PlayerType
         /\ RcvType /\ QueueType /\ PictureType

\* As long as the player has not been given a receiver, nothing plays.
Unplayed ==
  playing = None =>
    /\ ~task /\ ~started /\ ~orphan
    /\ \A a \in Actor : at[a].place \notin InPlayer \ {"play"}
    /\ \A r \in Receivers : rcv[r].interest = NoType /\ thread[r] \notin {"add", "direct"}
TypeInv == Types /\ Unplayed

(***************************************************************************)
(* What the steps have in common                                           *)
(***************************************************************************)
LEMMA Constants ==
  /\ None \notin Actor /\ None \notin Mode /\ None \notin Receivers
  /\ Receivers \subseteq Actor /\ Starters \subseteq Actor
  /\ {"edt", "timer", "scheduled"} \subseteq Actor
  /\ "edt" \notin Starters /\ QueueLength \in Nat
BY ClientAssumption DEF Actor

\* The things to do that the actions make.
LEMMA Made ==
  /\ \A p \in Place \ (InPlayer \cup {"stopOld", "set", "command"}) :
        Do(p) \in Thing /\ Given(Do(p)) /\ Do(p).place = p
  /\ \A m \in Mode : \A p \in {"stopOld", "set", "halt"} :
        DoFor(m, p) \in Thing /\ Given(DoFor(m, p)) /\ DoFor(m, p).place = p
  /\ \A m \in Showing : \A p \in (InPlayer \ OnReceiver) \cup {"command"} :
        DoFor(m, p) \in Thing /\ Given(DoFor(m, p)) /\ DoFor(m, p).place = p
  /\ \A p \in Onward :
        OnUiStop(p) \in Thing /\ Given(OnUiStop(p)) /\ OnUiStop(p).place = "stop"
BY DEF Do, DoFor, OnUiStop, Thing, Given, Place, InPlayer, OnReceiver, Onward, Mode

LEMMA GoesType ==
  ASSUME ThreadType, NEW a \in Actor, NEW thing \in Thing, Given(thing), Goes(a, thing),
         lock' \in Actor \cup {None}
  PROVE  ThreadType'
<1>1. at' \in [Actor -> Thing]  BY DEF ThreadType, Goes
<1>2. ASSUME NEW b \in Actor PROVE Given(at'[b])
  <2>1. at'[b] = IF b = a THEN thing ELSE at[b]  BY DEF ThreadType, Goes
  <2> QED  BY <2>1 DEF ThreadType
<1>3. overlapped' \in BOOLEAN  BY DEF ThreadType, Goes
<1> QED  BY <1>1, <1>2, <1>3 DEF ThreadType

LEMMA EmptiedType ==
  ASSUME QueueType, NEW r \in Receivers, queue' = [queue EXCEPT ![r] = <<>>]
  PROVE  QueueType'
BY Constants DEF QueueType

LEMMA ShownType ==
  ASSUME QueueType, NEW r \in Receivers, queue[r] # <<>>, queue' = [queue EXCEPT ![r] = Tail(@)]
  PROVE  QueueType'
<1>1. queue[r] \in Seq(Showing) /\ Len(queue[r]) <= QueueLength  BY DEF QueueType
<1>2. Tail(queue[r]) \in Seq(Showing) /\ Len(Tail(queue[r])) <= QueueLength
  BY <1>1, Constants
<1> QED  BY <1>2 DEF QueueType

LEMMA StopSelfType ==
  ASSUME RcvType, QueueType, NEW r \in Receivers, StopSelf(r)
  PROVE  RcvType' /\ QueueType'
<1>1. rcv' \in [Receivers -> Fields]  BY DEF RcvType, StopSelf, Fields, Picture
<1>2. future' \in [Receivers -> Watch]  BY DEF RcvType, StopSelf, Watch
<1>3. QueueType'  BY EmptiedType DEF StopSelf
<1> QED  BY <1>1, <1>2, <1>3 DEF RcvType

LEMMA ModeStopType ==
  ASSUME ModeType, PlayerType, NEW m \in Mode, ModeStop(m)
  PROVE  running' \subseteq Mode /\ PlayerType'
BY DEF ModeStop, PlayerStop, ModeType, PlayerType, player, chosen

\* An action that leaves the variables of a group alone leaves the group alone.
LEMMA Quiet ==
  /\ ModeType /\ UNCHANGED modes => ModeType'
  /\ ThreadType /\ UNCHANGED <<threads, overlapped>> => ThreadType'
  /\ NetworkType /\ UNCHANGED network => NetworkType'
  /\ PlayerType /\ UNCHANGED player => PlayerType'
  /\ RcvType /\ UNCHANGED <<rcv, future>> => RcvType'
  /\ QueueType /\ UNCHANGED queue => QueueType'
  /\ PictureType /\ UNCHANGED <<serving, hand, thread>> => PictureType'
BY DEF ModeType, ThreadType, NetworkType, PlayerType, RcvType, QueueType, PictureType,
       modes, threads, network, player, chosen

(***************************************************************************)
(* One lemma per thread: what its steps do to the types                    *)
(***************************************************************************)
LEMMA StopType ==
  ASSUME TypeInv, NEW a \in Actor, Stop(a) \/ Halt(a) \/ Clear(a)
  PROVE  Types'
<1> USE DEF TypeInv, Types
<1>1. CASE Stop(a)
  <2> USE <1>1 DEF Stop
  <2>1. ASSUME NEW p \in {"halt", "clear"}
        PROVE  [at[a] EXCEPT !.place = p] \in Thing /\ Given([at[a] EXCEPT !.place = p])
    BY DEF ThreadType, Thing, Given, Place, InPlayer, OnReceiver
  <2>2. ThreadType'  BY <2>1, GoesType DEF ThreadType, Onwards
  <2>3. ModeType' /\ PlayerType'
    BY ModeStopType, Quiet DEF ModeType
  <2> QED  BY <2>2, <2>3, Quiet DEF rcvs, server
<1>2. CASE Halt(a)
  <2> USE <1>2 DEF Halt
  <2>1. ASSUME NEW p \in {"set", "clear"}, p = "set" => ModeOf(a) # None
        PROVE  [at[a] EXCEPT !.place = p] \in Thing /\ Given([at[a] EXCEPT !.place = p])
    BY <2>1 DEF ThreadType, Thing, Given, Place, InPlayer, OnReceiver, ModeOf
  <2>2. ThreadType'  BY <2>1, GoesType DEF ThreadType
  <2>3. RcvType' /\ QueueType'  BY StopSelfType, Quiet DEF PlayerType
  <2>4. PlayerType'  BY DEF PlayerType, chosen
  <2>5. ModeType'  BY DEF ModeType
  <2> QED  BY <2>2, <2>3, <2>4, <2>5, Quiet DEF server
<1>3. CASE Clear(a)
  <2> USE <1>3 DEF Clear
  <2>1. /\ at[a].then \in Onward
        /\ Onward \subseteq Place \ (InPlayer \cup {"stopOld", "set", "command"})
    BY DEF ThreadType, Thing, Onward, Place, InPlayer
  <2>2. ThreadType'  BY <2>1, Made, GoesType DEF ThreadType
  <2>3. ModeType'  BY DEF ModeType
  <2> QED  BY <2>2, <2>3, Quiet DEF rcvs, server
<1> QED  BY <1>1, <1>2, <1>3

LEMMA AThread == Free # {} => Thread \in Starters /\ Idle(Thread)
BY DEF Free, Thread

LEMMA ClickType ==
  ASSUME TypeInv, NEW m \in Mode, Click(m)
  PROVE  Types'
<1> USE DEF TypeInv, Types, Click
<1>1. ThreadType'
  <2>1. CASE UNCHANGED <<at, overlapped>>
    BY <2>1, Quiet DEF threads
  <2>2. CASE Goes("edt", OnUiStop("idle"))
    BY <2>2, Made, GoesType, Constants DEF ThreadType, Onward
  <2>3. CASE Free # {} /\ Goes(Thread, DoFor(m, "stopOld"))
    BY <2>3, Made, GoesType, AThread, Constants DEF ThreadType
  <2> QED  BY <2>1, <2>2, <2>3
<1> QED  BY <1>1, Quiet DEF rcvs, server

LEMMA PlayType ==
  ASSUME TypeInv, NEW s \in Starters, PlaySteps(s)
  PROVE  Types'
<1> USE DEF TypeInv, Types
<1> s \in Actor  BY Constants
<1>0. ASSUME NEW p \in InPlayer, At(s, p)
      PROVE  /\ ModeOf(s) \in Showing
             /\ \A q \in (InPlayer \ OnReceiver) \cup {"command"} :
                   DoFor(ModeOf(s), q) \in Thing /\ Given(DoFor(ModeOf(s), q))
  BY <1>0, Made DEF ThreadType, Given, At, ModeOf
<1>1. CASE Play(s)
  <2> USE <1>1 DEF Play
  <2>1. ThreadType'  BY <1>0, GoesType DEF ThreadType, InPlayer, OnReceiver
  <2>2. PlayerType'  BY DEF PlayerType, NetworkType
  <2> QED  BY <2>1, <2>2, Quiet DEF rcvs, server
<1>2. CASE Reset(s)
  <2> USE <1>2 DEF Reset
  <2>1. ThreadType'  BY <1>0, GoesType DEF ThreadType, InPlayer, OnReceiver
  <2>2. PlayerType'  BY DEF PlayerType
  <2>3. RcvType'  BY DEF RcvType, Fields, Picture
  <2>4. QueueType'
    <3>1. CASE playing \in Receivers  BY <3>1, EmptiedType
    <3>2. CASE playing \notin Receivers  BY <3>2 DEF QueueType
    <3> QED  BY <3>1, <3>2
  <2> QED  BY <2>1, <2>2, <2>3, <2>4, Quiet DEF server
<1>3. CASE Wants(s)
  <2> USE <1>3 DEF Wants
  <2>1. ModeOf(s) \in Showing  BY <1>0 DEF InPlayer
  <2>2. playing \in Receivers  BY DEF Unplayed, PlayerType, At, InPlayer
  <2>3. LET thing == [DoFor(ModeOf(s), "spawn") EXCEPT !.on = playing]
        IN thing \in Thing /\ Given(thing)
    BY <2>1, <2>2 DEF DoFor, Do, Thing, Given, Place, InPlayer, OnReceiver, Onward, Mode
  <2>4. ThreadType'  BY <2>3, GoesType DEF ThreadType
  <2>5. RcvType'  BY <2>1 DEF RcvType, Fields, Picture
  <2> QED  BY <2>4, <2>5, Quiet DEF server
<1>4. CASE Spawns(s)
  <2> USE <1>4 DEF Spawns
  <2>1. ASSUME NEW p \in {"monitor", "begin"}
        PROVE  [at[s] EXCEPT !.place = p] \in Thing /\ Given([at[s] EXCEPT !.place = p])
    BY DEF ThreadType, Thing, Given, Place, InPlayer, OnReceiver, At
  <2>2. Do("idle") \in Thing /\ Given(Do("idle"))  BY Made DEF Place, InPlayer
  <2>3. ThreadType'  BY <2>1, <2>2, GoesType DEF ThreadType
  <2>4. PictureType'  BY DEF PictureType, OfThread, server
  <2> QED  BY <2>3, <2>4, Quiet
<1>5. CASE Begins(s)
  <2> USE <1>5 DEF Begins
  <2>1. /\ [at[s] EXCEPT !.place = "monitor"] \in Thing
        /\ Given([at[s] EXCEPT !.place = "monitor"])
    BY DEF ThreadType, Thing, Given, Place, InPlayer, OnReceiver, At
  <2>2. ThreadType'  BY <2>1, GoesType DEF ThreadType
  <2>3. RcvType'  BY DEF RcvType, Fields
  <2> QED  BY <2>2, <2>3, Quiet DEF server
<1>6. CASE Monitors(s)
  <2> USE <1>6 DEF Monitors
  <2>1. ThreadType'  BY <1>0, GoesType DEF ThreadType, InPlayer, OnReceiver
  <2>2. RcvType'  BY DEF RcvType, Fields
  <2> QED  BY <2>1, <2>2, Quiet DEF server
<1>7. CASE StartReceiving(s)
  <2> USE <1>7 DEF StartReceiving
  <2>1. ThreadType'  BY <1>0, GoesType DEF ThreadType, InPlayer, OnReceiver
  <2>2. PlayerType'  BY DEF PlayerType, chosen
  <2> QED  BY <2>1, <2>2, Quiet DEF rcvs, server
<1>8. CASE Running(s)
  <2> USE <1>8 DEF Running
  <2>1. ThreadType'  BY <1>0, GoesType DEF ThreadType, InPlayer, OnReceiver
  <2>2. PlayerType'  BY DEF PlayerType, chosen
  <2> QED  BY <2>1, <2>2, Quiet DEF rcvs, server
<1> QED  BY <1>1, <1>2, <1>3, <1>4, <1>5, <1>6, <1>7, <1>8 DEF PlaySteps

LEMMA StartType ==
  ASSUME TypeInv, NEW s \in Starters, StartSteps(s)
  PROVE  Types'
<1> USE DEF TypeInv, Types
<1> s \in Actor  BY Constants
<1>1. CASE StopOld(s)
  <2> USE <1>1 DEF StopOld
  <2>1. ModeOf(s) \in Mode  BY DEF ThreadType, Given, At, ModeOf
  <2>2. ThreadType'  BY <2>1, Made, GoesType DEF ThreadType, Onwards
  <2>3. ModeType' /\ PlayerType'
    BY ModeStopType, Quiet DEF ModeType
  <2> QED  BY <2>2, <2>3, Quiet DEF rcvs, server
<1>2. CASE SetMode(s)
  <2> USE <1>2 DEF SetMode
  <2>1. ModeOf(s) \in Mode  BY DEF ThreadType, Given, At, ModeOf
  <2>2. ModeType'  BY <2>1 DEF ModeType, EnabledFor
  <2>3. ThreadType'  BY Made, GoesType DEF ThreadType, Place, InPlayer
  <2> QED  BY <2>2, <2>3, Quiet DEF rcvs, server
<1>3. CASE Start(s)
  <2> USE <1>3 DEF Start
  <2>0. \A p \in {"idle", "enter", "dialog"} : Do(p) \in Thing /\ Given(Do(p))
    BY Made DEF Place, InPlayer
  <2>1. ModeType'  BY DEF ModeType
  <2>2. ThreadType'
    <3>1. CASE \E p \in {"idle", "enter"} : Goes(s, Do(p))
      BY <2>0, <3>1, GoesType DEF ThreadType
    <3>2. CASE currentMode \in Showing /\ Goes(s, DoFor(currentMode, "play"))
      BY <3>2, Made, GoesType DEF ThreadType, InPlayer, OnReceiver
    <3>3. CASE /\ UNCHANGED overlapped
               /\ at' = [at EXCEPT ![s] = Do("idle"), !["edt"] = Do("dialog")]
      BY <2>0, <3>3 DEF ThreadType
    <3> QED  BY <3>1, <3>2, <3>3 DEF ModeType, Mode
  <2> QED  BY <2>1, <2>2, Quiet DEF rcvs, server
<1>4. CASE PlaySteps(s)  BY <1>4, PlayType
<1>5. CASE Command(s)
  <2> USE <1>5 DEF Command
  <2>1. ModeOf(s) \in Showing  BY DEF ThreadType, Given, At, ModeOf
  <2>2. /\ Do("idle") \in Thing /\ Given(Do("idle"))
        /\ OnUiStop("idle") \in Thing /\ Given(OnUiStop("idle"))
    BY Made DEF Place, InPlayer, Onward
  <2>3. ThreadType'  BY <2>2, GoesType DEF ThreadType, Unavailable
  <2>4. NetworkType'  BY DEF NetworkType, Unavailable
  <2>5. PictureType'  BY <2>1 DEF PictureType, Picture, rcvs
  <2> QED  BY <2>3, <2>4, <2>5, Quiet DEF rcvs
<1> QED  BY <1>1, <1>2, <1>3, <1>4, <1>5 DEF StartSteps

LEMMA AskedType ==
  ASSUME TypeInv, Asked
  PROVE  Types'
<1> USE DEF TypeInv, Types
<1> "edt" \in Actor /\ "scheduled" \in Actor  BY Constants
<1>0. /\ \A p \in {"idle", "disconnect", "reinit"} : Do(p) \in Thing /\ Given(Do(p))
      /\ \A p \in Onward : OnUiStop(p) \in Thing /\ Given(OnUiStop(p))
  BY Made DEF Place, InPlayer
<1>1. CASE Declined
  <2> USE <1>1 DEF Declined
  <2>1. ThreadType'  BY <1>0, GoesType DEF ThreadType, Onward
  <2> QED  BY <2>1, Quiet DEF rcvs, server
<1>2. CASE Rescan
  <2> USE <1>2 DEF Rescan, Unavailable
  <2>1. ThreadType'  BY <1>0, GoesType DEF ThreadType, Onward
  <2>2. NetworkType'  BY DEF NetworkType
  <2>3. PictureType'  BY DEF PictureType, Picture, rcvs
  <2> QED  BY <2>1, <2>2, <2>3, Quiet DEF rcvs
<1>3. CASE Disconnect
  <2> USE <1>3 DEF Disconnect, Unavailable
  <2>1. ThreadType'  BY <1>0, GoesType DEF ThreadType, Onward
  <2>2. NetworkType'  BY DEF NetworkType
  <2> QED  BY <2>1, <2>2, Quiet DEF rcvs
<1>4. CASE Schedule
  <2> USE <1>4 DEF Schedule
  <2>1. ThreadType'  BY <1>0 DEF ThreadType
  <2> QED  BY <2>1, Quiet DEF rcvs, server
<1> QED  BY <1>1, <1>2, <1>3, <1>4 DEF Asked

LEMMA NetworkStepsType ==
  ASSUME TypeInv, NEW a \in Actor, NetworkSteps(a)
  PROVE  Types'
<1> USE DEF TypeInv, Types
<1>0. /\ \A p \in {"idle", "enter", "connect", "ready", "restore", "settle", "giveUp", "leave"} :
            Do(p) \in Thing /\ Given(Do(p))
      /\ \A p \in Onward : OnUiStop(p) \in Thing /\ Given(OnUiStop(p))
  BY Made DEF Place, InPlayer
<1>1. CASE ReInitialize(a)
  <2> USE <1>1 DEF ReInitialize
  <2>1. ThreadType'  BY <1>0, GoesType DEF ThreadType
  <2>2. NetworkType'  BY DEF NetworkType, ModeType
  <2> QED  BY <2>1, <2>2, Quiet DEF rcvs, server
<1>2. CASE Initialize(a)
  <2> USE <1>2 DEF Initialize, Unavailable
  <2>1. ThreadType'  BY <1>0, GoesType DEF ThreadType, Onward
  <2>2. NetworkType'  BY DEF NetworkType
  <2> QED  BY <2>1, <2>2, Quiet DEF rcvs, server
<1>3. CASE Connected(a)
  <2> USE <1>3 DEF Connected
  <2>0. PICK r \in Receivers : receiver' = r  OBVIOUS
  <2>1. ThreadType'  BY <1>0, GoesType DEF ThreadType
  <2>2. NetworkType'  BY <2>0 DEF NetworkType
  <2>3. RcvType'
    <3>1. receiver \in Receivers /\ NewReceiver \in Fields
      BY DEF NetworkType, NewReceiver, Fields, Picture
    <3>2. Terminated \in [Receivers -> Fields]
      BY <3>1 DEF RcvType, Terminated, Fields
    <3> QED  BY <2>0, <3>1, <3>2 DEF RcvType, Watch
  <2>4. QueueType'  BY <2>0, EmptiedType
  <2>5. PictureType'  BY <2>0 DEF PictureType, Picture, OfThread
  <2> QED  BY <2>1, <2>2, <2>3, <2>4, <2>5, Quiet
<1>4. CASE Refusal(a)
  <2> USE <1>4 DEF Refusal, Unavailable
  <2>1. ThreadType'  BY <1>0, GoesType DEF ThreadType, Onward
  <2>2. NetworkType'  BY DEF NetworkType
  <2>3. RcvType'  BY DEF RcvType, Terminated, Fields, NetworkType
  <2> QED  BY <2>1, <2>2, <2>3, Quiet DEF server
<1>5. CASE GiveUp(a)
  <2> USE <1>5 DEF GiveUp, Unavailable
  <2>1. ThreadType'  BY <1>0, GoesType DEF ThreadType, Onward
  <2>2. NetworkType'  BY DEF NetworkType
  <2> QED  BY <2>1, <2>2, Quiet DEF rcvs, server
<1>6. CASE ServiceReady(a)
  <2> USE <1>6 DEF ServiceReady
  <2>1. ThreadType'  BY <1>0, GoesType DEF ThreadType
  <2>2. NetworkType'  BY DEF NetworkType
  <2> QED  BY <2>1, <2>2, Quiet DEF rcvs, server
<1>7. CASE Restore(a)
  <2> USE <1>7 DEF Restore
  <2>1. NetworkType'  BY DEF NetworkType
  <2>2. ThreadType'
    <3>1. CASE Goes(a, Do("settle"))  BY <1>0, <3>1, GoesType DEF ThreadType
    <3>2. CASE /\ lastMode \in NeedsRestore /\ UNCHANGED overlapped
               /\ at' = [at EXCEPT ![a] = Do("settle"), ![Thread] = DoFor(lastMode, "stopOld")]
      <4>1. DoFor(lastMode, "stopOld") \in Thing /\ Given(DoFor(lastMode, "stopOld"))
        BY <3>2, Made DEF NeedsRestore, Mode, Showing
      <4> QED  BY <1>0, <3>2, <4>1 DEF ThreadType
    <3> QED  BY <3>1, <3>2
  <2> QED  BY <2>1, <2>2, Quiet DEF rcvs, server
<1>8. CASE Again(a)
  <2> USE <1>8 DEF Again
  <2>1. ThreadType'  BY <1>0, GoesType DEF ThreadType
  <2> QED  BY <2>1, Quiet DEF rcvs, server
<1>9. CASE Leave(a)
  <2> USE <1>9 DEF Leave
  <2>1. ThreadType'  BY <1>0, GoesType
  <2> QED  BY <2>1, Quiet DEF rcvs, server
<1> QED  BY <1>1, <1>2, <1>3, <1>4, <1>5, <1>6, <1>7, <1>8, <1>9 DEF NetworkSteps

LEMMA ReceiveType ==
  ASSUME TypeInv, NEW r \in Receivers, Receive(r)
  PROVE  Types'
<1> USE DEF TypeInv, Types
<1>0. RestOfReceiver' = RestOfReceiver => ModeType' /\ ThreadType' /\ NetworkType' /\ QueueType'
  BY Quiet DEF RestOfReceiver, threads
<1>1. CASE Enter(r)
  <2> USE <1>1 DEF Enter, Moves
  <2>1. RcvType'  BY DEF RcvType, Fields, RestOfReceiver
  <2>2. PictureType'  BY DEF PictureType, OfThread, RestOfReceiver
  <2> QED  BY <1>0, <2>1, <2>2, Quiet
<1>2. CASE Loops(r) \/ Ends(r) \/ Reads(r)
  <2> USE <1>2 DEF Loops, Ends, Reads, Moves
  <2>1. PictureType'  BY DEF PictureType, OfThread, RestOfReceiver
  <2>2. UNCHANGED <<player, rcv, future>>  BY DEF RestOfReceiver
  <2> QED  BY <1>0, <2>1, <2>2, Quiet
<1>3. CASE Arms(r) \/ ReadsNothing(r)
  <2> USE <1>3 DEF Arms, ReadsNothing, Moves
  <2>1. PictureType'  BY DEF PictureType, OfThread, server
  <2>2. RcvType'  BY DEF RcvType, Watch
  <2> QED  BY <2>1, <2>2, Quiet DEF threads
<1>4. CASE Fails(r) \/ Failed(r)
  <2> USE <1>4 DEF Fails, Failed, Moves
  <2>1. PictureType'  BY DEF PictureType, OfThread, RestOfReceiver
  <2>2. PlayerType'  BY DEF PlayerType, chosen
  <2>3. UNCHANGED <<rcv, future>>  BY DEF RestOfReceiver
  <2> QED  BY <1>0, <2>1, <2>2, <2>3, Quiet
<1>5. CASE Checks(r)
  <2> USE <1>5 DEF Checks, Moves
  <2>1. PictureType'  BY DEF PictureType, OfThread, RestOfReceiver, Picture
  <2>2. UNCHANGED <<player, rcv, future>>  BY DEF RestOfReceiver
  <2> QED  BY <1>0, <2>1, <2>2, Quiet
<1>6. CASE Adds(r)
  <2> USE <1>6 DEF Adds, Moves
  <2>1. PictureType'  BY DEF PictureType, OfThread, server, Picture
  <2>2. QueueType'
    <3>1. hand[r] \in Showing /\ queue[r] \in Seq(Showing)
      BY DEF PictureType, QueueType, Picture
    <3> QED  BY <3>1, Constants DEF QueueType
  <2> QED  BY <2>1, <2>2, Quiet DEF threads
<1>7. CASE ShowsDirectly(r)
  <2> USE <1>7 DEF ShowsDirectly, Moves
  <2>1. PictureType'  BY DEF PictureType, OfThread, server
  <2>2. playing \in Receivers  BY DEF Unplayed, PlayerType
  <2>3. QueueType'  BY <2>2, ShownType DEF Shown, QueueType
  <2> QED  BY <2>1, <2>3, Quiet DEF threads
<1> QED  BY <1>1, <1>2, <1>3, <1>4, <1>5, <1>6, <1>7 DEF Receive

LEMMA OtherType ==
  ASSUME TypeInv, \/ \E r \in Receivers : Fires(r)
                  \/ Shows \/ Exhausted \/ Boots \/ \E broken \in {"ended", "silent"} : Lost(broken)
  PROVE  Types'
<1> USE DEF TypeInv, Types
<1>1. ASSUME NEW r \in Receivers, Fires(r) PROVE Types'
  <2> USE <1>1 DEF Fires
  <2>1. Do("reinit") \in Thing /\ Given(Do("reinit"))  BY Made DEF Place, InPlayer
  <2>2. ThreadType'  BY <2>1, GoesType, Constants DEF ThreadType
  <2>3. RcvType'  BY DEF RcvType, Watch
  <2> QED  BY <2>2, <2>3, Quiet DEF server
<1>2. CASE Shows
  <2> USE <1>2 DEF Shows
  <2>1. OnUiStop("idle") \in Thing /\ Given(OnUiStop("idle"))  BY Made DEF Onward
  <2>2. ThreadType'  BY <2>1, GoesType, Quiet, Constants DEF ThreadType, threads
  <2>3. playing \in Receivers  BY DEF Unplayed, PlayerType
  <2>4. QueueType'  BY <2>3, ShownType DEF Shown
  <2> QED  BY <2>2, <2>4, Quiet DEF server
<1>3. CASE Exhausted \/ Boots \/ \E broken \in {"ended", "silent"} : Lost(broken)
  <2>1. /\ UNCHANGED RestOfServer /\ serving' \in Picture
    BY <1>3 DEF Exhausted, Boots, Lost, PictureType, Picture, RestOfServer
  <2>2. PictureType'  BY <2>1 DEF PictureType, RestOfServer, rcvs
  <2> QED  BY <2>1, <2>2, Quiet DEF RestOfServer, rcvs, threads
<1> QED  BY <1>1, <1>2, <1>3

(***************************************************************************)
(* Nothing plays before the player has a receiver                          *)
(***************************************************************************)
Plays(place) == place \in InPlayer \ {"play"}
Same ==
  /\ playing' = playing /\ crossed' = crossed
  /\ receiver' = receiver \/ rcv'[receiver'].interest = NoType
  /\ \A r \in Receivers : rcv'[r].interest \in {NoType, rcv[r].interest}
StillUnplayed ==
  /\ Same /\ (task' => task) /\ (started' => started) /\ (orphan' => orphan)
  /\ \A r \in Receivers : thread'[r] \in {"add", "direct"} => thread[r] \in {"add", "direct"}

\* What every step does that is not one of playImages and startReceive.
Still == Same /\ \A a \in Actor : Plays(at'[a].place) => at'[a] = at[a]

LEMMA UnplayedKept ==
  ASSUME Unplayed, StillUnplayed, \A a \in Actor : Plays(at'[a].place) => at'[a] = at[a]
  PROVE  Unplayed' /\ Still
BY DEF Unplayed, StillUnplayed, Same, Still, Plays

LEMMA UnplayedGoes ==
  ASSUME TypeInv, StillUnplayed, NEW a \in Actor, NEW thing, Goes(a, thing), ~Plays(thing.place)
  PROVE  Unplayed' /\ Still
<1>1. \A b \in Actor : Plays(at'[b].place) => at'[b] = at[b]
  BY DEF Goes, TypeInv, Types, ThreadType
<1> QED  BY <1>1, UnplayedKept DEF TypeInv

LEMMA UnplayedStill ==
  UNCHANGED <<receiver, player, rcvs>> => StillUnplayed
BY DEF StillUnplayed, Same, player, chosen, rcvs

\* The places that a thing made by Do, DoFor or OnUiStop is at.
LEMMA Places ==
  /\ \A p : Do(p).place = p /\ OnUiStop(p).place = "stop"
  /\ \A m, p : DoFor(m, p).place = p
BY DEF Do, DoFor, OnUiStop

LEMMA StopUnplayed ==
  ASSUME TypeInv, NEW a \in Actor, Stop(a) \/ Halt(a) \/ Clear(a)
  PROVE  Unplayed' /\ Still
<1> USE DEF Plays, InPlayer
<1>1. CASE Stop(a)
  <2>1. StillUnplayed
    BY <1>1 DEF Stop, ModeStop, PlayerStop, StillUnplayed, Same, network, player, chosen, rcvs
  <2>2. [at[a] EXCEPT !.place = Onwards(currentMode, "clear")].place \in {"halt", "clear"}
    BY DEF TypeInv, Types, ThreadType, Thing, Onwards
  <2> QED  BY <1>1, <2>1, <2>2, UnplayedGoes DEF Stop
<1>2. CASE Halt(a)
  <2>0. \A r \in Receivers : rcv'[r].interest \in {NoType, rcv[r].interest}
    <3>1. CASE StopSelf(playing)  BY <3>1 DEF StopSelf, TypeInv, Types, RcvType, Fields
    <3>2. CASE UNCHANGED rcv  BY <3>2
    <3> QED  BY <1>2, <3>1, <3>2 DEF Halt
  <2>1. StillUnplayed  BY <1>2, <2>0 DEF Halt, StillUnplayed, Same, network, chosen
  <2>2. \A p \in {"clear", "set"} : [at[a] EXCEPT !.place = p].place = p
    BY DEF TypeInv, Types, ThreadType, Thing
  <2> QED  BY <1>2, <2>1, <2>2, UnplayedGoes DEF Halt
<1>3. CASE Clear(a)
  <2>1. StillUnplayed  BY <1>3, UnplayedStill DEF Clear, network
  <2>2. at[a].then \in Onward  BY DEF TypeInv, Types, ThreadType, Thing
  <2> QED  BY <1>3, <2>1, <2>2, Places, UnplayedGoes DEF Clear, Onward
<1> QED  BY <1>1, <1>2, <1>3

LEMMA StartUnplayed ==
  ASSUME TypeInv, NEW s \in Starters, StartSteps(s)
  PROVE  Unplayed' /\ (PlaySteps(s) \/ Still)
<1> USE DEF Plays, InPlayer
<1> s \in Actor  BY Constants
<1>1. CASE StopOld(s)
  <2>1. StillUnplayed
    BY <1>1 DEF StopOld, ModeStop, PlayerStop, StillUnplayed, Same, network, player, chosen, rcvs
  <2> QED  BY <1>1, <2>1, Places, UnplayedGoes DEF StopOld, Onwards
<1>2. CASE SetMode(s)
  BY <1>2, Places, UnplayedGoes, UnplayedStill DEF SetMode, network
<1>3. CASE Start(s)
  <2>1. StillUnplayed  BY <1>3, UnplayedStill DEF Start, network
  <2>2. CASE /\ UNCHANGED overlapped
             /\ at' = [at EXCEPT ![s] = Do("idle"), !["edt"] = Do("dialog")]
    <3>1. \A a \in Actor : Plays(at'[a].place) => at'[a] = at[a]
      BY <2>2, Places DEF TypeInv, Types, ThreadType
    <3> QED  BY <2>1, <3>1, UnplayedKept DEF TypeInv
  <2>3. CASE \E p \in {"idle", "enter"} : Goes(s, Do(p))
    BY <2>1, <2>3, Places, UnplayedGoes
  <2>4. CASE Goes(s, DoFor(currentMode, "play"))
    BY <2>1, <2>4, Places, UnplayedGoes
  <2> QED  BY <1>3, <2>2, <2>3, <2>4 DEF Start, TypeInv, Types, ModeType, Mode
<1>4. CASE PlaySteps(s)
  <2>1. playing' # None
    BY <1>4, Constants
       DEF PlaySteps, Play, Reset, Wants, Spawns, Begins, Monitors, StartReceiving, Running,
           Unplayed, TypeInv, Types, NetworkType, At, player, chosen
  <2> QED  BY <1>4, <2>1 DEF Unplayed
<1>5. CASE Command(s)
  BY <1>5, Places, UnplayedGoes, UnplayedStill DEF Command, Unavailable, network
<1> QED  BY <1>1, <1>2, <1>3, <1>4, <1>5 DEF StartSteps

LEMMA NetworkUnplayed ==
  ASSUME TypeInv, NEW a \in Actor, NetworkSteps(a)
  PROVE  Unplayed' /\ Still
<1> USE DEF Plays, InPlayer
<1>1. StillUnplayed
  <2>1. CASE Connected(a)
    <3>1. PICK q \in Receivers : receiver' = q  BY <2>1 DEF Connected
    <3>2. \A r \in Receivers : rcv'[r].interest \in {NoType, rcv[r].interest}
      BY <2>1, <3>1 DEF Connected, Terminated, NewReceiver, TypeInv, Types, RcvType, Fields
    <3>3. \A r \in Receivers : thread'[r] \in {"add", "direct"} => thread[r] \in {"add", "direct"}
      BY <2>1, <3>1 DEF Connected, TypeInv, Types, PictureType
    <3> QED
      BY <2>1, <3>2, <3>3 DEF Connected, Terminated, NewReceiver, StillUnplayed, Same, player,
                              chosen, TypeInv, Types, RcvType
  <2>2. CASE Refusal(a)
    BY <2>2 DEF Refusal, Terminated, StillUnplayed, Same, TypeInv, Types, RcvType, Fields,
                player, chosen
  <2> QED
    BY <2>1, <2>2, UnplayedStill
       DEF NetworkSteps, ReInitialize, Initialize, GiveUp, ServiceReady, Restore, Again, Leave,
           network
<1>2. CASE Restore(a) /\ lastMode \in NeedsRestore /\ isReady
  <2>1. at' = [at EXCEPT ![a] = Do("settle"), ![Thread] = DoFor(lastMode, "stopOld")]
    BY <1>2 DEF Restore
  <2>2. \A b \in Actor : Plays(at'[b].place) => at'[b] = at[b]
    BY <2>1, Places DEF TypeInv, Types, ThreadType
  <2> QED  BY <1>1, <2>2, UnplayedKept DEF TypeInv
<1>3. CASE \E thing : Goes(a, thing) /\ ~Plays(thing.place)
  BY <1>1, <1>3, UnplayedGoes
<1>4. \A p : OnUiStop(p).place = "stop"  BY Places
<1>5. \A p \in {"enter", "connect", "ready", "restore", "settle", "giveUp", "leave", "idle"} :
         ~Plays(Do(p).place)
  BY Places
<1> QED
  BY <1>2, <1>3, <1>4, <1>5
     DEF NetworkSteps, ReInitialize, Initialize, Connected, Refusal, GiveUp, ServiceReady, Restore,
         Again, Leave, Unavailable

LEMMA AskedUnplayed ==
  ASSUME TypeInv, Asked
  PROVE  Unplayed' /\ Still
<1> USE DEF Plays, InPlayer
<1>1. StillUnplayed
  BY UnplayedStill DEF Asked, Declined, Rescan, Disconnect, Schedule, network
<1>2. CASE \E thing : Goes("edt", thing) /\ ~Plays(thing.place)
  BY <1>1, <1>2, UnplayedGoes, Constants
<1>3. CASE Schedule
  <2>1. \A b \in Actor : Plays(at'[b].place) => at'[b] = at[b]
    BY <1>3, Places DEF Schedule, TypeInv, Types, ThreadType
  <2> QED  BY <1>1, <2>1, UnplayedKept DEF TypeInv
<1>4. \A p : OnUiStop(p).place = "stop"  BY Places
<1>5. ~Plays(Do("disconnect").place) /\ ~Plays(Do("idle").place)  BY Places
<1> QED  BY <1>2, <1>3, <1>4, <1>5 DEF Asked, Declined, Rescan, Disconnect, Unavailable

\* A picture that is added has been checked, against an interest somebody has.
LEMMA ReceiveUnplayed ==
  ASSUME TypeInv, NEW r \in Receivers, Receive(r)
  PROVE  Unplayed' /\ Still
<1>1. /\ UNCHANGED <<at, receiver, playing, crossed, orphan>>
      /\ (task' => task) /\ (started' => started)
  BY DEF Receive, Enter, Loops, Ends, Reads, Arms, ReadsNothing, Fails, Failed, Checks, Adds,
         ShowsDirectly, RestOfReceiver, threads, network, player, chosen
<1>2. \A q \in Receivers : rcv'[q].interest = rcv[q].interest
  <2>1. CASE Enter(r)  BY <2>1 DEF Enter, TypeInv, Types, RcvType, Fields
  <2> QED
    BY <2>1 DEF Receive, Loops, Ends, Reads, Arms, ReadsNothing, Fails, Failed, Checks, Adds,
                ShowsDirectly, RestOfReceiver
<1>3. Still  BY <1>1, <1>2 DEF Still, Same
<1>4. ASSUME playing = None PROVE Unplayed'
  <2>1. \A q \in Receivers : q # r => thread'[q] = thread[q]
    BY DEF Receive, Enter, Loops, Ends, Reads, Arms, ReadsNothing, Fails, Failed, Checks, Adds,
           ShowsDirectly, Moves, TypeInv, Types, PictureType
  <2>2. rcv[r].interest = NoType /\ thread[r] \notin {"add", "direct"}
    BY <1>4 DEF TypeInv, Unplayed
  <2>3. thread'[r] \notin {"add", "direct"}
    BY <2>2 DEF Receive, Enter, Loops, Ends, Reads, Arms, ReadsNothing, Fails, Failed, Checks, Adds,
                ShowsDirectly, Moves, TypeInv, Types, PictureType
  <2> QED  BY <1>1, <1>2, <1>4, <2>1, <2>2, <2>3 DEF TypeInv, Unplayed
<1> QED  BY <1>1, <1>3, <1>4 DEF Unplayed

LEMMA OtherUnplayed ==
  ASSUME TypeInv, \/ \E r \in Receivers : Fires(r)
                  \/ Shows \/ Exhausted \/ Boots \/ \E broken \in {"ended", "silent"} : Lost(broken)
                  \/ \E m \in Mode : Click(m)
                  \/ UNCHANGED vars
  PROVE  Unplayed' /\ Still
<1> USE DEF Plays, InPlayer
<1>1. StillUnplayed
  <2>1. CASE (\E r \in Receivers : Fires(r)) \/ Shows
    BY <2>1 DEF Fires, Shows, StillUnplayed, Same, network, player, chosen
  <2> QED
    BY <2>1, UnplayedStill DEF Exhausted, Boots, Lost, Click, vars, RestOfServer, network
<1>2. CASE \E a \in Actor : \E thing : Goes(a, thing) /\ ~Plays(thing.place)
  BY <1>1, <1>2, UnplayedGoes
<1>3. CASE UNCHANGED at  BY <1>1, <1>3, UnplayedKept DEF TypeInv
<1>4. /\ ~Plays(Do("reinit").place) /\ ~Plays(OnUiStop("idle").place)
      /\ \A m : ~Plays(DoFor(m, "stopOld").place)
  BY Places
<1> QED
  BY <1>2, <1>3, <1>4, Constants, AThread
     DEF Fires, Shows, Exhausted, Boots, Lost, Click, RestOfServer, vars, threads

(***************************************************************************)
(* The type invariant is one                                               *)
(***************************************************************************)
LEMMA InitType == Init => TypeInv
<1> SUFFICES ASSUME Init PROVE TypeInv  OBVIOUS
<1> USE DEF Init
<1>1. receiver \in Receivers  BY ClientAssumption
<1>2. Do("idle") \in Thing /\ Given(Do("idle")) /\ Do("idle").place = "idle"
  BY Made DEF Place, InPlayer
<1>3. ModeType  BY DEF ModeType
<1>4. ThreadType  BY <1>2 DEF ThreadType
<1>5. NetworkType  BY <1>1 DEF NetworkType
<1>6. PlayerType  BY DEF PlayerType
<1>7. RcvType  BY DEF RcvType, Fields, NewReceiver, Picture, Watch
<1>8. QueueType  BY Constants DEF QueueType
<1>9. PictureType  BY DEF PictureType, Picture, OfThread
<1>10. Unplayed  BY <1>2 DEF Unplayed, NewReceiver, InPlayer
<1> QED
  BY <1>3, <1>4, <1>5, <1>6, <1>7, <1>8, <1>9, <1>10 DEF TypeInv, Types

LEMMA NextType ==
  ASSUME TypeInv, [Next]_vars
  PROVE  TypeInv'
<1>1. ASSUME NEW a \in Actor, Steps(a) PROVE Types'
  BY <1>1, StopType, NetworkStepsType, StartType, AskedType DEF Steps
<1>2. CASE UNCHANGED vars
  <2>1. Types'  BY <1>2, Quiet DEF vars, TypeInv, Types, threads, rcvs, server
  <2> QED  BY <1>2, <2>1, OtherUnplayed DEF TypeInv
<1>3. ASSUME NEW a \in Actor, Steps(a) PROVE Unplayed'
  BY <1>3, StopUnplayed, NetworkUnplayed, StartUnplayed, AskedUnplayed DEF Steps
<1>4. CASE \E a \in Actor : Steps(a)  BY <1>1, <1>3, <1>4 DEF TypeInv
<1>5. CASE \E r \in Receivers : Receive(r)  BY <1>5, ReceiveType, ReceiveUnplayed DEF TypeInv
<1>6. CASE \E m \in Mode : Click(m)  BY <1>6, ClickType, OtherUnplayed DEF TypeInv
<1>7. CASE \/ \E r \in Receivers : Fires(r)
           \/ Shows \/ Exhausted \/ Boots \/ \E broken \in {"ended", "silent"} : Lost(broken)
  BY <1>7, OtherType, OtherUnplayed DEF TypeInv
<1> QED  BY <1>2, <1>4, <1>5, <1>6, <1>7 DEF Next

LEMMA TypesAlways == Spec => []TypeInv
BY InitType, NextType, PTL DEF Spec

\* The fields have their types, a queue never outgrows its bound, a thread that
\* adds a picture has one, and nothing plays or is shown without a receiver.
\* (ModeManager, NetworkManager, Player.playImages, Receiver)
THEOREM TypeCorrect == Spec => []TypeOK
<1>1. TypeInv => TypeOK
  BY DEF TypeInv, Types, Unplayed, TypeOK, ModeType, ThreadType, NetworkType, PlayerType, RcvType,
         QueueType, PictureType, Thing, Fields, Picture, Watch, OfThread, Onward, Place, InPlayer
<1> QED  BY <1>1, TypesAlways, PTL

(***************************************************************************)
(* OneModeRuns: as long as no two threads have been amid a start or a      *)
(* stop, who is amid one knows what runs                                   *)
(***************************************************************************)
Alone == \A a, b \in Actor : Amid(at[a]) /\ Amid(at[b]) => a = b
OnlyCurrent ==
  /\ running \subseteq {currentMode}
  /\ task => currentMode \in Showing /\ rcv[playing].interest = currentMode
Standing(a) ==
  /\ at[a].place \in {"halt", "set", "start", "clear"} => running = {} /\ ~task
  /\ at[a].place \in InPlayer \ {"running"} => currentMode = at[a].mode /\ ~task
  /\ at[a].place \in OnReceiver \cup {"task"} => rcv[playing].interest = at[a].mode
  /\ at[a].place \in OnReceiver => at[a].on = playing
Settled == ~overlapped => Alone /\ OnlyCurrent /\ \A a \in Actor : Standing(a)

\* Nothing is started, and nothing shown that was not.
Calm ==
  /\ currentMode' = currentMode /\ running' \subseteq running
  /\ playing' = playing /\ (task' => task)
  /\ playing \in Receivers => rcv'[playing].interest = rcv[playing].interest

LEMMA CalmSettled ==
  ASSUME TypeInv, Settled, Calm, overlapped => overlapped',
         \A a \in Actor : Amid(at'[a]) => at'[a] = at[a]
  PROVE  Settled'
<1> SUFFICES ASSUME ~overlapped' PROVE (Alone /\ OnlyCurrent)' /\ \A a \in Actor : Standing(a)'
  BY DEF Settled
<1> USE DEF Settled
<1>1. Alone'  BY DEF Alone
<1>2. OnlyCurrent'  BY DEF OnlyCurrent, Calm, TypeInv, Types, Unplayed, PlayerType
<1>3. ASSUME NEW a \in Actor PROVE Standing(a)'
  <2>1. CASE ~Amid(at'[a])  BY <2>1 DEF Standing, Amid, InPlayer, OnReceiver
  <2>2. CASE at'[a] = at[a]
    BY <2>2 DEF Standing, Calm, TypeInv, Types, Unplayed, PlayerType, At, InPlayer, OnReceiver
  <2> QED  BY <2>1, <2>2
<1> QED  BY <1>1, <1>2, <1>3

LEMMA CalmGoes ==
  ASSUME TypeInv, Settled, Calm, NEW a \in Actor, NEW thing, Goes(a, thing), ~Amid(thing)
  PROVE  Settled'
<1>1. \A b \in Actor : Amid(at'[b]) => at'[b] = at[b]
  BY DEF TypeInv, Types, ThreadType, Goes
<1> QED  BY <1>1, CalmSettled DEF Goes

\* An actor that is amid a start or a stop, before or after its step, is alone.
LEMMA GoesAlone ==
  ASSUME TypeInv, Settled, NEW a \in Actor, NEW thing, Goes(a, thing),
         Amid(at[a]) \/ Amid(thing), ~overlapped'
  PROVE  /\ ~overlapped /\ OnlyCurrent /\ Standing(a) /\ at'[a] = thing
         /\ \A b \in Actor \ {a} : ~Amid(at[b]) /\ ~Amid(at'[b])
BY DEF Settled, Goes, TypeInv, Types, ThreadType, Alone

LEMMA AloneSettled ==
  ASSUME NEW a \in Actor, OnlyCurrent', Standing(a)', \A b \in Actor \ {a} : ~Amid(at'[b])
  PROVE  Settled'
<1>1. Alone'  BY DEF Alone
<1>2. ASSUME NEW b \in Actor PROVE Standing(b)'
  BY DEF Standing, Amid, InPlayer, OnReceiver
<1> QED  BY <1>1, <1>2 DEF Settled

\* Stopping the current mode leaves none running.
LEMMA NothingRuns ==
  ASSUME TypeInv, OnlyCurrent, UNCHANGED <<currentMode, rcv>>,
         IF currentMode # None THEN ModeStop(currentMode) ELSE UNCHANGED <<running, player>>
  PROVE  running' = {} /\ ~task' /\ OnlyCurrent'
<1>1. CASE currentMode = None
  <2>1. running = {}  BY <1>1, Constants DEF OnlyCurrent, TypeInv, Types, ModeType
  <2>2. ~task  BY <1>1, Constants DEF OnlyCurrent, Mode
  <2> QED  BY <1>1, <2>1, <2>2 DEF OnlyCurrent, player
<1>2. CASE currentMode # None
  <2>1. running' = {}  BY <1>2 DEF OnlyCurrent, ModeStop
  <2>2. ~task'  BY <1>2 DEF OnlyCurrent, ModeStop, PlayerStop, player
  <2> QED  BY <2>1, <2>2 DEF OnlyCurrent
<1> QED  BY <1>1, <1>2

\* With nothing running an actor may be anywhere but in the player.
LEMMA NothingSettled ==
  ASSUME NEW a \in Actor, running' = {}, ~task', at'[a].place \notin InPlayer,
         \A b \in Actor \ {a} : ~Amid(at'[b])
  PROVE  Settled'
<1>1. OnlyCurrent' /\ Standing(a)'  BY DEF OnlyCurrent, Standing, InPlayer, OnReceiver
<1> QED  BY <1>1, AloneSettled

LEMMA StopSettled ==
  ASSUME TypeInv, Settled, NEW a \in Actor, Stop(a) \/ Halt(a) \/ Clear(a)
  PROVE  Settled'
<1> SUFFICES ASSUME ~overlapped' PROVE Settled'  BY DEF Settled
<1>1. CASE Stop(a)
  <2> DEFINE thing == [at[a] EXCEPT !.place = Onwards(currentMode, "clear")]
  <2>1. Goes(a, thing) /\ thing.place \in {"halt", "clear"}
    BY <1>1 DEF Stop, TypeInv, Types, ThreadType, Thing, Onwards
  <2> HIDE DEF thing
  <2>2. OnlyCurrent /\ at'[a] = thing /\ \A b \in Actor \ {a} : ~Amid(at'[b])
    BY <2>1, GoesAlone DEF Amid
  <2>3. running' = {} /\ ~task'  BY <1>1, <2>2, NothingRuns DEF Stop, rcvs
  <2> QED  BY <2>1, <2>2, <2>3, NothingSettled DEF InPlayer
<1>2. CASE Halt(a)
  <2> DEFINE thing == [at[a] EXCEPT !.place = IF ModeOf(a) = None THEN "clear" ELSE "set"]
  <2>1. Goes(a, thing) /\ thing.place \in {"set", "clear"} /\ at[a].place = "halt"
    BY <1>2 DEF Halt, TypeInv, Types, ThreadType, Thing, At
  <2> HIDE DEF thing
  <2>2. Standing(a) /\ at'[a] = thing /\ \A b \in Actor \ {a} : ~Amid(at'[b])
    BY <2>1, GoesAlone DEF Amid
  <2>3. running' = {} /\ ~task'  BY <1>2, <2>1, <2>2 DEF Halt, Standing
  <2> QED  BY <2>1, <2>2, <2>3, NothingSettled DEF InPlayer
<1>3. CASE Clear(a)
  <2>1. Goes(a, Do(at[a].then)) /\ Amid(at[a]) /\ at[a].place = "clear"
    BY <1>3 DEF Clear, At, Amid
  <2>2. Standing(a) /\ at'[a] = Do(at[a].then) /\ \A b \in Actor \ {a} : ~Amid(at'[b])
    BY <2>1, GoesAlone
  <2>3. running' = {} /\ ~task'  BY <1>3, <2>1, <2>2 DEF Clear, Standing, player
  <2>4. Do(at[a].then).place \in Onward  BY DEF TypeInv, Types, ThreadType, Thing, Do
  <2> QED  BY <2>2, <2>3, <2>4, NothingSettled DEF InPlayer, Onward
<1> QED  BY <1>1, <1>2, <1>3

\* In the player the mode stays current, and nothing is shown yet.
LEMMA PlaySettled ==
  ASSUME TypeInv, Settled, NEW s \in Starters, PlaySteps(s), ~overlapped'
  PROVE  Settled'
<1> s \in Actor  BY Constants
<1> USE DEF InPlayer, OnReceiver
<1>0. at[s].place \in InPlayer /\ Amid(at[s]) /\ UNCHANGED <<currentMode, running>>
  BY DEF PlaySteps, Play, Reset, Wants, Spawns, Begins, Monitors, StartReceiving, Running, At, Amid,
         modes
<1>1. ASSUME NEW thing, Goes(s, thing)
      PROVE  /\ OnlyCurrent /\ Standing(s) /\ at'[s] = thing
             /\ \A b \in Actor \ {s} : ~Amid(at'[b])
  BY <1>0, <1>1, GoesAlone
<1>2. CASE Play(s)
  <2>1. UNCHANGED <<task, rcv>> /\ at[s].place = "play"  BY <1>2 DEF Play, rcvs, At
  <2>2. \E p \in {"command", "reset"} : Goes(s, DoFor(ModeOf(s), p))  BY <1>2 DEF Play
  <2>3. OnlyCurrent' /\ Standing(s)'
    BY <1>0, <1>1, <2>1, <2>2 DEF OnlyCurrent, Standing, DoFor, Do, ModeOf
  <2> QED  BY <1>1, <2>2, <2>3, AloneSettled
<1>3. CASE Reset(s)
  <2>1. UNCHANGED task /\ at[s].place = "reset" /\ Goes(s, DoFor(ModeOf(s), "want"))
    BY <1>3 DEF Reset, At
  <2>2. OnlyCurrent' /\ Standing(s)'
    BY <1>0, <1>1, <2>1 DEF OnlyCurrent, Standing, DoFor, Do, ModeOf
  <2> QED  BY <1>1, <2>1, <2>2, AloneSettled
<1>4. CASE Wants(s)
  <2> DEFINE thing == [DoFor(ModeOf(s), "spawn") EXCEPT !.on = playing]
  <2>1. UNCHANGED <<task, playing>> /\ at[s].place = "want" /\ Goes(s, thing)
    BY <1>4 DEF Wants, At, player, chosen
  <2>2. thing.place = "spawn" /\ thing.mode = at[s].mode /\ thing.on = playing
    BY DEF DoFor, Do, ModeOf
  <2>3. playing \in Receivers  BY <2>1 DEF TypeInv, Types, Unplayed, PlayerType
  <2>4. rcv'[playing].interest = at[s].mode
    BY <1>4, <2>3 DEF Wants, TypeInv, Types, RcvType, Fields, ModeOf
  <2> HIDE DEF thing
  <2>5. OnlyCurrent' /\ Standing(s)'
    BY <1>0, <1>1, <2>1, <2>2, <2>4 DEF OnlyCurrent, Standing
  <2> QED  BY <1>1, <2>1, <2>5, AloneSettled
<1>5. CASE Spawns(s)
  <2>1. UNCHANGED <<task, playing, rcv>> /\ at[s].place = "spawn"
    BY <1>5 DEF Spawns, At, player, chosen
  <2>2. CASE Goes(s, Do("idle"))
    <3>1. OnlyCurrent' /\ Standing(s)'
      BY <1>0, <1>1, <2>1, <2>2 DEF OnlyCurrent, Standing, Do
    <3> QED  BY <1>1, <2>2, <3>1, AloneSettled
  <2>3. ASSUME NEW p \in {"monitor", "begin"}, Goes(s, [at[s] EXCEPT !.place = p])
        PROVE  Settled'
    <3> DEFINE thing == [at[s] EXCEPT !.place = p]
    <3>1. thing.place = p /\ thing.mode = at[s].mode /\ thing.on = at[s].on
      BY DEF TypeInv, Types, ThreadType, Thing
    <3>2. Goes(s, thing)  BY <2>3
    <3> HIDE DEF thing
    <3>3. OnlyCurrent' /\ Standing(s)'
      BY <1>0, <1>1, <2>1, <3>1, <3>2 DEF OnlyCurrent, Standing
    <3> QED  BY <1>1, <3>2, <3>3, AloneSettled
  <2> QED  BY <1>5, <2>2, <2>3 DEF Spawns
<1>6. CASE Begins(s) \/ Monitors(s)
  <2>1. UNCHANGED <<task, playing>> /\ at[s].place \in {"begin", "monitor"}
    BY <1>6 DEF Begins, Monitors, At, player, chosen
  <2>2. at[s].on \in Receivers  BY <2>1 DEF TypeInv, Types, ThreadType, Given
  <2>3. \A r \in Receivers : rcv'[r].interest = rcv[r].interest
    <3>1. CASE Begins(s)  BY <2>2, <3>1 DEF Begins, TypeInv, Types, RcvType, Fields
    <3>2. CASE Monitors(s)  BY <2>2, <3>2 DEF Monitors, TypeInv, Types, RcvType, Fields
    <3> QED  BY <1>6, <3>1, <3>2
  <2>4. playing \in Receivers  BY <2>1 DEF TypeInv, Types, Unplayed, PlayerType
  <2>5. ASSUME NEW thing, Goes(s, thing), thing.place \in {"monitor", "task"},
               thing.mode = at[s].mode, thing.place = "monitor" => thing.on = at[s].on
        PROVE  Settled'
    <3>1. OnlyCurrent' /\ Standing(s)'
      BY <1>0, <1>1, <2>1, <2>3, <2>4, <2>5 DEF OnlyCurrent, Standing
    <3> QED  BY <1>1, <2>5, <3>1, AloneSettled
  <2>6. CASE Begins(s)
    <3> DEFINE thing == [at[s] EXCEPT !.place = "monitor"]
    <3>1. thing.place = "monitor" /\ thing.mode = at[s].mode /\ thing.on = at[s].on
      BY DEF TypeInv, Types, ThreadType, Thing
    <3>2. Goes(s, thing)  BY <2>6 DEF Begins
    <3> HIDE DEF thing
    <3> QED  BY <2>5, <3>1, <3>2
  <2>7. CASE Monitors(s)
    <3>1. Goes(s, DoFor(ModeOf(s), "task"))  BY <2>7 DEF Monitors
    <3>2. DoFor(ModeOf(s), "task").place = "task" /\ DoFor(ModeOf(s), "task").mode = at[s].mode
      BY DEF DoFor, Do, ModeOf
    <3> QED  BY <2>5, <3>1, <3>2
  <2> QED  BY <1>6, <2>6, <2>7
<1>7. CASE StartReceiving(s)
  <2>1. /\ UNCHANGED <<playing, rcv>> /\ at[s].place = "task"
        /\ Goes(s, DoFor(ModeOf(s), "running"))
    BY <1>7 DEF StartReceiving, At, chosen, rcvs
  <2>2. at[s].mode \in Showing  BY <2>1 DEF TypeInv, Types, ThreadType, Given
  <2>3. OnlyCurrent' /\ Standing(s)'
    BY <1>0, <1>1, <2>1, <2>2 DEF OnlyCurrent, Standing, DoFor, Do
  <2> QED  BY <1>1, <2>1, <2>3, AloneSettled
<1>8. CASE Running(s)
  <2>1. UNCHANGED <<task, playing, rcv>> /\ Goes(s, DoFor(ModeOf(s), "command"))
    BY <1>8 DEF Running, chosen, rcvs
  <2>2. OnlyCurrent' /\ Standing(s)'
    BY <1>0, <1>1, <2>1 DEF OnlyCurrent, Standing, DoFor, Do
  <2> QED  BY <1>1, <2>1, <2>2, AloneSettled
<1> QED  BY <1>2, <1>3, <1>4, <1>5, <1>6, <1>7, <1>8 DEF PlaySteps

LEMMA StartSettled ==
  ASSUME TypeInv, Settled, NEW s \in Starters, StartSteps(s)
  PROVE  Settled'
<1> SUFFICES ASSUME ~overlapped' PROVE Settled'  BY DEF Settled
<1> s \in Actor  BY Constants
<1>1. CASE StopOld(s)
  <2>1. PICK p \in {"set", "halt"} : Goes(s, DoFor(ModeOf(s), p))
    BY <1>1 DEF StopOld, Onwards
  <2> DEFINE thing == DoFor(ModeOf(s), p)
  <2>2. Goes(s, thing) /\ thing.place \in {"set", "halt"}  BY <2>1 DEF DoFor, Do
  <2> HIDE DEF thing
  <2>3. OnlyCurrent /\ at'[s] = thing /\ \A b \in Actor \ {s} : ~Amid(at'[b])
    BY <2>2, GoesAlone DEF Amid
  <2>4. running' = {} /\ ~task'
    BY <1>1, <2>3, NothingRuns DEF StopOld, modes, rcvs
  <2> QED  BY <2>2, <2>3, <2>4, NothingSettled DEF InPlayer
<1>2. CASE SetMode(s)
  <2>1. Goes(s, Do("start")) /\ Amid(at[s]) /\ at[s].place = "set"
    BY <1>2 DEF SetMode, At, Amid
  <2>2. /\ Standing(s) /\ at'[s] = Do("start") /\ Do("start").place = "start"
        /\ \A b \in Actor \ {s} : ~Amid(at'[b])
    BY <2>1, GoesAlone DEF Do
  <2>3. running' = {} /\ ~task'  BY <1>2, <2>1, <2>2 DEF SetMode, Standing, player
  <2> QED  BY <2>2, <2>3, NothingSettled DEF InPlayer
<1>3. CASE Start(s)
  <2>1. /\ at[s].place = "start" /\ Amid(at[s]) /\ UNCHANGED <<currentMode, task>>
        /\ running' = running \cup ({currentMode} \ {None})
    BY <1>3 DEF Start, At, Amid, player
  <2>2. ASSUME NEW thing, Goes(s, thing), thing.place \in {"idle", "enter", "play"},
               thing.place = "play" => thing.mode = currentMode
        PROVE  Settled'
    <3>1. Standing(s) /\ at'[s] = thing /\ \A b \in Actor \ {s} : ~Amid(at'[b])
      BY <2>1, <2>2, GoesAlone
    <3>2. running' \subseteq {currentMode'} /\ ~task'  BY <2>1, <3>1 DEF Standing
    <3>3. Standing(s)'
      BY <2>1, <2>2, <3>1, <3>2 DEF Standing, InPlayer, OnReceiver
    <3> QED  BY <3>1, <3>2, <3>3, AloneSettled DEF OnlyCurrent
  <2>3. CASE \E p \in {"idle", "enter"} : Goes(s, Do(p))
    BY <2>2, <2>3 DEF Do
  <2>4. CASE Goes(s, DoFor(currentMode, "play"))
    BY <2>2, <2>4 DEF DoFor, Do
  <2>5. CASE /\ Idle("edt") /\ UNCHANGED overlapped
             /\ at' = [at EXCEPT ![s] = Do("idle"), !["edt"] = Do("dialog")]
    <3>1. Standing(s) /\ \A b \in Actor \ {s} : ~Amid(at[b])
      BY <2>1, <2>5 DEF Settled, Alone
    <3>2. \A b \in Actor : ~Amid(at'[b])
      BY <2>5, <3>1, Constants DEF TypeInv, Types, ThreadType, Do, Amid, InPlayer
    <3>3. running' \subseteq {currentMode'} /\ ~task'  BY <2>1, <3>1 DEF Standing
    <3>4. Standing(s)'  BY <3>2 DEF Standing, Amid, InPlayer, OnReceiver
    <3> QED  BY <3>2, <3>3, <3>4, AloneSettled DEF OnlyCurrent
  <2> QED  BY <1>3, <2>3, <2>4, <2>5 DEF Start, TypeInv, Types, ModeType, Mode
<1>4. CASE PlaySteps(s)  BY <1>4, PlaySettled
<1>5. CASE Command(s)
  <2>1. Calm  BY <1>5 DEF Command, Calm, modes, player, chosen, rcvs
  <2>2. Goes(s, Do("idle")) \/ Goes(s, OnUiStop("idle"))  BY <1>5 DEF Command, Unavailable
  <2> QED  BY <2>1, <2>2, CalmGoes, Places DEF Amid, InPlayer
<1> QED  BY <1>1, <1>2, <1>3, <1>4, <1>5 DEF StartSteps

LEMMA ClickSettled ==
  ASSUME TypeInv, Settled, NEW m \in Mode, Click(m)
  PROVE  Settled'
<1>1. Calm  BY DEF Click, Calm, modes, player, chosen, rcvs
<1>2. CASE UNCHANGED <<at, overlapped>>  BY <1>1, <1>2, CalmSettled
<1>3. CASE Goes("edt", OnUiStop("idle"))
  BY <1>1, <1>3, CalmGoes, Constants, Places DEF Amid, InPlayer
<1>4. CASE Free # {} /\ Goes(Thread, DoFor(m, "stopOld"))
  BY <1>1, <1>4, CalmGoes, Constants, AThread, Places DEF Amid, InPlayer
<1> QED  BY <1>2, <1>3, <1>4 DEF Click

LEMMA AskedSettled ==
  ASSUME TypeInv, Settled, Asked
  PROVE  Settled'
<1>1. Calm
  BY DEF Asked, Declined, Rescan, Disconnect, Schedule, Calm, modes, player, chosen, rcvs
<1>2. CASE \E thing : Goes("edt", thing) /\ ~Amid(thing)
  BY <1>1, <1>2, CalmGoes, Constants
<1>3. CASE Schedule
  <2>1. \A a \in Actor : Amid(at'[a]) => at'[a] = at[a]
    BY <1>3, Places DEF Schedule, TypeInv, Types, ThreadType, Amid, InPlayer
  <2> QED  BY <1>1, <1>3, <2>1, CalmSettled DEF Schedule
<1>4. \A p : ~Amid(OnUiStop(p))  BY Places DEF Amid, InPlayer
<1>5. ~Amid(Do("disconnect")) /\ ~Amid(Do("idle"))  BY Places DEF Amid, InPlayer
<1> QED  BY <1>2, <1>3, <1>4, <1>5 DEF Asked, Declined, Rescan, Disconnect, Unavailable

LEMMA NetworkStepsSettled ==
  ASSUME TypeInv, Settled, NEW a \in Actor, NetworkSteps(a)
  PROVE  Settled'
<1>1. Calm
  <2>1. CASE Connected(a)
    <3>1. PICK r \in Receivers : Gone(r) /\ receiver' = r  BY <2>1 DEF Connected
    <3>2. playing \in Receivers => rcv'[playing].interest = rcv[playing].interest
      BY <2>1, <3>1 DEF Connected, Gone, Terminated, TypeInv, Types, RcvType, Fields
    <3> QED  BY <2>1, <3>2 DEF Connected, Calm, modes, player, chosen
  <2>2. CASE Refusal(a)
    BY <2>2 DEF Refusal, Terminated, Calm, TypeInv, Types, RcvType, Fields, modes, player, chosen
  <2> QED
    BY <2>1, <2>2
       DEF NetworkSteps, ReInitialize, Initialize, GiveUp, ServiceReady, Restore, Again, Leave,
           Calm, modes, player, chosen, rcvs
<1>2. CASE \E thing : Goes(a, thing) /\ ~Amid(thing)
  BY <1>1, <1>2, CalmGoes
<1>3. CASE Restore(a) /\ lastMode \in NeedsRestore /\ isReady
  <2>1. /\ UNCHANGED overlapped
        /\ at' = [at EXCEPT ![a] = Do("settle"), ![Thread] = DoFor(lastMode, "stopOld")]
    BY <1>3 DEF Restore
  <2>2. \A b \in Actor : Amid(at'[b]) => at'[b] = at[b]
    BY <2>1, Places DEF TypeInv, Types, ThreadType, Amid, InPlayer
  <2> QED  BY <1>1, <2>1, <2>2, CalmSettled
<1>4. \A p : ~Amid(OnUiStop(p))  BY Places DEF Amid, InPlayer
<1>5. \A p \in {"enter", "connect", "ready", "restore", "settle", "giveUp", "leave", "idle"} :
         ~Amid(Do(p))
  BY Places DEF Amid, InPlayer
<1> QED
  BY <1>2, <1>3, <1>4, <1>5
     DEF NetworkSteps, ReInitialize, Initialize, Connected, Refusal, GiveUp, ServiceReady, Restore,
         Again, Leave, Unavailable

LEMMA ReceiveSettled ==
  ASSUME TypeInv, Settled, NEW r \in Receivers, Receive(r)
  PROVE  Settled'
<1>1. UNCHANGED <<at, overlapped>>
  BY DEF Receive, Enter, Loops, Ends, Reads, Arms, ReadsNothing, Fails, Failed, Checks, Adds,
         ShowsDirectly, RestOfReceiver, threads
<1>2. Calm
  <2>1. CASE Enter(r)
    BY <2>1 DEF Enter, Calm, RestOfReceiver, modes, player, chosen, TypeInv, Types, RcvType, Fields
  <2> QED
    BY <2>1 DEF Receive, Loops, Ends, Reads, Arms, ReadsNothing, Fails, Failed, Checks, Adds,
                ShowsDirectly, RestOfReceiver, modes, player, chosen, Calm
<1> QED  BY <1>1, <1>2, CalmSettled

LEMMA OtherSettled ==
  ASSUME TypeInv, Settled,
         \/ \E r \in Receivers : Fires(r)
         \/ Shows \/ Exhausted \/ Boots \/ \E broken \in {"ended", "silent"} : Lost(broken)
  PROVE  Settled'
<1>1. Calm
  BY DEF Fires, Shows, Exhausted, Boots, Lost, RestOfServer, Calm, modes, player, chosen, rcvs
<1>2. CASE \E a \in Actor : \E thing : Goes(a, thing) /\ ~Amid(thing)
  BY <1>1, <1>2, CalmGoes
<1>3. CASE UNCHANGED <<at, overlapped>>  BY <1>1, <1>3, CalmSettled
<1>4. ~Amid(Do("reinit")) /\ ~Amid(OnUiStop("idle"))  BY Places DEF Amid, InPlayer
<1> QED
  BY <1>2, <1>3, <1>4, Constants DEF Fires, Shows, Exhausted, Boots, Lost, RestOfServer, threads

LEMMA InitSettled == Init => Settled
BY DEF Init, Settled, Alone, OnlyCurrent, Standing, Amid, Do, InPlayer, OnReceiver

LEMMA NextSettled ==
  ASSUME TypeInv, Settled, [Next]_vars
  PROVE  Settled'
<1>1. ASSUME NEW a \in Actor, Steps(a) PROVE Settled'
  BY <1>1, StopSettled, NetworkStepsSettled, StartSettled, AskedSettled DEF Steps
<1>2. CASE UNCHANGED vars
  <2>1. Calm  BY <1>2 DEF vars, modes, player, chosen, rcvs, Calm
  <2> QED  BY <1>2, <2>1, CalmSettled DEF vars, threads
<1> QED  BY <1>1, <1>2, ReceiveSettled, OtherSettled, ClickSettled DEF Next

\* At most the current mode runs, and the pictures the timer shows are of its
\* type, as long as no two threads have been amid starting or stopping one at a
\* time.  (ModeManager.onUiStart and onUiStop, BaseMode.start, Player.playImages)
THEOREM CurrentModeRuns == Spec => []OneModeRuns
<1>1. Settled => OneModeRuns  BY DEF Settled, OnlyCurrent, OneModeRuns
<1> QED  BY <1>1, InitType, InitSettled, NextType, NextSettled, PTL DEF Spec

(***************************************************************************)
(* PicturesOfMode: of the strays, one at most is in the queue or about to  *)
(* be added to it                                                          *)
(***************************************************************************)
Stray(r, picture) == picture # rcv[r].interest
OneStray(r) ==
  /\ \A i, j \in DOMAIN queue[r] : Stray(r, queue[r][i]) /\ Stray(r, queue[r][j]) => i = j
  /\ thread[r] = "add" /\ Stray(r, hand[r]) => \A i \in DOMAIN queue[r] : ~Stray(r, queue[r][i])
Strays == ~crossed => \A r \in Receivers : OneStray(r)

\* Between resetBuffer and interestType the receiver wants nothing: the player
\* has it still, or one that nobody has played yet.
Fresh   == rcv[receiver].interest # NoType => playing = receiver
Wanting == ~crossed => \A s \in Starters : At(s, "want") =>
             rcv[playing].interest = NoType /\ \A t \in Starters : At(t, "want") => t = s

LEMMA StillWanting ==
  ASSUME TypeInv, Fresh, Wanting, Still
  PROVE  Fresh' /\ Wanting'
<1>1. Fresh'  BY DEF Fresh, Still, Same, TypeInv, Types, NetworkType
<1>2. ASSUME NEW s \in Starters, At(s, "want")' PROVE At(s, "want")
  BY <1>2, Constants DEF Still, Plays, At, InPlayer
<1>3. ASSUME NEW s \in Starters, At(s, "want") PROVE playing \in Receivers
  BY <1>3, Constants DEF TypeInv, Types, Unplayed, PlayerType, At, InPlayer
<1>4. Wanting'  BY <1>2, <1>3 DEF Wanting, Still, Same
<1> QED  BY <1>1, <1>4

LEMMA PlayWanting ==
  ASSUME TypeInv, Fresh, Wanting, NEW s \in Starters, PlaySteps(s)
  PROVE  Fresh' /\ Wanting'
<1> s \in Actor /\ Starters \subseteq Actor  BY Constants
<1>0. ASSUME NEW p, NEW m, Goes(s, DoFor(m, p)), p # "want", NEW t \in Starters, At(t, "want")'
      PROVE  At(t, "want") /\ t # s
  BY <1>0 DEF Goes, At, DoFor, Do, TypeInv, Types, ThreadType
<1>1. CASE Play(s)
  <2>1. UNCHANGED <<receiver, crossed, rcv>> /\ (playing' = playing \/ playing' = receiver)
    BY <1>1 DEF Play, network, rcvs
  <2>2. Fresh'  BY <2>1 DEF Fresh
  <2>3. \A t \in Starters : At(t, "want")' => At(t, "want")  BY <1>0, <1>1 DEF Play
  <2>4. Wanting'
    <3>1. SUFFICES ASSUME ~crossed, NEW t \in Starters, At(t, "want")
                   PROVE  rcv[playing'].interest = NoType
      BY <2>1, <2>3 DEF Wanting
    <3>2. rcv[playing].interest = NoType  BY <3>1 DEF Wanting
    <3> QED  BY <2>1, <3>2 DEF Fresh
  <2> QED  BY <2>2, <2>4
<1>2. CASE Reset(s)
  <2>1. UNCHANGED <<receiver, playing>> /\ Goes(s, DoFor(ModeOf(s), "want"))
    BY <1>2 DEF Reset, network
  <2>2. playing \in Receivers  BY <1>2 DEF Reset, At, TypeInv, Types, Unplayed, PlayerType, InPlayer
  <2>3. /\ rcv'[playing].interest = NoType
        /\ \A r \in Receivers \ {playing} : rcv'[r] = rcv[r]
    BY <1>2, <2>2 DEF Reset, TypeInv, Types, RcvType, Fields
  <2>4. Fresh'  BY <2>1, <2>2, <2>3 DEF Fresh, TypeInv, Types, NetworkType
  <2>5. ASSUME ~crossed', NEW t \in Starters, At(t, "want")' PROVE t = s
    BY <1>2, <2>1, <2>5 DEF Reset, Goes, At, TypeInv, Types, ThreadType
  <2>6. Wanting'  BY <2>1, <2>3, <2>5 DEF Wanting
  <2> QED  BY <2>4, <2>6
<1>3. CASE Wants(s)
  <2>1. UNCHANGED <<receiver, playing, crossed>> /\ At(s, "want")
    BY <1>3 DEF Wants, network, player, chosen
  <2>2. \A r \in Receivers \ {playing} : rcv'[r] = rcv[r]
    BY <1>3 DEF Wants, TypeInv, Types, RcvType
  <2>3. Fresh'  BY <2>1, <2>2 DEF Fresh, TypeInv, Types, NetworkType
  <2>4. ASSUME ~crossed, NEW t \in Starters, At(t, "want")' PROVE FALSE
    <3>1. at'[s].place = "spawn" /\ \A b \in Actor \ {s} : at'[b] = at[b]
      BY <1>3 DEF Wants, Goes, DoFor, Do, TypeInv, Types, ThreadType
    <3> QED  BY <2>1, <2>4, <3>1 DEF Wanting, At
  <2>5. Wanting'  BY <2>1, <2>4 DEF Wanting
  <2> QED  BY <2>3, <2>5
<1>4. CASE Spawns(s) \/ Begins(s) \/ Monitors(s) \/ StartReceiving(s) \/ Running(s)
  <2>1. UNCHANGED <<receiver, playing, crossed>>
    BY <1>4 DEF Spawns, Begins, Monitors, StartReceiving, Running, network, player, chosen
  <2>2. \A r \in Receivers : rcv'[r].interest = rcv[r].interest
    <3>1. CASE Begins(s)
      BY <3>1 DEF Begins, TypeInv, Types, RcvType, Fields
    <3>2. CASE Monitors(s)
      BY <3>2 DEF Monitors, TypeInv, Types, RcvType, Fields
    <3> QED  BY <1>4, <3>1, <3>2 DEF Spawns, StartReceiving, Running, rcvs
  <2>3. ASSUME NEW t \in Starters, At(t, "want")' PROVE At(t, "want")
    <3>1. \E thing : Goes(s, thing) /\ thing.place # "want"
      <4>1. \A p \in {"monitor", "begin"} : [at[s] EXCEPT !.place = p].place = p
        BY DEF TypeInv, Types, ThreadType, Thing
      <4>2. CASE Spawns(s)
        <5>1. \/ Goes(s, [at[s] EXCEPT !.place = "monitor"])
              \/ Goes(s, [at[s] EXCEPT !.place = "begin"])
              \/ Goes(s, Do("idle"))
          BY <4>2 DEF Spawns
        <5>2. ASSUME NEW p \in {"monitor", "begin"}, Goes(s, [at[s] EXCEPT !.place = p])
              PROVE  \E thing : Goes(s, thing) /\ thing.place # "want"
          <6> DEFINE thing == [at[s] EXCEPT !.place = p]
          <6>1. Goes(s, thing) /\ thing.place = p  BY <4>1, <5>2
          <6> HIDE DEF thing
          <6> QED  BY <6>1
        <5> QED  BY <5>1, <5>2, Places
      <4>3. CASE Begins(s)
        BY <4>1, <4>3 DEF Begins
      <4> QED  BY <1>4, <4>2, <4>3, Places DEF Monitors, StartReceiving, Running
    <3> QED  BY <2>3, <3>1 DEF Goes, At, TypeInv, Types, ThreadType
  <2>4. ASSUME NEW t \in Starters, At(t, "want") PROVE playing \in Receivers
    BY <2>4 DEF TypeInv, Types, Unplayed, PlayerType, At, InPlayer
  <2>5. Fresh'  BY <2>1, <2>2 DEF Fresh, TypeInv, Types, NetworkType
  <2>6. Wanting'  BY <2>1, <2>2, <2>3, <2>4 DEF Wanting
  <2> QED  BY <2>5, <2>6
<1> QED  BY <1>1, <1>2, <1>3, <1>4 DEF PlaySteps

LEMMA NextStill ==
  ASSUME TypeInv, [Next]_vars
  PROVE  Still \/ \E s \in Starters : PlaySteps(s)
<1>1. ASSUME NEW a \in Actor, Steps(a) PROVE Still \/ \E s \in Starters : PlaySteps(s)
  BY <1>1, StopUnplayed, NetworkUnplayed, StartUnplayed, AskedUnplayed DEF Steps
<1> QED  BY <1>1, ReceiveUnplayed, OtherUnplayed DEF Next

LEMMA NextWanting ==
  ASSUME TypeInv, Fresh, Wanting, [Next]_vars
  PROVE  Fresh' /\ Wanting'
BY NextStill, StillWanting, PlayWanting

\* Nothing is checked that is not of the type; or the queue is emptied; or a
\* type is wanted where none was.
Kept(r) ==
  /\ queue'[r] = queue[r] /\ rcv'[r].interest = rcv[r].interest
  /\ thread'[r] = "add" => \/ thread[r] = "add" /\ hand'[r] = hand[r]
                           \/ hand'[r] = rcv[r].interest
Emptied(r) == queue'[r] = <<>>
Wanted(r)  == /\ rcv[r].interest = NoType /\ queue'[r] = queue[r]
              /\ thread'[r] = thread[r] /\ hand'[r] = hand[r]

LEMMA StrayKept ==
  ASSUME TypeInv, NEW r \in Receivers, OneStray(r), Kept(r) \/ Emptied(r) \/ Wanted(r)
  PROVE  OneStray(r)'
<1>1. CASE Kept(r) \/ Emptied(r)  BY <1>1 DEF OneStray, Stray, Kept, Emptied
<1>2. CASE Wanted(r)
  <2>1. \A i \in DOMAIN queue[r] : Stray(r, queue[r][i])
    <3>1. queue[r] \in Seq(Showing)  BY DEF TypeInv, Types, QueueType
    <3>2. \A i \in DOMAIN queue[r] : queue[r][i] \in Showing  BY <3>1
    <3>3. NoType \notin Showing  BY DEF NoType, Showing
    <3> QED  BY <1>2, <3>2, <3>3 DEF Wanted, Stray
  <2>2. thread[r] = "add" => Stray(r, hand[r])
    BY <1>2 DEF TypeInv, Types, PictureType, Wanted, Stray
  <2> QED  BY <1>2, <2>1, <2>2 DEF Wanted, OneStray, Stray
<1> QED  BY <1>1, <1>2

LEMMA AddsStray ==
  ASSUME TypeInv, NEW r \in Receivers, NEW q \in Receivers, OneStray(r), Adds(q)
  PROVE  OneStray(r)'
<1>1. CASE q # r
  BY <1>1, StrayKept DEF Adds, Moves, Kept, TypeInv, Types, QueueType, PictureType
<1>2. CASE q = r
  <2>1. /\ thread'[r] = "direct" /\ rcv'[r] = rcv[r] /\ queue[r] \in Seq(Showing)
        /\ queue'[r] = queue[r] \/ queue'[r] = Append(queue[r], hand[r])
        /\ thread[r] = "add" /\ hand[r] \in Showing
    BY <1>2 DEF Adds, Moves, TypeInv, Types, QueueType, PictureType, Picture
  <2>2. CASE queue'[r] = queue[r]
    BY <2>1, <2>2 DEF OneStray, Stray
  <2>3. CASE queue'[r] = Append(queue[r], hand[r])
    <3>1. \A i \in DOMAIN queue'[r] :
             \/ i \in DOMAIN queue[r] /\ queue'[r][i] = queue[r][i]
             \/ i = Len(queue[r]) + 1 /\ queue'[r][i] = hand[r]
      BY <2>1, <2>3
    <3> QED  BY <2>1, <3>1 DEF OneStray, Stray
  <2> QED  BY <2>1, <2>2, <2>3
<1> QED  BY <1>1, <1>2

LEMMA ShownStray ==
  ASSUME TypeInv, playing # None, NEW r \in Receivers, OneStray(r), queue[playing] # <<>>, Shown,
         UNCHANGED <<hand, rcv>>, thread'[r] = "add" => thread[r] = "add"
  PROVE  OneStray(r)'
<1>1. playing \in Receivers  BY DEF TypeInv, Types, PlayerType
<1>2. CASE playing # r
  BY <1>1, <1>2, StrayKept DEF Shown, Kept, TypeInv, Types, QueueType
<1>3. CASE playing = r
  <2>1. queue[r] \in Seq(Showing) /\ queue[r] # <<>> /\ queue'[r] = Tail(queue[r])
    BY <1>1, <1>3 DEF Shown, TypeInv, Types, QueueType
  <2>2. \A i \in DOMAIN queue'[r] : i + 1 \in DOMAIN queue[r] /\ queue'[r][i] = queue[r][i + 1]
    BY <2>1
  <2>3. DOMAIN queue'[r] \subseteq Int
    BY <2>1
  <2>4. rcv'[r].interest = rcv[r].interest /\ hand'[r] = hand[r]
    OBVIOUS
  <2>5. \A i, j \in DOMAIN queue'[r] :
           /\ queue'[r][i] # rcv'[r].interest /\ queue'[r][j] # rcv'[r].interest => i = j
           /\ queue'[r][i] # rcv'[r].interest => Stray(r, queue[r][i + 1])
    BY <2>2, <2>3, <2>4 DEF OneStray, Stray
  <2> QED  BY <2>2, <2>4, <2>5 DEF OneStray, Stray
<1> QED  BY <1>2, <1>3

LEMMA PlayStray ==
  ASSUME TypeInv, Wanting, ~crossed, NEW r \in Receivers, NEW s \in Starters, PlaySteps(s)
  PROVE  Kept(r) \/ Emptied(r) \/ Wanted(r)
<1> s \in Actor  BY Constants
<1> USE DEF TypeInv, Types, RcvType, QueueType, PictureType
<1>1. CASE Play(s) \/ StartReceiving(s) \/ Running(s)
  BY <1>1 DEF Play, StartReceiving, Running, rcvs, Kept
<1>2. CASE Reset(s)
  BY <1>2 DEF Reset, Kept, Emptied
<1>3. CASE Wants(s)
  BY <1>3 DEF Wants, Kept, Wanted, Wanting
<1>4. CASE Spawns(s)  BY <1>4 DEF Spawns, Kept
<1>5. CASE Begins(s)  BY <1>5 DEF Begins, Kept, Fields
<1>6. CASE Monitors(s)  BY <1>6 DEF Monitors, Kept, Fields
<1> QED  BY <1>1, <1>2, <1>3, <1>4, <1>5, <1>6 DEF PlaySteps

LEMMA StepsStray ==
  ASSUME TypeInv, Wanting, ~crossed, NEW r \in Receivers, NEW a \in Actor, Steps(a)
  PROVE  Kept(r) \/ Emptied(r) \/ Wanted(r)
<1>1. CASE Stop(a) \/ Clear(a)  BY <1>1 DEF Stop, Clear, rcvs, Kept
<1>2. CASE Halt(a)
  <2>1. CASE StopSelf(playing)
    BY <1>2, <2>1 DEF Halt, StopSelf, Kept, Emptied, TypeInv, Types, PlayerType, RcvType, QueueType
  <2> QED  BY <1>2, <2>1 DEF Halt, Kept
<1>3. CASE NetworkSteps(a)
  <2>1. CASE Connected(a)
    <3>1. PICK q \in Receivers : receiver' = q  BY <2>1 DEF Connected
    <3>2. CASE q = r
      BY <2>1, <3>1, <3>2 DEF Connected, Emptied, TypeInv, Types, QueueType
    <3>3. CASE q # r
      <4>1. queue'[r] = queue[r]  BY <2>1, <3>1, <3>3 DEF Connected, TypeInv, Types, QueueType
      <4>2. rcv'[r].interest = rcv[r].interest
        BY <2>1, <3>1, <3>3 DEF Connected, Terminated, TypeInv, Types, RcvType, Fields
      <4>3. thread'[r] = thread[r] /\ hand'[r] = hand[r]
        BY <2>1, <3>1, <3>3 DEF Connected, TypeInv, Types, PictureType
      <4> QED  BY <4>1, <4>2, <4>3 DEF Kept
    <3> QED  BY <3>2, <3>3
  <2>2. CASE Refusal(a)
    BY <2>2 DEF Refusal, Terminated, Kept, TypeInv, Types, RcvType, Fields
  <2> QED
    BY <1>3, <2>1, <2>2
       DEF NetworkSteps, ReInitialize, Initialize, GiveUp, ServiceReady, Restore, Again, Leave,
           rcvs, Kept
<1>4. CASE a \in Starters /\ StartSteps(a)
  <2>1. CASE PlaySteps(a)  BY <1>4, <2>1, PlayStray
  <2> QED  BY <1>4, <2>1 DEF StartSteps, StopOld, SetMode, Start, Command, rcvs, Kept
<1>5. CASE Asked
  BY <1>5 DEF Asked, Declined, Rescan, Disconnect, Schedule, rcvs, Kept
<1> QED  BY <1>1, <1>2, <1>3, <1>4, <1>5 DEF Steps

LEMMA ReceiveStray ==
  ASSUME TypeInv, NEW r \in Receivers, OneStray(r), NEW q \in Receivers, Receive(q)
  PROVE  OneStray(r)'
<1>1. CASE Adds(q)  BY <1>1, AddsStray
<1>2. CASE ShowsDirectly(q)
  <2>1. /\ thread'[r] = "add" => thread[r] = "add"
        /\ UNCHANGED <<hand, rcv>>
    BY <1>2 DEF ShowsDirectly, Moves, TypeInv, Types, PictureType
  <2>2. playing # None  BY <1>2 DEF ShowsDirectly, TypeInv, Unplayed
  <2>3. CASE UNCHANGED queue  BY <2>1, <2>3, StrayKept DEF Kept
  <2> QED  BY <1>2, <2>1, <2>2, <2>3, ShownStray DEF ShowsDirectly
<1>3. CASE ~Adds(q) /\ ~ShowsDirectly(q)
  <2> USE DEF Kept, Moves, RestOfReceiver, TypeInv, Types, PictureType, RcvType
  <2>1. CASE Enter(q)  BY <2>1, StrayKept DEF Enter, Fields
  <2>2. CASE Checks(q)  BY <2>2, StrayKept DEF Checks
  <2>3. CASE Reads(q)  BY <2>3, StrayKept DEF Reads
  <2>4. CASE Loops(q) \/ Ends(q)  BY <2>4, StrayKept DEF Loops, Ends
  <2>5. CASE Fails(q) \/ Failed(q)  BY <2>5, StrayKept DEF Fails, Failed
  <2>6. CASE Arms(q) \/ ReadsNothing(q)  BY <2>6, StrayKept DEF Arms, ReadsNothing
  <2> QED  BY <1>3, <2>1, <2>2, <2>3, <2>4, <2>5, <2>6 DEF Receive
<1> QED  BY <1>1, <1>2, <1>3

LEMMA CrossedStays ==
  ASSUME TypeInv, [Next]_vars, crossed
  PROVE  crossed'
<1>1. ASSUME NEW s \in Starters, PlaySteps(s) PROVE crossed'
  BY <1>1 DEF PlaySteps, Play, Reset, Wants, Spawns, Begins, Monitors, StartReceiving, Running,
              player, chosen
<1> QED  BY <1>1, NextStill DEF Still, Same

LEMMA NextStray ==
  ASSUME TypeInv, Wanting, Strays, [Next]_vars
  PROVE  Strays'
<1> SUFFICES ASSUME ~crossed, NEW r \in Receivers PROVE OneStray(r)'
  BY CrossedStays DEF Strays
<1>0. OneStray(r)  BY DEF Strays
<1>1. ASSUME NEW a \in Actor, Steps(a) PROVE OneStray(r)'
  BY <1>0, <1>1, StepsStray, StrayKept
<1>2. ASSUME NEW q \in Receivers, Receive(q) PROVE OneStray(r)'
  BY <1>0, <1>2, ReceiveStray
<1>3. CASE Shows
  <2>1. playing # None  BY <1>3 DEF Shows, TypeInv, Unplayed
  <2> QED  BY <1>0, <1>3, <2>1, ShownStray DEF Shows
<1>4. CASE \/ \E q \in Receivers : Fires(q)
           \/ Exhausted \/ Boots \/ (\E m \in Mode : Click(m)) \/ UNCHANGED vars
           \/ \E broken \in {"ended", "silent"} : Lost(broken)
  <2>1. Kept(r)
    BY <1>4 DEF Fires, Exhausted, Boots, Click, Lost, RestOfServer, rcvs, vars, Kept
  <2> QED  BY <1>0, <2>1, StrayKept
<1> QED  BY <1>1, <1>2, <1>3, <1>4 DEF Next

\* One stray at most, counted as the run counts them.
LEMMA StrayCount ==
  ASSUME TypeInv, NEW r \in Receivers, OneStray(r)
  PROVE  LET waiting == {i \in DOMAIN queue[r] : Stray(r, queue[r][i])}
         IN Cardinality(waiting) + (IF thread[r] = "add" /\ Stray(r, hand[r]) THEN 1 ELSE 0) <= 1
<1> DEFINE waiting == {i \in DOMAIN queue[r] : Stray(r, queue[r][i])}
<1>1. CASE waiting = {}
  BY <1>1, FS_EmptySet
<1>2. CASE waiting # {}
  <2>1. PICK i \in waiting : TRUE  BY <1>2
  <2>2. waiting = {i}  BY <2>1 DEF OneStray
  <2>3. Cardinality(waiting) = 1  BY <2>2, FS_Singleton
  <2>4. ~(thread[r] = "add" /\ Stray(r, hand[r]))  BY <2>1 DEF OneStray
  <2> QED  BY <2>3, <2>4
<1> QED  BY <1>1, <1>2

\* Of the pictures waiting to be shown one at most is not of the type the
\* receiver is interested in, the one checked before the reset and added after
\* it, for any number of threads that start modes - as long as no two of them
\* have been between resetBuffer and interestType at once: nothing locks the
\* two, and then each may leave a stray behind.
\* (Receiver.receiveImages, resetBuffer and startReceive)
THEOREM OneStrayWaits == Spec => []PicturesOfMode
<1>1. Init => Fresh /\ Wanting /\ Strays
  <2>1. Init => Fresh
    BY ClientAssumption DEF Init, Fresh, NewReceiver
  <2>2. Init => Wanting
    BY Constants DEF Init, Wanting, At, Do
  <2>3. Init => Strays
    BY DEF Init, Strays, OneStray
  <2> QED  BY <2>1, <2>2, <2>3
<1>2. TypeInv /\ Strays => PicturesOfMode
  BY StrayCount DEF Strays, PicturesOfMode, Stray
<1>3. TypeInv /\ Fresh /\ Wanting /\ Strays /\ [Next]_vars => (Fresh /\ Wanting /\ Strays)'
  BY NextWanting, NextStray
<1> QED  BY <1>1, <1>2, <1>3, InitType, NextType, PTL DEF Spec
================================================================================
