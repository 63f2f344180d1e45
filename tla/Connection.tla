----------------------------- MODULE Connection -----------------------------
(***************************************************************************)
(* The one client connection of the recognition server: the epoll loop of  *)
(* the main thread, which accepts, reads commands and drops clients, and   *)
(* the sender thread, which writes pictures and drops a client it cannot   *)
(* write to.  Both change gTcpConnectedPort, without a lock.  The kernel's *)
(* side is external: a descriptor that has been closed is soon given out   *)
(* again, and closing one takes it out of the epoll set.  What a command   *)
(* does to the pipeline is in VideoPipeline.                               *)
(***************************************************************************)
EXTENDS Integers, Sequences, FiniteSets, Functions

CONSTANTS
  Conns,       \* the TCP connections made to the server
  NoConn,      \* behind a descriptor that is not open
  Fds,         \* descriptors left for clients
  NoFd,        \* -1
  Listen,      \* TcpListenPort->ListenFd
  Writers,     \* bound: the clients that write commands
  MAX_HALVES   \* bound: halves of commands each of them writes

ASSUME ConnectionAssumption ==
  /\ NoConn \notin Conns
  /\ IsFiniteSet(Fds) /\ NoFd \notin Fds /\ Listen \notin Fds /\ NoFd # Listen
  /\ MAX_HALVES \in Nat

VARIABLES
  files,      \* kernel: the connection behind each descriptor
  interest,   \* kernel: the client descriptors in the epoll set
  made,       \* the connections made so far
  backlog,    \* kernel: connections not yet accepted
  wrote,      \* halves of commands each client has written
  ended,      \* clients that have closed their end
  read,       \* halves the server has read from each client
  gTcpConnectedPort,
  pc,         \* where the two threads are
  batch,      \* the events of epoll_wait still to be handled
  ev,         \* the descriptor of the event being handled
  port,       \* connectedPort, the descriptor just accepted
  after,      \* where the main thread goes on after diconnect_client
  first,      \* the half of a command that has been read
  fd,         \* the descriptor the sender was given
  executed,   \* history: the two halves of the command just executed
  to,         \* history: the connection that got the head of the picture
  raced       \* history: both threads were changing the connection at once

clients == <<made, wrote, ended>>
mainLoc == <<batch, ev, port, after, first, executed>>
vars == <<files, interest, backlog, clients, read, gTcpConnectedPort, pc, mainLoc, fd,
          to, raced>>

Init ==
  /\ files = [f \in Fds |-> NoConn] /\ interest = {} /\ backlog = <<>>
  /\ made = {} /\ ended = {}
  /\ wrote = [c \in Conns |-> 0] /\ read = [c \in Conns |-> 0]
  /\ gTcpConnectedPort = NoFd
  /\ pc = [main |-> "wait", sender |-> "idle"]
  /\ batch = <<>> /\ ev = NoFd /\ port = NoFd /\ after = "next"
  /\ first = <<>> /\ executed = <<>>
  /\ fd = NoFd
  /\ to = NoConn
  /\ raced = FALSE

At(th, l)   == pc[th] = l
Goes(th, l) == pc' = [pc EXCEPT ![th] = l]
Opened      == {f \in Fds : files[f] # NoConn}

-----------------------------------------------------------------------------
(* The clients.                                                            *)

Held(c)    == c \in Range(files) \cup Range(backlog)
ServerSame == UNCHANGED <<files, interest, read, gTcpConnectedPort, pc, mainLoc, fd, to>>

Connect(c) ==
  /\ c \notin made
  /\ made' = made \cup {c} /\ backlog' = Append(backlog, c)
  /\ ServerSame /\ UNCHANGED <<wrote, ended>>

\* A command is 8 bytes, which may arrive in two pieces.
Write(c) ==
  /\ c \in Writers /\ Held(c) /\ c \notin ended /\ wrote[c] < MAX_HALVES
  /\ wrote' = [wrote EXCEPT ![c] = @ + 1]
  /\ ServerSame /\ UNCHANGED <<made, ended, backlog>>

End(c) ==
  /\ Held(c) /\ c \notin ended
  /\ ended' = ended \cup {c}
  /\ ServerSame /\ UNCHANGED <<made, wrote, backlog>>

-----------------------------------------------------------------------------
(* diconnect_client, called by either thread.  It reads the global anew.   *)

Close(f) == /\ files' = [files EXCEPT ![f] = NoConn]
            /\ interest' = interest \ {f}

CloseTcpConnectedPort ==
  IF gTcpConnectedPort = NoFd THEN UNCHANGED <<files, interest>> ELSE Close(gTcpConnectedPort)

DisconnectClient(th, done) ==
  \/ /\ At(th, "test")
     /\ Goes(th, IF gTcpConnectedPort = NoFd THEN "reset" ELSE "close")
     /\ UNCHANGED <<files, interest, gTcpConnectedPort>>
  \/ /\ At(th, "close")
     /\ CloseTcpConnectedPort
     /\ Goes(th, "reset")
     /\ UNCHANGED gTcpConnectedPort
  \/ /\ At(th, "reset")
     /\ gTcpConnectedPort' = NoFd
     /\ Goes(th, done)
     /\ UNCHANGED <<files, interest>>

-----------------------------------------------------------------------------
(* The main thread.                                                        *)

MainSame == UNCHANGED <<clients, fd, to>>

\* The epoll set is level-triggered.  Events come in the order the descriptors
\* became ready, which may be any.
Readable(f) == wrote[files[f]] > read[files[f]] \/ files[f] \in ended
Ready == {f \in interest : Readable(f)} \cup (IF backlog = <<>> THEN {} ELSE {Listen})
Orders(S) == {s \in [1 .. Cardinality(S) -> S] : IsInjective(s)}

EpollWait ==
  /\ At("main", "wait") /\ Ready # {}
  /\ batch' \in Orders(Ready)
  /\ Goes("main", "next")
  /\ MainSame
  /\ UNCHANGED <<files, interest, backlog, read, gTcpConnectedPort, ev, port, after, first, executed>>

NextEvent ==
  /\ At("main", "next")
  /\ executed' = <<>>
  /\ IF batch = <<>>
     THEN Goes("main", "wait") /\ ev' = NoFd /\ UNCHANGED batch
     ELSE /\ ev' = Head(batch) /\ batch' = Tail(batch)
          /\ Goes("main", IF Head(batch) = Listen THEN "accept" ELSE "read")
  /\ MainSame
  /\ UNCHANGED <<files, interest, backlog, read, gTcpConnectedPort, port, after, first>>

\* accept() and the buffer sizes of the new socket, which may both fail.  The other
\* files of the process come and go: any free descriptor may be the lowest.
AcceptTcpConnection ==
  /\ At("main", "accept") /\ backlog # <<>>
  /\ \/ /\ Opened # Fds
        /\ port' \in Fds \ Opened
        /\ files' = [files EXCEPT ![port'] = Head(backlog)]
        /\ backlog' = Tail(backlog)
        /\ Goes("main", "add")
     \/ /\ backlog' = IF Opened = Fds THEN backlog ELSE Tail(backlog)
        /\ Goes("main", "next")
        /\ UNCHANGED <<files, port>>
  /\ MainSame
  /\ UNCHANGED <<interest, read, gTcpConnectedPort, batch, ev, after, first, executed>>

\* The server exits on a descriptor that has been closed meanwhile.
EpollAdd ==
  /\ At("main", "add")
  /\ IF files[port] = NoConn
     THEN pc' = [main |-> "exit", sender |-> "exit"] /\ UNCHANGED interest
     ELSE interest' = interest \cup {port} /\ Goes("main", "old")
  /\ MainSame
  /\ UNCHANGED <<files, backlog, read, gTcpConnectedPort, mainLoc>>

\* An older client leaves the epoll set and is dropped ...
KeepOld == /\ Goes("main", "set") /\ UNCHANGED <<interest, after>>
DropOld == IF gTcpConnectedPort = NoFd
           THEN Goes("main", "set") /\ UNCHANGED <<interest, after>>
           ELSE /\ interest' = interest \ {gTcpConnectedPort}
                /\ after' = "set"
                /\ Goes("main", "test")
OldClient ==
  /\ At("main", "old")
  /\ DropOld
  /\ MainSame
  /\ UNCHANGED <<files, backlog, read, gTcpConnectedPort, batch, ev, port, first, executed>>

\* ... before the new one is served.
ServeNew ==
  /\ At("main", "set")
  /\ gTcpConnectedPort' = port
  /\ Goes("main", "next")
  /\ port' = NoFd /\ after' = "next"
  /\ MainSame
  /\ UNCHANGED <<files, interest, backlog, read, batch, ev, first, executed>>

\* ReadDataTcp on a non-blocking socket: a half is there, or recv fails (the
\* descriptor is closed, the client has ended, or the half has not arrived).
\* A command read whole passes the assertion on its type, as the client sends no
\* other (CONTROL_TYPE_NORMAL).
TakenForGranted == files[ev] # NoConn
Arrived == files[ev] # NoConn /\ wrote[files[ev]] > read[files[ev]]
Half    == <<files[ev], read[files[ev]] + 1>>
Recv    == Arrived /\ read' = [read EXCEPT ![files[ev]] = @ + 1]

ReadLater  == Goes("main", "next") /\ UNCHANGED <<interest, after>>
ReadFails == /\ interest' = interest \ {ev}
             /\ after' = "next"
             /\ Goes("main", "test")

ReadCommand ==
  /\ \/ /\ At("main", "read") /\ Recv
        /\ first' = Half
        /\ Goes("main", "rest")
        /\ UNCHANGED <<interest, after, executed>>
     \/ /\ At("main", "rest") /\ Recv
        /\ executed' = <<first, Half>> /\ first' = <<>>
        /\ Goes("main", "next")
        /\ UNCHANGED <<interest, after>>
     \/ /\ At("main", "read") \/ At("main", "rest")
        /\ ~Arrived
        /\ first' = <<>>
        /\ ReadFails
        /\ UNCHANGED <<read, executed>>
  /\ MainSame
  /\ UNCHANGED <<files, backlog, gTcpConnectedPort, batch, ev, port>>

MainDisconnect ==
  /\ DisconnectClient("main", after)
  /\ MainSame /\ UNCHANGED <<backlog, read, mainLoc>>

Main == \/ EpollWait \/ NextEvent \/ AcceptTcpConnection \/ EpollAdd \/ OldClient
        \/ ServeNew \/ ReadCommand \/ MainDisconnect

-----------------------------------------------------------------------------
(* The sender.                                                             *)

SenderSame == UNCHANGED <<clients, backlog, read, mainLoc>>

\* do_send_video tests the global, and reads it again for the call.
SendTest ==
  /\ At("sender", "idle") /\ gTcpConnectedPort # NoFd
  /\ Goes("sender", "arg")
  /\ SenderSame /\ UNCHANGED <<files, interest, gTcpConnectedPort, fd, to>>

SendArg ==
  /\ At("sender", "arg")
  /\ fd' = gTcpConnectedPort
  /\ Goes("sender", "head")
  /\ SenderSame /\ UNCHANGED <<files, interest, gTcpConnectedPort, to>>

\* WriteDataTcp sends to whatever the descriptor stands for by now, or fails: it
\* is closed, the client has ended, or poll reports nothing until the time-out,
\* as it does for -1 and for a client that no longer reads.
Sends     == fd # NoFd /\ files[fd] # NoConn
SendFails == Goes("sender", "test")

TcpSendImageAsJpeg ==
  /\ \/ At("sender", "head") /\ Sends /\ Goes("sender", "body")
        /\ to' = files[fd] /\ UNCHANGED fd
     \/ At("sender", "body") /\ Sends /\ Goes("sender", "idle")
        /\ to' = NoConn /\ fd' = NoFd
     \/ (At("sender", "head") \/ At("sender", "body")) /\ SendFails
        /\ to' = NoConn /\ fd' = NoFd
  /\ SenderSame /\ UNCHANGED <<files, interest, gTcpConnectedPort>>

SenderDisconnect ==
  /\ DisconnectClient("sender", "idle")
  /\ SenderSame /\ UNCHANGED <<fd, to>>

Sender == SendTest \/ SendArg \/ TcpSendImageAsJpeg \/ SenderDisconnect

-----------------------------------------------------------------------------

Dropping      == {"test", "close", "reset"}
MainChanges   == pc.main \in Dropping \cup {"add", "old", "set"}
SenderChanges == pc.sender \in Dropping

Raced == raced' = (raced \/ (MainChanges' /\ SenderChanges'))

Next == /\ \/ \E c \in Conns : Connect(c) \/ Write(c) \/ End(c)
           \/ Main
           \/ Sender
        /\ Raced

\* The main thread runs; the sender ends what it has begun, if only by the
\* time-out of WriteDataTcp.  Clients may do nothing.
Spec     == Init /\ [][Next]_vars
FairSpec == Spec /\ WF_vars(Main /\ Raced) /\ WF_vars(~At("sender", "idle") /\ Sender /\ Raced)
-----------------------------------------------------------------------------
(* Properties.                                                             *)

MainPCs   == Dropping \cup {"wait", "next", "accept", "add", "old", "set", "read", "rest", "exit"}
SenderPCs == Dropping \cup {"idle", "exit", "arg", "head", "body"}
Halves    == Conns \X (Nat \ {0})

TypeOK ==
  /\ files \in [Fds -> made \cup {NoConn}] /\ interest \subseteq Fds
  /\ made \subseteq Conns /\ ended \subseteq made /\ backlog \in Seq(made)
  /\ wrote \in [Conns -> Nat] /\ read \in [Conns -> Nat] /\ \A c \in Conns : read[c] <= wrote[c]
  /\ gTcpConnectedPort \in Fds \cup {NoFd}
  /\ pc \in [main : MainPCs, sender : SenderPCs]
  /\ batch \in Seq(Fds \cup {Listen}) /\ ev \in Fds \cup {Listen, NoFd}
  /\ port \in Fds \cup {NoFd} /\ after \in {"next", "set"} /\ fd \in Fds \cup {NoFd}
  /\ first \in Halves \cup {<<>>} /\ executed \in (Halves \X Halves) \cup {<<>>}
  /\ to \in Conns \cup {NoConn} /\ raced \in BOOLEAN

\* A command is put together from two consecutive halves of one client: a client
\* whose command did not arrive whole is never read again (handle_client_msg).
CommandWhole ==
  executed # <<>> => LET head == executed[1]  tail == executed[2] IN
                       tail = <<head[1], head[2] + 1>> /\ head[2] % 2 = 1

\* Between two changes, the one descriptor that is open is the client's, and it is
\* watched: no client is left behind, open or unwatched, unless both threads have
\* changed the connection at once (camera_face_recognition, diconnect_client).
Served == IF gTcpConnectedPort = NoFd THEN {} ELSE {gTcpConnectedPort}
ServedConsistent ==
  ~raced /\ ~MainChanges /\ ~SenderChanges => Opened = Served /\ interest = Served

\* The message "Already connected, old socket disconnecting..": the client dropped
\* for a new connection is an older one, not the new one.
OldSocketOnly ==
  At("main", "close") /\ after = "set" => gTcpConnectedPort # port

\* The comment on TcpSendImageAsJpeg: a picture goes to one connection.  The body
\* is not written to another than the one that got the head.
WholePictures ==
  At("sender", "body") /\ Sends => files[fd] = to

\* A client that connects is accepted or refused in the end: every descriptor
\* is given back, and with one for the client that is served and one for the next
\* accept never finds the table full for good.  Unless a race has lost one -
\* then a client may wait in the backlog for ever - or the server exits.
\* (camera_face_recognition, AcceptTcpConnection, diconnect_client)
Accepted ==
  \A c \in Conns :
    c \in Range(backlog) ~> raced \/ c \notin Range(backlog) \/ At("main", "exit")

\* A client that has gone is closed in the end (handle_client_msg), unless a
\* race has lost its descriptor.
EndedClosed == \A c \in Conns : c \in ended ~> raced \/ c \notin Range(files)
=============================================================================
