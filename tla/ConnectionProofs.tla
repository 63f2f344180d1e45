-------------------------- MODULE ConnectionProofs --------------------------
(***************************************************************************)
(* Proofs about Connection, for any number of clients and descriptors.     *)
(***************************************************************************)
EXTENDS Connection, FiniteSetTheorems, TLAPS

(* What the types rest on: the descriptor a thread works on is a real one.  *)
WorksOn ==
  /\ At("main", "read") \/ At("main", "rest") => ev \in Fds
  /\ At("main", "rest") => first \in Halves
  /\ At("main", "add") \/ At("main", "old") \/ At("main", "set") => port \in Fds
  /\ pc.main \in Dropping /\ after = "set" => port \in Fds

TInv == TypeOK /\ WorksOn

\* The events of one wait are a sequence of descriptors.
LEMMA OrdersType ==
  ASSUME NEW S, IsFiniteSet(S), NEW T, S \subseteq T, NEW s \in Orders(S)
  PROVE  s \in Seq(T)
<1>1. Cardinality(S) \in Nat
  BY FS_CardinalityType
<1>2. s \in [1 .. Cardinality(S) -> T]
  BY DEF Orders
<1> QED
  BY <1>1, <1>2

LEMMA ReadyFinite ==
  ASSUME TypeOK PROVE IsFiniteSet(Ready) /\ Ready \subseteq Fds \cup {Listen}
<1>1. Ready \subseteq Fds \cup {Listen}
  BY DEF Ready, TypeOK
<1>2. IsFiniteSet(Fds \cup {Listen})
  BY ConnectionAssumption, FS_AddElement
<1> QED
  BY <1>1, <1>2, FS_Subset

LEMMA TInit == Init => TInv
<1> SUFFICES ASSUME Init PROVE TInv
  OBVIOUS
<1> USE DEF Init
<1>1. pc \in [main : MainPCs, sender : SenderPCs]
  BY DEF MainPCs, SenderPCs
<1>2. files \in [Fds -> made \cup {NoConn}] /\ interest \subseteq Fds
  OBVIOUS
<1>3. backlog \in Seq(made) /\ batch \in Seq(Fds \cup {Listen})
  OBVIOUS
<1>4. read \in [Conns -> Nat] /\ wrote \in [Conns -> Nat] /\ \A c \in Conns : read[c] <= wrote[c]
  OBVIOUS
<1>5. TypeOK
  BY <1>1, <1>2, <1>3, <1>4 DEF TypeOK
<1>6. WorksOn
  BY DEF WorksOn, At, Dropping
<1> QED
  BY <1>5, <1>6 DEF TInv

LEMMA TClients ==
  ASSUME TInv, NEW c \in Conns, Connect(c) \/ Write(c) \/ End(c), Raced PROVE TInv'
<1> USE DEF TInv, TypeOK, WorksOn, At, ServerSame, mainLoc, Raced
<1>1. CASE Connect(c)
  <2> USE <1>1 DEF Connect
  <2>1. made \subseteq made' /\ c \in made' /\ made' \subseteq Conns
    OBVIOUS
  <2>2. backlog' \in Seq(made')
    BY <2>1
  <2>3. files' \in [Fds -> made' \cup {NoConn}]
    BY <2>1
  <2> QED
    BY <2>1, <2>2, <2>3
<1>2. CASE Write(c)
  BY <1>2 DEF Write
<1>3. CASE End(c)
  <2>1. c \in made
    BY <1>3, ConnectionAssumption DEF End, Held, Range
  <2> QED
    BY <1>3, <2>1 DEF End
<1> QED BY <1>1, <1>2, <1>3

LEMMA TDisconnect ==
  ASSUME TypeOK, NEW th \in {"main", "sender"}, NEW done, DisconnectClient(th, done)
  PROVE  /\ files' \in [Fds -> made \cup {NoConn}] /\ interest' \subseteq Fds
         /\ gTcpConnectedPort' \in Fds \cup {NoFd}
         /\ \E l \in {"close", "reset", done} : Goes(th, l)
         /\ pc[th] \in Dropping
  BY DEF TypeOK, DisconnectClient, CloseTcpConnectedPort, Close, Dropping, At, Goes

LEMMA TMain ==
  ASSUME TInv, Main, Raced PROVE TInv'
<1> USE DEF TInv, TypeOK, WorksOn, At, Goes, MainSame, clients, mainLoc, Raced, MainPCs, Dropping
<1>1. CASE EpollWait
  <2> USE <1>1 DEF EpollWait
  <2>1. batch' \in Seq(Fds \cup {Listen})
    BY ReadyFinite, OrdersType
  <2> QED
    BY <2>1
<1>2. CASE NextEvent
  <2> USE <1>2 DEF NextEvent
  <2>1. CASE batch = <<>>
    BY <2>1
  <2>2. CASE batch # <<>>
    <3>1. Head(batch) \in Fds \cup {Listen} /\ Tail(batch) \in Seq(Fds \cup {Listen})
      BY <2>2
    <3> QED
      BY <2>2, <3>1
  <2> QED
    BY <2>1, <2>2
<1>3. CASE AcceptTcpConnection
  <2> USE <1>3 DEF AcceptTcpConnection
  <2>1. Head(backlog) \in made /\ Tail(backlog) \in Seq(made)
    OBVIOUS
  <2>2. files' \in [Fds -> made \cup {NoConn}] /\ port' \in Fds \cup {NoFd}
    <3>1. CASE UNCHANGED <<files, port>>
      BY <3>1
    <3>2. CASE /\ port' \in Fds
               /\ files' = [files EXCEPT ![port'] = Head(backlog)]
      BY <2>1, <3>2
    <3> QED
      BY <3>1, <3>2
  <2>3. backlog' \in Seq(made)
    <3>1. backlog' \in {backlog, Tail(backlog)}
      OBVIOUS
    <3> QED
      BY <2>1, <3>1
  <2>4. pc' \in [main : MainPCs, sender : SenderPCs] /\ (At("main", "add")' => port' \in Fds)
    OBVIOUS
  <2> QED
    BY <2>2, <2>3, <2>4
<1>4. CASE EpollAdd
  BY <1>4 DEF EpollAdd, SenderPCs
<1>5. CASE OldClient
  BY <1>5 DEF OldClient, DropOld
<1>6. CASE ServeNew
  BY <1>6 DEF ServeNew
<1>7. CASE ReadCommand
  <2> USE <1>7 DEF ReadCommand
  <2>1. CASE Recv
    <3>1. ev \in Fds /\ files[ev] \in Conns
      BY <2>1 DEF Recv, Arrived
    <3>2. /\ read' \in [Conns -> Nat] /\ \A c \in Conns : read'[c] <= wrote[c]
          /\ Half \in Halves
      BY <2>1, <3>1 DEF Recv, Arrived, Half, Halves
    <3>3. CASE At("main", "read")
      BY <2>1, <3>2, <3>3 DEF Recv
    <3>4. CASE At("main", "rest")
      <4>1. executed' \in Halves \X Halves
        BY <2>1, <3>2, <3>4 DEF Recv
      <4> QED
        BY <2>1, <3>2, <3>4, <4>1 DEF Recv
    <3> QED
      BY <3>3, <3>4
  <2>2. CASE ~Recv
    BY <2>2 DEF ReadFails
  <2> QED
    BY <2>1, <2>2
<1>8. CASE MainDisconnect
  <2>1. /\ files' \in [Fds -> made \cup {NoConn}] /\ interest' \subseteq Fds
        /\ gTcpConnectedPort' \in Fds \cup {NoFd}
        /\ \E l \in {"close", "reset", after} : Goes("main", l)
        /\ pc["main"] \in Dropping
    BY <1>8, TDisconnect DEF MainDisconnect
  <2> QED
    BY <1>8, <2>1 DEF MainDisconnect
<1> QED
  BY <1>1, <1>2, <1>3, <1>4, <1>5, <1>6, <1>7, <1>8 DEF Main

LEMMA TSender ==
  ASSUME TInv, Sender, Raced PROVE TInv'
<1> USE DEF TInv, TypeOK, WorksOn, At, Goes, SenderSame, clients, mainLoc, Raced, SenderPCs, Dropping
<1>1. CASE SendTest
  BY <1>1 DEF SendTest
<1>2. CASE SendArg
  BY <1>2 DEF SendArg
<1>3. CASE TcpSendImageAsJpeg
  BY <1>3 DEF TcpSendImageAsJpeg, Sends, SendFails
<1>4. CASE SenderDisconnect
  <2>1. /\ files' \in [Fds -> made \cup {NoConn}] /\ interest' \subseteq Fds
        /\ gTcpConnectedPort' \in Fds \cup {NoFd}
        /\ \E l \in {"close", "reset", "idle"} : Goes("sender", l)
    BY <1>4, TDisconnect DEF SenderDisconnect
  <2> QED
    BY <1>4, <2>1 DEF SenderDisconnect
<1> QED
  BY <1>1, <1>2, <1>3, <1>4 DEF Sender

(***************************************************************************)
(* What is open and what is watched at every step of a change, as long as  *)
(* only one thread changes the connection.                                 *)
(***************************************************************************)
Both(S) == Opened = S /\ interest = S

SenderView == Both(IF At("sender", "reset") THEN {} ELSE Served)

Replacing == pc.main \in Dropping /\ after = "set"
Leaving   == pc.main \in Dropping /\ after = "next"

MainView ==
  /\ At("main", "add") => Opened = Served \cup {port} /\ interest = Served
  /\ At("main", "old") => Both(Served \cup {port})
  /\ Replacing /\ ~At("main", "reset") => Opened = Served \cup {port} /\ interest = {port}
  /\ Replacing /\ At("main", "reset") => Both({port})
  /\ At("main", "set") => Both({port}) /\ gTcpConnectedPort = NoFd
  /\ Leaving /\ ~At("main", "reset") => Opened = Served /\ interest \subseteq Served
  /\ Leaving /\ At("main", "reset") => Both({})
  /\ At("main", "add") \/ At("main", "old") \/ (Replacing /\ ~At("main", "reset"))
       => port # gTcpConnectedPort

SInv ==
  ~raced => /\ ~(MainChanges /\ SenderChanges)
            /\ ~MainChanges => SenderView
            /\ MainChanges => MainView

\* A race, once noted, stays noted.
LEMMA RacedStays ==
  ASSUME Raced, ~raced'
  PROVE  ~raced /\ ~(MainChanges' /\ SenderChanges')
  BY DEF Raced

\* Closing the descriptor that is served takes it out of both sets.
LEMMA CloseServed ==
  ASSUME TypeOK, CloseTcpConnectedPort
  PROVE  Opened' = Opened \ Served /\ interest' = interest \ Served
<1> USE DEF CloseTcpConnectedPort, Close, Opened, Served, TypeOK
<1>1. CASE gTcpConnectedPort = NoFd
  BY <1>1
<1>2. CASE gTcpConnectedPort # NoFd
  <2>1. files'[gTcpConnectedPort] = NoConn
    BY <1>2
  <2>2. \A f \in Fds \ {gTcpConnectedPort} : files'[f] = files[f]
    BY <1>2
  <2> QED
    BY <1>2, <2>1, <2>2
<1> QED
  BY <1>1, <1>2

LEMMA SInit == Init => SInv
  BY DEF Init, SInv, MainChanges, SenderChanges, Dropping, SenderView, Both, Opened, Served, At

\* The clients touch neither set.
LEMMA SClients ==
  ASSUME SInv, NEW c \in Conns, Connect(c) \/ Write(c) \/ End(c), Raced PROVE SInv'
<1>1. UNCHANGED <<files, interest, gTcpConnectedPort, pc, port, after>>
  BY DEF Connect, Write, End, ServerSame, mainLoc
<1> QED
  BY <1>1, RacedStays DEF SInv, MainChanges, SenderChanges, SenderView, MainView, Replacing,
       Leaving, Both, Opened, Served, At, Dropping

LEMMA SMain ==
  ASSUME TInv, SInv, Main, Raced PROVE SInv'
<1> SUFFICES ASSUME ~raced'
             PROVE  /\ MainChanges' => MainView'
                    /\ ~MainChanges' => SenderView'
  BY RacedStays DEF SInv
<1>0. /\ ~raced /\ ~(MainChanges' /\ SenderChanges') /\ ~(MainChanges /\ SenderChanges)
      /\ ~MainChanges => SenderView
      /\ MainChanges => MainView
  BY RacedStays DEF SInv
<1>t. /\ pc \in [main : MainPCs, sender : SenderPCs] /\ interest \subseteq Fds
      /\ WorksOn /\ TypeOK /\ after \in {"next", "set"}
      /\ gTcpConnectedPort \in Fds \cup {NoFd}
  BY DEF TInv, TypeOK
<1> USE <1>0, <1>t DEF MainChanges, SenderChanges, At, Goes, Dropping, MainSame, mainLoc, MainPCs
<1>1. CASE EpollWait
  BY <1>1 DEF EpollWait, SenderView, Both, Opened, Served
<1>2. CASE NextEvent
  BY <1>2 DEF NextEvent, SenderView, Both, Opened, Served
<1>3. CASE AcceptTcpConnection
  <2> USE <1>3 DEF AcceptTcpConnection
  <2>1. CASE UNCHANGED <<files, port>> /\ Goes("main", "next")
    BY <2>1 DEF SenderView, Both, Opened, Served
  <2>2. CASE /\ port' \in Fds \ Opened /\ Goes("main", "add")
             /\ files' = [files EXCEPT ![port'] = Head(backlog)]
    <3>1. Head(backlog) # NoConn
      BY ConnectionAssumption DEF TypeOK
    <3>2. Opened' = Opened \cup {port'}
      BY <2>2, <3>1 DEF Opened, TypeOK
    <3>3. Both(Served)
      BY <2>2 DEF SenderView
    <3>4. Served' = Served
      BY DEF Served
    <3> QED
      BY <2>2, <3>2, <3>3, <3>4, ConnectionAssumption DEF MainView, Both, Replacing, Leaving, Served
  <2> QED
    BY <2>1, <2>2
<1>4. CASE EpollAdd
  <2>1. files[port] # NoConn
    BY <1>4 DEF EpollAdd, MainView, Opened
  <2> QED
    BY <1>4, <2>1 DEF EpollAdd, MainView, Both, Opened, Served, Replacing, Leaving
<1>5. CASE OldClient
  BY <1>5 DEF OldClient, DropOld, MainView, Both, Opened, Served, Replacing, Leaving
<1>6. CASE ServeNew
  BY <1>6, ConnectionAssumption DEF ServeNew, MainView, SenderView, Both, Opened, Served, WorksOn
<1>7. CASE ReadCommand
  BY <1>7 DEF ReadCommand, ReadFails, MainView, SenderView, Both, Opened, Served, Replacing, Leaving
<1>8. CASE MainDisconnect
  <2> USE <1>8 DEF MainDisconnect, DisconnectClient
  <2>1. CASE At("main", "test")
    BY <2>1 DEF MainView, Both, Opened, Served, Replacing, Leaving
  <2>2. CASE At("main", "close")
    <3>1. Opened' = Opened \ Served /\ interest' = interest \ Served
      BY <2>2, CloseServed
    <3> QED
      BY <2>2, <3>1 DEF MainView, Both, Served, Replacing, Leaving
  <2>3. CASE At("main", "reset")
    BY <2>3 DEF MainView, SenderView, Both, Opened, Served, Replacing, Leaving
  <2> QED
    BY <2>1, <2>2, <2>3
<1> QED
  BY <1>1, <1>2, <1>3, <1>4, <1>5, <1>6, <1>7, <1>8 DEF Main

LEMMA SSender ==
  ASSUME TInv, SInv, Sender, Raced PROVE SInv'
<1> SUFFICES ASSUME ~raced'
             PROVE  /\ MainChanges' => MainView'
                    /\ ~MainChanges' => SenderView'
  BY RacedStays DEF SInv
<1>0. /\ ~raced /\ ~(MainChanges' /\ SenderChanges') /\ ~(MainChanges /\ SenderChanges)
      /\ ~MainChanges => SenderView
      /\ MainChanges => MainView
  BY RacedStays DEF SInv
<1>t. /\ pc \in [main : MainPCs, sender : SenderPCs] /\ interest \subseteq Fds /\ TypeOK
  BY DEF TInv, TypeOK
<1>m. pc'.main = pc.main /\ UNCHANGED <<port, after>>
  BY <1>t DEF Sender, SendTest, SendArg, TcpSendImageAsJpeg, SendFails, SenderDisconnect,
       DisconnectClient, Goes, SenderSame, mainLoc
<1> USE <1>0, <1>t, <1>m DEF MainChanges, SenderChanges, At, Goes, Dropping, SenderPCs
<1>1. CASE SendTest \/ SendArg \/ TcpSendImageAsJpeg
  <2>1. UNCHANGED <<files, interest, gTcpConnectedPort>> /\ pc'.sender # "reset" /\ pc.sender # "reset"
    BY <1>1 DEF SendTest, SendArg, TcpSendImageAsJpeg, SendFails
  <2> QED
    BY <2>1 DEF MainView, SenderView, Both, Opened, Served, Replacing, Leaving
<1>2. CASE SenderDisconnect
  <2> USE <1>2 DEF SenderDisconnect, DisconnectClient
  <2>0. ~MainChanges /\ ~MainChanges'
    OBVIOUS
  <2>1. CASE At("sender", "test")
    BY <2>0, <2>1 DEF SenderView, Both, Opened, Served
  <2>2. CASE At("sender", "close")
    <3>1. Opened' = Opened \ Served /\ interest' = interest \ Served
      BY <2>2, CloseServed
    <3> QED
      BY <2>0, <2>2, <3>1 DEF SenderView, Both
  <2>3. CASE At("sender", "reset")
    BY <2>0, <2>3 DEF SenderView, Both, Opened, Served
  <2> QED
    BY <2>1, <2>2, <2>3
<1> QED
  BY <1>1, <1>2 DEF Sender

(***************************************************************************)
(* Where half a command has been read: only behind the descriptor the main *)
(* thread is reading, or behind one that is never read again.              *)
(***************************************************************************)
Distinct(s)   == \A i, j \in 1 .. Len(s) : s[i] = s[j] => i = j
Among(x, s)   == \E i \in 1 .. Len(s) : s[i] = x
Halfway(f)    == files[f] # NoConn /\ read[files[f]] % 2 = 1

OneEach ==
  /\ \A f, g \in Fds : files[f] # NoConn /\ files[f] = files[g] => f = g
  /\ Distinct(backlog)
  /\ \A f \in Fds : ~Among(files[f], backlog)
  /\ \A c \in Conns : c \notin made \/ Among(c, backlog) => read[c] = 0

EventsDistinct ==
  /\ Distinct(batch)
  /\ At("main", "read") \/ At("main", "rest") => ~Among(ev, batch)

HalfwayApart ==
  /\ \A f \in Fds : Halfway(f) => \/ At("main", "rest") /\ f = ev
                                  \/ f \notin interest /\ ~Among(f, batch)
  /\ At("main", "read") => ~Halfway(ev)
  /\ At("main", "add") => ~Halfway(port)
  /\ At("main", "rest") =>
       /\ first[2] % 2 = 1
       /\ files[ev] # NoConn => first = <<files[ev], read[files[ev]]>>

RInv == OneEach /\ EventsDistinct /\ HalfwayApart /\ CommandWhole

\* The tail of a sequence without repetition has none, and has lost the head.
LEMMA TailDistinct ==
  ASSUME NEW S, NEW s \in Seq(S), s # <<>>, Distinct(s)
  PROVE  /\ Distinct(Tail(s)) /\ ~Among(Head(s), Tail(s)) /\ Among(Head(s), s)
         /\ \A x : Among(x, Tail(s)) => Among(x, s)
<1>1. /\ Len(s) \in Nat \ {0} /\ Len(Tail(s)) = Len(s) - 1 /\ Head(s) = s[1]
      /\ \A i \in 1 .. Len(Tail(s)) : Tail(s)[i] = s[i + 1]
  OBVIOUS
<1> QED
  BY <1>1 DEF Distinct, Among

\* A new last element keeps a sequence distinct.
LEMMA AppendDistinct ==
  ASSUME NEW S, NEW s \in Seq(S), NEW c, Distinct(s), ~Among(c, s)
  PROVE  /\ Distinct(Append(s, c))
         /\ \A x : Among(x, Append(s, c)) => x = c \/ Among(x, s)
<1>1. /\ Len(s) \in Nat /\ Len(Append(s, c)) = Len(s) + 1 /\ Append(s, c)[Len(s) + 1] = c
      /\ \A i \in 1 .. Len(s) : Append(s, c)[i] = s[i]
  OBVIOUS
<1> QED
  BY <1>1 DEF Distinct, Among

\* Each ready descriptor is reported once.
LEMMA OrdersDistinct ==
  ASSUME NEW S, IsFiniteSet(S), NEW s \in Orders(S)
  PROVE  Distinct(s) /\ \A x : Among(x, s) => x \in S
<1>1. Cardinality(S) \in Nat
  BY FS_CardinalityType
<1>2. Len(s) = Cardinality(S) /\ s \in [1 .. Cardinality(S) -> S]
  BY <1>1 DEF Orders
<1> QED
  BY <1>1, <1>2 DEF Orders, Distinct, Among, IsInjective

LEMMA RInit == Init => RInv
  BY ConnectionAssumption DEF Init, RInv, OneEach, EventsDistinct, HalfwayApart, CommandWhole,
       Distinct, Among, Halfway, At

\* A client that connects is in the backlog only, with nothing read from it.
LEMMA RClients ==
  ASSUME TInv, RInv, NEW c \in Conns, Connect(c) \/ Write(c) \/ End(c), Raced PROVE RInv'
<1>1. UNCHANGED <<files, interest, read, pc, batch, ev, port, first, executed>>
  BY DEF Connect, Write, End, ServerSame, mainLoc
<1>2. OneEach'
  <2>1. CASE Connect(c)
    <3>1. ~Among(c, backlog) /\ \A f \in Fds : files[f] # c
      BY <2>1, ConnectionAssumption DEF Connect, Among, TInv, TypeOK
    <3>2. /\ backlog' = Append(backlog, c) /\ Distinct(backlog')
          /\ \A x : Among(x, backlog') => x = c \/ Among(x, backlog)
      BY <2>1, <3>1, AppendDistinct DEF Connect, RInv, OneEach, TInv, TypeOK
    <3> QED
      BY <1>1, <2>1, <3>1, <3>2 DEF Connect, RInv, OneEach
  <2>2. CASE UNCHANGED <<made, backlog>>
    BY <1>1, <2>2 DEF RInv, OneEach, Among, Distinct
  <2> QED
    BY <2>1, <2>2 DEF Write, End
<1> QED
  BY <1>1, <1>2 DEF RInv, EventsDistinct, HalfwayApart, CommandWhole, Distinct, Among, Halfway, At

\* Closing a descriptor and taking it out of the set leaves fewer clients to read.
LEMMA RClose ==
  ASSUME TInv, RInv, NEW th \in {"main", "sender"}, NEW done, DisconnectClient(th, done),
         UNCHANGED <<made, backlog, read, batch, ev, port, first, executed>>
  PROVE  /\ OneEach'
         /\ \A f \in Fds : files'[f] \in {files[f], NoConn}
         /\ interest' \subseteq interest
<1>1. \A f \in Fds : files'[f] \in {files[f], NoConn}
  BY DEF DisconnectClient, CloseTcpConnectedPort, Close, TInv, TypeOK
<1>2. interest' \subseteq interest
  BY DEF DisconnectClient, CloseTcpConnectedPort, Close
<1>3. ~Among(NoConn, backlog)
  BY ConnectionAssumption DEF Among, TInv, TypeOK
<1>4. OneEach'
  BY <1>1, <1>3 DEF RInv, OneEach, Among, Distinct
<1> QED
  BY <1>1, <1>2, <1>4

LEMMA RSender ==
  ASSUME TInv, RInv, Sender, Raced PROVE RInv'
<1>1. /\ UNCHANGED <<made, backlog, read, batch, ev, port, first, executed>>
      /\ pc'.main = pc.main
  BY DEF Sender, SendTest, SendArg, TcpSendImageAsJpeg, SendFails, SenderDisconnect, Goes,
       DisconnectClient, SenderSame, clients, mainLoc, TInv, TypeOK
<1>2. /\ OneEach' /\ interest' \subseteq interest
      /\ \A f \in Fds : files'[f] \in {files[f], NoConn}
  <2>1. CASE SenderDisconnect
    BY <1>1, <2>1, RClose DEF SenderDisconnect
  <2>2. CASE UNCHANGED <<files, interest>>
    BY <1>1, <2>2 DEF RInv, OneEach, Among, Distinct
  <2> QED
    BY <2>1, <2>2 DEF Sender, SendTest, SendArg, TcpSendImageAsJpeg
<1>3. \A f \in Fds : Halfway(f)' => Halfway(f) /\ files'[f] = files[f]
  BY <1>1, <1>2 DEF Halfway
<1>4. HalfwayApart'
  BY <1>1, <1>2, <1>3 DEF RInv, HalfwayApart, At, Among, TInv, WorksOn
<1> QED
  BY <1>1, <1>2, <1>4 DEF RInv, EventsDistinct, CommandWhole, At, Among, Distinct

LEMMA RMain ==
  ASSUME TInv, RInv, Main, Raced PROVE RInv'
<1>t. /\ pc \in [main : MainPCs, sender : SenderPCs] /\ TypeOK /\ WorksOn
  BY DEF TInv, TypeOK
<1>r. OneEach /\ EventsDistinct /\ HalfwayApart /\ CommandWhole
  BY DEF RInv
<1> USE <1>t, <1>r DEF At, Goes, MainSame, clients, mainLoc, MainPCs, RInv
<1>1. CASE EpollWait
  <2> USE <1>1 DEF EpollWait
  <2>1. Distinct(batch') /\ \A x : Among(x, batch') => x \in Ready
    BY ReadyFinite, OrdersDistinct
  <2>2. \A f \in Fds : Among(f, batch') => f \in interest
    BY <2>1, ConnectionAssumption DEF Ready
  <2>3. OneEach' /\ CommandWhole'
    BY DEF OneEach, CommandWhole, Among, Distinct
  <2>4. EventsDistinct'
    BY <2>1 DEF EventsDistinct
  <2>5. HalfwayApart'
    BY <2>2 DEF HalfwayApart, Halfway
  <2> QED
    BY <2>3, <2>4, <2>5
<1>2. CASE NextEvent
  <2> USE <1>2 DEF NextEvent
  <2>1. OneEach' /\ CommandWhole'
    BY DEF OneEach, CommandWhole, Among, Distinct
  <2>2. CASE batch = <<>>
    BY <2>1, <2>2 DEF EventsDistinct, HalfwayApart, Halfway, Among, Distinct
  <2>3. CASE batch # <<>>
    <3>1. /\ Distinct(batch') /\ ~Among(ev', batch') /\ Among(ev', batch)
          /\ \A x : Among(x, batch') => Among(x, batch)
      BY <2>3, TailDistinct DEF TypeOK, EventsDistinct
    <3>2. EventsDistinct'
      BY <3>1 DEF EventsDistinct
    <3>3. ev' \in Fds => ~Halfway(ev')
      BY <3>1 DEF HalfwayApart
    <3>4. HalfwayApart'
      BY <2>3, <3>1, <3>3, ConnectionAssumption DEF HalfwayApart, Halfway, TypeOK
    <3> QED
      BY <2>1, <3>2, <3>4
  <2> QED
    BY <2>2, <2>3
<1>3. CASE AcceptTcpConnection
  <2> USE <1>3 DEF AcceptTcpConnection
  <2>1. /\ Distinct(Tail(backlog)) /\ ~Among(Head(backlog), Tail(backlog))
        /\ Among(Head(backlog), backlog) /\ Head(backlog) \in Conns
        /\ \A x : Among(x, Tail(backlog)) => Among(x, backlog)
    BY TailDistinct DEF TypeOK, OneEach
  <2>2. CASE UNCHANGED <<files, port>> /\ Goes("main", "next")
    <3>1. backlog' = backlog \/ backlog' = Tail(backlog)
      BY <2>2
    <3>2. OneEach'
      BY <2>1, <2>2, <3>1 DEF OneEach
    <3> QED
      BY <2>2, <3>2 DEF EventsDistinct, HalfwayApart, CommandWhole, Halfway, Among, Distinct
  <2>3. CASE /\ port' \in Fds \ Opened /\ Goes("main", "add") /\ backlog' = Tail(backlog)
             /\ files' = [files EXCEPT ![port'] = Head(backlog)]
    <3>1. /\ files'[port'] = Head(backlog)
          /\ \A f \in Fds \ {port'} : files'[f] = files[f]
      BY <2>3 DEF TypeOK
    <3>2. read[Head(backlog)] = 0
      BY <2>1 DEF OneEach
    <3>3. OneEach'
      BY <2>1, <2>3, <3>1 DEF OneEach
    <3>4. HalfwayApart'
      BY <2>3, <3>1, <3>2 DEF HalfwayApart, Halfway, Among
    <3> QED
      BY <2>3, <3>3, <3>4 DEF EventsDistinct, CommandWhole, Among, Distinct
  <2> QED
    BY <2>2, <2>3
<1>4. CASE EpollAdd
  BY <1>4 DEF EpollAdd, OneEach, EventsDistinct, HalfwayApart, CommandWhole, Halfway, Among, Distinct
<1>5. CASE OldClient
  BY <1>5 DEF OldClient, DropOld, OneEach, EventsDistinct, HalfwayApart, CommandWhole, Halfway,
       Among, Distinct
<1>6. CASE ServeNew
  BY <1>6 DEF ServeNew, OneEach, EventsDistinct, HalfwayApart, CommandWhole, Halfway, Among, Distinct
<1>7. CASE ReadCommand
  <2> USE <1>7 DEF ReadCommand
  <2>1. CASE ~Arrived
    BY <2>1 DEF Recv, ReadFails, OneEach, EventsDistinct, HalfwayApart, CommandWhole, Halfway,
         Among, Distinct, WorksOn
  <2>2. CASE Arrived
    <3>1. /\ ev \in Fds /\ files[ev] \in Conns /\ files[ev] \in made /\ read[files[ev]] \in Nat
          /\ ~Among(files[ev], backlog)
      BY <2>2 DEF Arrived, WorksOn, TypeOK, OneEach
    <3>2. /\ read'[files[ev]] = read[files[ev]] + 1
          /\ \A c \in Conns \ {files[ev]} : read'[c] = read[c]
      BY <2>2, <3>1 DEF Recv, TypeOK
    <3>3. OneEach'
      BY <3>1, <3>2 DEF OneEach, Among, Distinct
    <3>4. \A f \in Fds \ {ev} : Halfway(f)' => Halfway(f)
      BY <3>1, <3>2 DEF Halfway, OneEach, TypeOK
    <3>5. CASE At("main", "read")
      <4>1. first' = <<files[ev], read[files[ev]] + 1>> /\ (read[files[ev]] + 1) % 2 = 1
        <5>1. first' = <<files[ev], read[files[ev]] + 1>>
          BY <2>2, <3>5 DEF Half
        <5>2. read[files[ev]] % 2 # 1
          BY <3>1, <3>5, ConnectionAssumption DEF HalfwayApart, Halfway
        <5> QED
          BY <3>1, <5>1, <5>2
      <4>2. HalfwayApart'
        BY <2>2, <3>1, <3>2, <3>4, <3>5, <4>1 DEF HalfwayApart, Among
      <4> QED
        BY <2>2, <3>3, <3>5, <4>2 DEF EventsDistinct, CommandWhole, Among, Distinct
    <3>6. CASE At("main", "rest")
      <4>1. /\ first = <<files[ev], read[files[ev]]>> /\ read[files[ev]] % 2 = 1
            /\ executed' = <<first, <<files[ev], read[files[ev]] + 1>>>>
        BY <2>2, <3>1, <3>6 DEF Half, HalfwayApart, Arrived
      <4>2. ~Halfway(ev)'
        BY <3>1, <3>2, <4>1 DEF Halfway
      <4>3. HalfwayApart'
        BY <2>2, <3>1, <3>4, <3>6, <4>2 DEF HalfwayApart, Among
      <4>4. CommandWhole'
        BY <4>1 DEF CommandWhole
      <4> QED
        BY <2>2, <3>3, <3>6, <4>3, <4>4 DEF EventsDistinct, Among, Distinct
    <3> QED
      BY <2>2, <3>5, <3>6
  <2> QED
    BY <2>1, <2>2
<1>8. CASE MainDisconnect
  <2> USE <1>8 DEF MainDisconnect
  <2>1. /\ OneEach' /\ interest' \subseteq interest
        /\ \A f \in Fds : files'[f] \in {files[f], NoConn}
    BY RClose
  <2>2. pc.main \in Dropping /\ pc'.main \in {"close", "reset", "next", "set"}
    BY DEF DisconnectClient, Dropping, TypeOK
  <2>3. HalfwayApart'
    BY <2>1, <2>2 DEF HalfwayApart, Halfway, Among, Dropping
  <2> QED
    BY <2>1, <2>2, <2>3 DEF EventsDistinct, CommandWhole, Among, Distinct
<1> QED
  BY <1>1, <1>2, <1>3, <1>4, <1>5, <1>6, <1>7, <1>8 DEF Main

-----------------------------------------------------------------------------

IInv == TInv /\ SInv /\ RInv

LEMMA IInvStep ==
  ASSUME IInv, [Next]_vars PROVE IInv'
<1>1. CASE UNCHANGED vars
  BY <1>1 DEF IInv, TInv, TypeOK, WorksOn, SInv, MainChanges, SenderChanges, SenderView, MainView,
       Replacing, Leaving, Both, Opened, Served, At, RInv, OneEach,
       EventsDistinct, HalfwayApart, CommandWhole, Distinct, Among, Halfway, vars, clients, mainLoc
<1>2. ASSUME NEW c \in Conns, Connect(c) \/ Write(c) \/ End(c), Raced PROVE IInv'
  BY <1>2, TClients, SClients, RClients DEF IInv
<1>3. CASE Main /\ Raced
  BY <1>3, TMain, SMain, RMain DEF IInv
<1>4. CASE Sender /\ Raced
  BY <1>4, TSender, SSender, RSender DEF IInv
<1> QED
  BY <1>1, <1>2, <1>3, <1>4 DEF Next

LEMMA Invariant == Spec => []IInv
<1>1. Init => IInv
  BY TInit, SInit, RInit DEF IInv
<1>2. IInv /\ [Next]_vars => IInv'
  BY IInvStep
<1> QED
  BY <1>1, <1>2, PTL DEF Spec

\* Every variable keeps its type: what the threads read, close and serve is a
\* descriptor of a client, or -1 where the code tests for it.
THEOREM ConnectionTypes == Spec => []TypeOK
<1>1. IInv => TypeOK
  BY DEF IInv, TInv
<1> QED
  BY <1>1, Invariant, PTL

\* As long as the two threads never change the connection at once, the one open
\* descriptor is the client's and it is watched (camera_face_recognition,
\* handle_client_msg, diconnect_client).
THEOREM ConnectionServed == Spec => []ServedConsistent
<1>1. IInv => ServedConsistent
  BY DEF IInv, SInv, ServedConsistent, SenderView, Both, SenderChanges, Dropping, At
<1> QED
  BY <1>1, Invariant, PTL

\* No command is put together from the bytes of two clients or out of step with
\* them, whatever is closed while its halves are read (handle_client_msg,
\* ReadDataTcp).
THEOREM CommandsWhole == Spec => []CommandWhole
<1>1. IInv => CommandWhole
  BY DEF IInv, RInv
<1> QED
  BY <1>1, Invariant, PTL
=============================================================================
