------------------------- MODULE BlatherFlowProofs -------------------------
(***************************************************************************)
(* The flow of messages through the server, proved for every number of     *)
(* clients and every capacity: what can be in a FIFO, whose message is     *)
(* being handled, and which data_ready flags still tell the truth after    *)
(* others have been handled.                                               *)
(***************************************************************************)
EXTENDS BlatherJoinProofs

-----------------------------------------------------------------------------
(* Where the server is *)

\* The message of the client in slot idx is being handled.
Handling == pc \in {"bcast", "unlink"} /\ mesg.kind \in {"MESG", "DEPARTED"}

\* The loop variables are at their start outside their loops.
Loops ==
    /\ pc \in {"start", "loop", "poll", "join"} => idx = 1
    /\ pc = "bcast" /\ mesg.kind \in {"JOINED", "SHUTDOWN"} => idx = 1
    /\ pc # "bcast" => next = 1
    /\ Handling => idx <= Len(client)

\* A message is there while it is broadcast and while its consequences are drawn.
Messages ==
    /\ pc = "unlink" => mesg.kind \in {"DEPARTED", "SHUTDOWN"}
    /\ pc \notin {"bcast", "unlink"} => mesg = NoMesg
    /\ mesg.kind = "SHUTDOWN" => mesg = NoMesg

\* The join FIFO has a reader from server_start to server_shutdown, and holds
\* nothing without one.
JoinFifo ==
    /\ (joinFile = "live") <=> (pc # "start" /\ ~Closing)
    /\ joinFile # "live" => joinQ = <<>>
    /\ pc = "start" => client = <<>>

\* Every slot has the name of a process.
NamesOwned ==
    \A i \in 1 .. Len(client) : \E c \in Clients : client[i].name = NameOf[c]

PhaseInv == Loops /\ Messages /\ JoinFifo /\ NamesOwned

\* What a step does to the control of the server is visible in few variables.
LEMMA PhaseClient ==
    ASSUME PhaseInv, UNCHANGED server, joinFile' = joinFile,
           joinQ' = joinQ \/ joinFile = "live"
    PROVE  Loops' /\ Messages' /\ JoinFifo'
BY DEF server, PhaseInv, Loops, Messages, JoinFifo, Closing, Handling

\* A client writes to the join FIFO only when it has a reader.
LEMMA ClientJoinFifo ==
    ASSUME NEW c \in Clients, ClientStep(c)
    PROVE  joinFile' = joinFile /\ (joinQ' = joinQ \/ joinFile = "live")
BY DEF ClientStep, Progress, Setup, MkfifoToClient, OpenToClient, MkfifoToServer,
   OpenToServer, Mkfifo, OpenOwn, Join, Send, EndOfInput, Depart, Exit, Recv,
   RecvFails, Kill, Release, fifos

\* Names come with admitted processes.
LEMMA NamesOwnedStep ==
    ASSUME DescriptorInv, NamesOwned, [Next]_vars
    PROVE  NamesOwned'
<1>t. TypeOK /\ client \in Seq(Entry)
  BY DEF DescriptorInv, TypeOK, ServerTypeOK
<1>1. CASE RemoveDeparted \/ ShutdownRemove
  BY <1>1, ShiftSlots DEF NamesOwned, SameSlot
<1>2. CASE ~HandleJoin /\ ~RemoveDeparted /\ ~ShutdownRemove
  BY <1>2, <1>t, SlotsSame DEF NamesOwned, SameSlots, SameSlot
<1>3. CASE HandleJoin
  <2>1. CASE UNCHANGED <<client, fds>>
    BY <2>1 DEF NamesOwned
  <2>2. ASSUME NEW e \in Entry, Added(e, Head(joinQ))
        PROVE  NamesOwned'
    <3>1. client' = Append(client, e) /\ e.name = NameOf[Head(joinQ)] /\ Head(joinQ) \in Clients
      BY <1>3, <2>2, JoinSlots DEF Added
    <3>2. \A i \in 1 .. Len(client') :
            (i \in 1 .. Len(client) /\ client'[i] = client[i]) \/ client'[i] = e
      BY <1>t, <3>1
    <3> QED
      BY <3>1, <3>2 DEF NamesOwned
  <2> QED
    BY <1>3, <2>1, <2>2, JoinSlots
<1> QED
  BY <1>1, <1>2, <1>3

\* PhaseInv is kept by every step.
LEMMA PhaseStep ==
    ASSUME DescriptorInv, PhaseInv, [Next]_vars
    PROVE  PhaseInv'
<1>t. /\ TypeOK /\ client \in Seq(Entry) /\ idx \in Nat \ {0} /\ next \in Nat \ {0}
      /\ Len(client) \in Nat
  BY DEF DescriptorInv, TypeOK, ServerTypeOK
<1>n. NoMesg.kind = "SHUTDOWN"
  BY DEF NoMesg
<1> USE DEF PhaseInv, Loops, Messages, JoinFifo, Closing, Handling
<1>1. CASE UNCHANGED vars \/ \E c \in Clients : ClientStep(c)
  BY <1>1, PhaseClient, ClientJoinFifo, ClientLeavesServer, NamesOwnedStep DEF vars, fifos
<1>2. CASE ServerStart \/ NextRound \/ SkipJoin \/ SkipClient \/ EndScan
  BY <1>2, <1>t, <1>n, NamesOwnedStep DEF ServerStart, NextRound, SkipJoin, SkipClient, EndScan, fifos
<1>3. CASE ShutdownStart
  BY <1>3, <1>n, NamesOwnedStep DEF ShutdownStart, StartBroadcast
<1>4. CASE CheckSources
  BY <1>4, <1>t, <1>n, NamesOwnedStep DEF CheckSources, fifos
<1>5. CASE HandleJoin
  BY <1>5, <1>n, NamesOwnedStep DEF HandleJoin, StartBroadcast
<1>6. CASE HandleClient
  BY <1>6, <1>n, <1>t, NamesOwnedStep DEF HandleClient, StartBroadcast
<1>7. CASE WriteOne \/ Signal
  BY <1>7, <1>n, NamesOwnedStep DEF WriteOne, Signal, fifos
<1>8. CASE JoinDone \/ MesgDone \/ ShutdownLoop
  BY <1>8, <1>n, NamesOwnedStep DEF JoinDone, MesgDone, ShutdownLoop, EndBroadcast, fifos
<1>9. CASE DepartClient \/ ShutdownClose
  <2>1. idx \in 1 .. Len(client)
    BY <1>9, <1>t DEF DepartClient, ShutdownClose, EndBroadcast, DescriptorInv, SlotInUse
  <2> QED
    BY <1>9, <1>n, <2>1, NamesOwnedStep DEF DepartClient, ShutdownClose, CloseClient, EndBroadcast
<1>10. CASE RemoveDeparted \/ ShutdownRemove
  BY <1>10, <1>n, NamesOwnedStep DEF RemoveDeparted, ShutdownRemove, UnlinkAndShift
<1>11. CASE ServerExit
  BY <1>11, <1>n, NamesOwnedStep DEF ServerExit
<1> QED
  BY <1>1, <1>2, <1>3, <1>4, <1>5, <1>6, <1>7, <1>8, <1>9, <1>10, <1>11 DEF Next, ServerStep

-----------------------------------------------------------------------------
(* What a step does to a FIFO *)

\* The messages a client process sends.
Sent(c, m) ==
    /\ m \in Mesg
    /\ m.from = c
    /\ \/ m.kind = "MESG" /\ Send(c) /\ m.n = sent[c] + 1
       \/ m.kind = "DEPARTED" /\ Depart(c) /\ m.n = 0

\* A FIFO is read, written or dropped by one process at a time.
BufMove(p) ==
    \/ buf'[p] = buf[p]
    \/ buf'[p] = <<>> /\ ~Opened(p, fds', hand')
    \/ /\ buf[p] # <<>> /\ buf'[p] = Tail(buf[p])
       /\ \/ HandleClient /\ p = PipeAt(client[idx].to_server_fd)
          \/ \E c \in Clients : Recv(c) /\ p = hand[<<"toClient", c>>]
    \/ /\ WriteOne /\ p = PipeAt(client[next].to_client_fd)
       /\ buf'[p] = Append(buf[p], mesg)
    \/ \E c \in Clients, m \in Mesg :
         Sent(c, m) /\ p = hand[<<"toServer", c>>] /\ buf'[p] = Append(buf[p], m)

\* What a client step does to the FIFOs.
LEMMA BufClient ==
    ASSUME TypeOK, NEW c \in Clients, ClientStep(c), NEW p \in Pipe
    PROVE  BufMove(p)
<1>t. buf \in [Pipe -> Seq(Mesg)] /\ hand \in [Pipe -> Pipe \cup {None}] /\ sent[c] \in Nat
  BY DEF TypeOK, FifoTypeOK, ClientTypeOK
<1>1. CASE MkfifoToClient(c) \/ MkfifoToServer(c) \/ OpenToClient(c) \/ OpenToServer(c)
           \/ Join(c) \/ EndOfInput(c)
  BY <1>1 DEF MkfifoToClient, MkfifoToServer, OpenToClient, OpenToServer, Mkfifo, OpenOwn,
     Join, EndOfInput, fifos, BufMove
<1>2. ASSUME NEW m \in Mesg, Sent(c, m), WriteToServer(c, m)
      PROVE  BufMove(p)
  <2>1. CASE buf' = buf
    BY <2>1 DEF BufMove
  <2>2. CASE buf' = [buf EXCEPT ![hand[<<"toServer", c>>]] = Append(@, m)]
    <3>1. CASE p = hand[<<"toServer", c>>]
      <4>1. buf'[p] = Append(buf[p], m)
        BY <1>t, <2>2, <3>1
      <4> QED
        BY <1>2, <3>1, <4>1 DEF BufMove
    <3>2. CASE p # hand[<<"toServer", c>>]
      BY <1>t, <2>2, <3>2 DEF BufMove
    <3> QED
      BY <3>1, <3>2
  <2> QED
    BY <1>2, <2>1, <2>2 DEF WriteToServer
<1>3. CASE Send(c)
  <2> DEFINE m == [kind |-> "MESG", from |-> c, n |-> sent[c] + 1]
  <2>1. m \in Mesg
    BY <1>t DEF Mesg
  <2>2. Sent(c, m)
    BY <1>3, <2>1 DEF Sent
  <2>3. WriteToServer(c, m)
    BY <1>3 DEF Send
  <2> QED
    BY <1>2, <2>1, <2>2, <2>3
<1>4. CASE Depart(c)
  <2> DEFINE m == [kind |-> "DEPARTED", from |-> c, n |-> 0]
  <2>1. m \in Mesg
    BY DEF Mesg
  <2>2. Sent(c, m)
    BY <1>4, <2>1 DEF Sent
  <2>3. WriteToServer(c, m)
    BY <1>4 DEF Depart
  <2> QED
    BY <1>2, <2>1, <2>2, <2>3
<1>5. CASE Exit(c) \/ RecvFails(c) \/ Kill(c)
  <2>1. Release(c, buf)
    BY <1>5 DEF Exit, RecvFails, Kill
  <2>2. fds' = fds /\ buf' = Kept(buf, fds, hand')
    BY <2>1 DEF Release, server
  <2> QED
    BY <2>2 DEF Kept, BufMove
<1>6. CASE Recv(c)
  <2> DEFINE q == hand[<<"toClient", c>>]
             b == [buf EXCEPT ![q] = Tail(@)]
  <2>1. q # None /\ buf[q] # <<>>
    BY <1>6 DEF Recv
  <2>2. buf' = b \/ (fds' = fds /\ buf' = Kept(b, fds, hand'))
    BY <1>6 DEF Recv, Release, server
  <2>3. b[p] = IF p = q THEN Tail(buf[p]) ELSE buf[p]
    BY <1>t
  <2> HIDE DEF b
  <2>4. CASE buf' = b
    BY <1>6, <2>1, <2>3, <2>4 DEF BufMove
  <2>5. CASE fds' = fds /\ buf' = Kept(b, fds, hand')
    <3>1. buf'[p] = IF Opened(p, fds', hand') THEN b[p] ELSE <<>>
      BY <2>5 DEF Kept
    <3> QED
      BY <1>6, <2>1, <2>3, <3>1 DEF BufMove
  <2> QED
    BY <2>2, <2>4, <2>5
<1> QED
  BY <1>1, <1>3, <1>4, <1>5, <1>6 DEF ClientStep, Progress, Setup

\* What any step does to them.
LEMMA BufSteps ==
    ASSUME TypeOK, [Next]_vars, NEW p \in Pipe
    PROVE  BufMove(p)
<1>t. buf \in [Pipe -> Seq(Mesg)]
  BY DEF TypeOK, FifoTypeOK
<1>1. CASE UNCHANGED vars \/ ServerStart \/ NextRound \/ ShutdownStart \/ CheckSources
           \/ SkipJoin \/ HandleJoin \/ SkipClient \/ JoinDone \/ MesgDone \/ EndScan
           \/ ShutdownLoop \/ RemoveDeparted \/ ShutdownRemove \/ Signal
  BY <1>1 DEF vars, ServerStart, NextRound, ShutdownStart, CheckSources, SkipJoin, HandleJoin,
     SkipClient, JoinDone, MesgDone, EndScan, ShutdownLoop, RemoveDeparted, ShutdownRemove,
     UnlinkAndShift, Signal, fifos, BufMove
<1>2. CASE \E c \in Clients : ClientStep(c)
  BY <1>2, BufClient
<1>3. CASE HandleClient
  <2> DEFINE q == PipeAt(client[idx].to_server_fd)
  <2>1. buf' = buf \/ (buf[q] # <<>> /\ buf' = [buf EXCEPT ![q] = Tail(@)])
    BY <1>3 DEF HandleClient
  <2> HIDE DEF q
  <2>2. buf'[p] = buf[p] \/ (p = q /\ buf[p] # <<>> /\ buf'[p] = Tail(buf[p]))
    BY <1>t, <2>1
  <2> QED
    BY <1>3, <2>2 DEF BufMove, q
<1>4. CASE WriteOne
  <2> DEFINE q == PipeAt(client[next].to_client_fd)
  <2>1. buf' = buf \/ buf' = [buf EXCEPT ![q] = Append(@, mesg)]
    BY <1>4 DEF WriteOne
  <2> HIDE DEF q
  <2>2. buf'[p] = buf[p] \/ (p = q /\ buf'[p] = Append(buf[p], mesg))
    BY <1>t, <2>1
  <2> QED
    BY <1>4, <2>2 DEF BufMove, q
<1>5. CASE DepartClient \/ ShutdownClose \/ ServerExit
  <2>1. hand' = hand /\ buf' = Kept(buf, fds', hand)
    BY <1>5 DEF DepartClient, ShutdownClose, CloseClient, ServerExit, procs
  <2> QED
    BY <2>1 DEF Kept, BufMove
<1> QED
  BY <1>1, <1>2, <1>3, <1>4, <1>5 DEF Next, ServerStep

-----------------------------------------------------------------------------
(* Whose messages are in a FIFO, and whose is being handled *)

\* c has written its DEPARTED or has ended.
HasLeft(c) == st[c] \in {"left", "exited", "gone"}

\* A toServer FIFO holds what its client has sent, a DEPARTED only after it left.
ToServerMail ==
    Exact =>
        \A c \in Clients : \A i \in 1 .. Len(buf[<<"toServer", c>>]) :
            LET m == buf[<<"toServer", c>>][i]
            IN  /\ m.from = c
                /\ m.kind \in {"MESG", "DEPARTED"}
                /\ m.kind = "DEPARTED" => HasLeft(c)

\* A toClient FIFO holds a SHUTDOWN only when the server has begun to shut down.
ToClientMail ==
    Exact =>
        \A c \in Clients : \A i \in 1 .. Len(buf[<<"toClient", c>>]) :
            buf[<<"toClient", c>>][i].kind = "SHUTDOWN" => Closing

\* The message being handled is from the client in slot idx, which has left if
\* it says so.
FromSlot ==
    Exact /\ Handling =>
        /\ mesg.from \in Clients
        /\ client[idx].name = NameOf[mesg.from]
        /\ mesg.kind = "DEPARTED" => HasLeft(mesg.from)

MailInv == ToServerMail /\ ToClientMail /\ FromSlot

\* Every name is its process's own where the table is exact.
LEMMA AllUnique == Exact => Distinct /\ \A c \in Clients : Unique(c)
BY DEF Exact, Distinct, Unique

\* Exactness is never regained.
LEMMA ExactOnce == ASSUME [Next]_vars, Exact' PROVE Exact
BY CleanOnce DEF Exact

\* Who has left does not come back.
LEMMA LeftForGood ==
    ASSUME TypeOK, [Next]_vars, NEW c \in Clients, HasLeft(c)
    PROVE  HasLeft(c)'
<1>t. st \in [Clients -> {"new", "mkC", "opC", "mkS", "opS", "in",
                          "leaving", "left", "exited", "gone"}]
  BY DEF TypeOK, ClientTypeOK
<1>1. CASE st'[c] = st[c]
  BY <1>1 DEF HasLeft
<1>2. CASE ClientStep(c)
  BY <1>2, <1>t DEF HasLeft, ClientStep, Progress, Setup, MkfifoToClient, OpenToClient,
     MkfifoToServer, OpenToServer, Join, Advance, Send, EndOfInput, Depart, Exit, Recv,
     RecvFails, Kill, Release, procs
<1> QED
  BY <1>1, <1>2, ProcSteps

\* The server does not reopen.
LEMMA ClosingForGood ==
    ASSUME PhaseInv, [Next]_vars, Closing
    PROVE  Closing'
<1>n. mesg.kind = "SHUTDOWN" => mesg = NoMesg
  BY DEF PhaseInv, Messages
<1>1. CASE UNCHANGED vars \/ \E c \in Clients : ClientStep(c)
  BY <1>1, ClientLeavesServer DEF vars, server, Closing
<1>2. CASE ServerStart \/ NextRound \/ ShutdownStart \/ CheckSources \/ SkipJoin \/ SkipClient
           \/ HandleJoin \/ HandleClient \/ EndScan
  BY <1>2 DEF Closing, ServerStart, NextRound, ShutdownStart, CheckSources, SkipJoin, SkipClient,
     HandleJoin, HandleClient, EndScan
<1>3. CASE WriteOne \/ Signal
  BY <1>3 DEF Closing, WriteOne, Signal
<1>4. CASE JoinDone \/ MesgDone \/ DepartClient \/ RemoveDeparted
  BY <1>4 DEF Closing, JoinDone, MesgDone, DepartClient, RemoveDeparted, EndBroadcast
<1>5. CASE ShutdownLoop \/ ShutdownClose \/ ShutdownRemove \/ ServerExit
  <2>1. ShutdownClose => mesg.kind = "SHUTDOWN"
    BY DEF ShutdownClose, PhaseInv, Messages, NoMesg
  <2> QED
    BY <1>5, <2>1 DEF Closing, ShutdownLoop, ShutdownClose, ShutdownRemove, ServerExit, CloseClient
<1> QED
  BY <1>1, <1>2, <1>3, <1>4, <1>5 DEF Next, ServerStep

\* Where the table is exact, the descriptors of a slot in use lead to the FIFOs
\* of the process that has its name, or nowhere.
LEMMA SlotPipes ==
    ASSUME TableInv, NamesOwned, Exact, NEW i \in Live
    PROVE  \E c \in Clients :
             /\ client[i].name = NameOf[c]
             /\ PipeAt(client[i].to_client_fd) \in {<<"toClient", c>>, None}
             /\ PipeAt(client[i].to_server_fd) \in {<<"toServer", c>>, None}
<1>1. i \in 1 .. Len(client)
  BY DEF Live
<1>2. PICK c \in Clients : client[i].name = NameOf[c]
  BY <1>1 DEF NamesOwned
<1>3. Wired(client[i], c)
  BY <1>2, AllUnique DEF TableInv, SlotsWired, Exact
<1>4. PipeAt(NoFd) = None
  BY LimitsAssumption DEF PipeAt, NoFd, Fd
<1> QED
  BY <1>2, <1>3, <1>4 DEF Wired

\* Clients write to their toServer and read from their toClient FIFO.
LEMMA OwnPipes ==
    ASSUME JoinInv, Exact, NEW c \in Clients
    PROVE  /\ hand[<<"toClient", c>>] \in {<<"toClient", c>>, None}
           /\ hand[<<"toServer", c>>] \in {<<"toServer", c>>, None}
BY AllUnique DEF JoinInv, Held

\* The messages of a shortened or dropped FIFO are among those it held.
LEMMA TailMembers ==
    ASSUME NEW S, NEW q \in Seq(S), q # <<>>
    PROVE  \A i \in 1 .. Len(Tail(q)) : i + 1 \in 1 .. Len(q) /\ Tail(q)[i] = q[i + 1]
OBVIOUS

\* A message appended is the only new one.
LEMMA AppendMembers ==
    ASSUME NEW S, NEW q \in Seq(S), NEW m \in S
    PROVE  \A i \in 1 .. Len(Append(q, m)) :
             (i \in 1 .. Len(q) /\ Append(q, m)[i] = q[i]) \/ Append(q, m)[i] = m
OBVIOUS

\* A broadcast writes to toClient FIFOs only.
LEMMA WriteOnePipe ==
    ASSUME TableInv, NamesOwned, Exact, WriteOne
    PROVE  /\ next \in Live
           /\ \E c \in Clients : /\ client[next].name = NameOf[c]
                                 /\ PipeAt(client[next].to_client_fd) \in {<<"toClient", c>>, None}
<1>1. next \in Live
  BY DEF WriteOne, Live, TableInv, DescriptorInv, TypeOK, ServerTypeOK
<1> QED
  BY <1>1, SlotPipes

\* The server reads from toServer FIFOs only.
LEMMA HandleClientPipe ==
    ASSUME TableInv, NamesOwned, Exact, HandleClient
    PROVE  /\ idx \in Live
           /\ \E c \in Clients : /\ client[idx].name = NameOf[c]
                                 /\ PipeAt(client[idx].to_server_fd) \in {<<"toServer", c>>, None}
<1>1. idx \in Live
  BY DEF HandleClient, Live, TableInv, DescriptorInv, TypeOK, ServerTypeOK
<1> QED
  BY <1>1, SlotPipes

\* The toServer FIFOs keep their mail.
LEMMA ToServerMailStep ==
    ASSUME JoinInv, PhaseInv, MailInv, [Next]_vars
    PROVE  ToServerMail'
<1>t. TypeOK /\ TableInv /\ NamesOwned /\ buf \in [Pipe -> Seq(Mesg)]
  BY DEF JoinInv, TableInv, DescriptorInv, PhaseInv, TypeOK, FifoTypeOK
<1> DEFINE Good(c, m) == m.from = c /\ m.kind \in {"MESG", "DEPARTED"}
<1>1. SUFFICES ASSUME Exact', NEW c \in Clients,
                      NEW i \in 1 .. Len(buf'[<<"toServer", c>>]), NEW m,
                      m = buf'[<<"toServer", c>>][i]
               PROVE  Good(c, m) /\ (m.kind = "DEPARTED" => HasLeft(c)')
  BY Zenon DEF ToServerMail
<1>2. Exact
  BY <1>1, ExactOnce
<1> DEFINE p == <<"toServer", c>>
<1>3. p \in Pipe /\ buf[p] \in Seq(Mesg)
  BY <1>t DEF Pipe, Dir
<1>a. \A w \in Mesg : buf'[p] = Append(buf[p], w) =>
        m = w \/ \E j \in 1 .. Len(buf[p]) : m = buf[p][j]
  <2> HIDE DEF p
  <2>1. m = buf'[p][i] /\ i \in 1 .. Len(buf'[p])
    BY <1>1 DEF p
  <2> QED
    BY <1>3, <2>1, AppendMembers
<1>4. ASSUME NEW j \in 1 .. Len(buf[p]), m = buf[p][j]
      PROVE  Good(c, m) /\ (m.kind = "DEPARTED" => HasLeft(c)')
  <2>1. Good(c, m) /\ (m.kind = "DEPARTED" => HasLeft(c))
    BY <1>2, <1>4 DEF MailInv, ToServerMail
  <2> QED
    BY <1>t, <2>1, LeftForGood
<1>5. CASE buf'[p] = buf[p] \/ buf'[p] = <<>>
  BY <1>1, <1>4, <1>5
<1>6. CASE buf[p] # <<>> /\ buf'[p] = Tail(buf[p])
  BY <1>1, <1>3, <1>4, <1>6, TailMembers
<1>7. CASE WriteOne /\ p = PipeAt(client[next].to_client_fd)
  <2>1. p # None /\ \A k : p # <<"toClient", k>>
    BY <1>3, NoneAssumption
  <2> QED
    BY <1>t, <1>2, <1>7, <2>1, WriteOnePipe
<1>8. ASSUME NEW k \in Clients, NEW w \in Mesg, Sent(k, w), p = hand[<<"toServer", k>>],
             buf'[p] = Append(buf[p], w)
      PROVE  Good(c, m) /\ (m.kind = "DEPARTED" => HasLeft(c)')
  <2>1. p \in {<<"toServer", k>>, None} /\ p # None
    BY <1>2, <1>3, <1>8, OwnPipes, NoneAssumption
  <2>2. k = c
    BY <2>1
  <2>3. w.kind = "DEPARTED" => HasLeft(c)'
    BY <1>8, <1>t, <2>2 DEF Sent, Depart, Advance, HasLeft, TypeOK, ClientTypeOK
  <2>4. Good(c, w)
    BY <1>8, <2>2 DEF Sent
  <2>5. m = w \/ \E j \in 1 .. Len(buf[p]) : m = buf[p][j]
    BY <1>8, <1>a
  <2> QED
    BY <1>4, <2>3, <2>4, <2>5
<1> HIDE DEF p, Good
<1> QED
  BY <1>t, <1>3, <1>5, <1>6, <1>7, <1>8, BufSteps DEF BufMove

\* The toClient FIFOs keep theirs.
LEMMA ToClientMailStep ==
    ASSUME JoinInv, PhaseInv, MailInv, [Next]_vars
    PROVE  ToClientMail'
<1>t. TypeOK /\ TableInv /\ NamesOwned /\ buf \in [Pipe -> Seq(Mesg)] /\ mesg \in Mesg
  BY DEF JoinInv, TableInv, DescriptorInv, PhaseInv, TypeOK, FifoTypeOK, ServerTypeOK
<1>1. SUFFICES ASSUME Exact', NEW c \in Clients,
                      NEW i \in 1 .. Len(buf'[<<"toClient", c>>]), NEW m,
                      m = buf'[<<"toClient", c>>][i], m.kind = "SHUTDOWN"
               PROVE  Closing'
  BY DEF ToClientMail
<1>2. Exact
  BY <1>1, ExactOnce
<1> DEFINE p == <<"toClient", c>>
<1>3. p \in Pipe /\ buf[p] \in Seq(Mesg)
  BY <1>t DEF Pipe, Dir
<1>a. \A w \in Mesg : buf'[p] = Append(buf[p], w) =>
        m = w \/ \E j \in 1 .. Len(buf[p]) : m = buf[p][j]
  <2> HIDE DEF p
  <2>1. m = buf'[p][i] /\ i \in 1 .. Len(buf'[p])
    BY <1>1 DEF p
  <2> QED
    BY <1>3, <2>1, AppendMembers
<1>4. ASSUME NEW j \in 1 .. Len(buf[p]), m = buf[p][j]
      PROVE  Closing'
  <2>1. Closing
    BY <1>1, <1>2, <1>4 DEF MailInv, ToClientMail
  <2> QED
    BY <2>1, ClosingForGood
<1>5. CASE buf'[p] = buf[p] \/ buf'[p] = <<>>
  BY <1>1, <1>4, <1>5
<1>6. CASE buf[p] # <<>> /\ buf'[p] = Tail(buf[p])
  BY <1>1, <1>3, <1>4, <1>6, TailMembers
<1>7. CASE WriteOne /\ buf'[p] = Append(buf[p], mesg)
  <2>1. m = mesg \/ \E j \in 1 .. Len(buf[p]) : m = buf[p][j]
    BY <1>t, <1>7, <1>a
  <2>2. pc' = "bcast" /\ mesg' = mesg
    BY <1>7 DEF WriteOne
  <2> QED
    BY <1>1, <1>4, <2>1, <2>2 DEF Closing
<1>8. ASSUME NEW k \in Clients, p = hand[<<"toServer", k>>]
      PROVE  FALSE
  <2>1. p # None /\ p # <<"toServer", k>>
    BY <1>3, NoneAssumption
  <2> QED
    BY <1>2, <1>8, <2>1, OwnPipes
<1> HIDE DEF p
<1> QED
  BY <1>t, <1>3, <1>5, <1>6, <1>7, <1>8, BufSteps DEF BufMove

\* A removal is under way because it has just begun, or was before.
LEMMA UnlinkSteps ==
    ASSUME [Next]_vars, pc' = "unlink"
    PROVE  \/ DepartClient /\ pc = "bcast" /\ mesg.kind = "DEPARTED"
              /\ UNCHANGED <<client, idx, mesg>>
           \/ ShutdownClose /\ pc = "shut" /\ mesg' = mesg
           \/ pc = "unlink" /\ UNCHANGED <<client, idx, mesg>>
<1>1. CASE UNCHANGED vars \/ \E c \in Clients : ClientStep(c)
  BY <1>1, ClientLeavesServer DEF vars, server
<1>2. CASE DepartClient \/ ShutdownClose
  BY <1>2 DEF DepartClient, ShutdownClose, CloseClient, EndBroadcast
<1>3. CASE Signal
  BY <1>3 DEF Signal
<1>4. CASE ServerStart \/ NextRound \/ ShutdownStart \/ CheckSources \/ SkipJoin \/ HandleJoin
           \/ SkipClient \/ HandleClient \/ WriteOne \/ JoinDone \/ MesgDone \/ RemoveDeparted
           \/ EndScan \/ ShutdownLoop \/ ShutdownRemove \/ ServerExit
  BY <1>4 DEF ServerStart, NextRound, ShutdownStart, CheckSources, SkipJoin, HandleJoin,
     SkipClient, HandleClient, StartBroadcast, WriteOne, JoinDone, MesgDone, RemoveDeparted,
     EndScan, ShutdownLoop, ShutdownRemove, ServerExit
<1> QED
  BY <1>1, <1>2, <1>3, <1>4 DEF Next, ServerStep

\* What server_handle_client has just read is from the client in its slot.
LEMMA FromSlotRead ==
    ASSUME JoinInv, PhaseInv, MailInv, Exact, HandleClient, pc' = "bcast"
    PROVE  /\ mesg'.from \in Clients
           /\ client'[idx'].name = NameOf[mesg'.from]
           /\ mesg'.kind = "DEPARTED" => HasLeft(mesg'.from)
<1> DEFINE p == PipeAt(client[idx].to_server_fd)
<1>t. buf \in [Pipe -> Seq(Mesg)] /\ TableInv /\ NamesOwned
  BY DEF JoinInv, TableInv, DescriptorInv, TypeOK, FifoTypeOK, PhaseInv
<1>1. /\ p # None /\ buf[p] # <<>> /\ mesg' = Head(buf[p])
      /\ mesg'.kind \in {"MESG", "DEPARTED"} /\ UNCHANGED <<client, idx>>
  BY DEF HandleClient, StartBroadcast
<1>2. PICK c \in Clients : client[idx].name = NameOf[c] /\ p \in {<<"toServer", c>>, None}
  BY <1>t, HandleClientPipe
<1>3. p = <<"toServer", c>> /\ p \in Pipe
  BY <1>1, <1>2 DEF Pipe, Dir
<1> HIDE DEF p
<1>4. 1 \in 1 .. Len(buf[p]) /\ Head(buf[p]) = buf[p][1]
  BY <1>1, <1>3, <1>t
<1>5. mesg'.from = c /\ (mesg'.kind = "DEPARTED" => HasLeft(c))
  BY <1>1, <1>3, <1>4 DEF MailInv, ToServerMail
<1> QED
  BY <1>1, <1>2, <1>5

\* FromSlot is kept by every step.
LEMMA FromSlotStep ==
    ASSUME JoinInv, PhaseInv, MailInv, [Next]_vars
    PROVE  FromSlot'
<1>t. TypeOK
  BY DEF JoinInv, TableInv, DescriptorInv
<1>1. SUFFICES ASSUME Exact', Handling'
               PROVE  /\ mesg'.from \in Clients
                      /\ client'[idx'].name = NameOf[mesg'.from]
                      /\ mesg'.kind = "DEPARTED" => HasLeft(mesg.from)'
  BY DEF FromSlot
<1>2. Exact /\ mesg'.kind \in {"MESG", "DEPARTED"}
  BY <1>1, ExactOnce DEF Handling
<1>3. CASE Handling /\ UNCHANGED <<client, idx, mesg>>
  <2>1. mesg.from \in Clients /\ client[idx].name = NameOf[mesg.from]
        /\ (mesg.kind = "DEPARTED" => HasLeft(mesg.from))
    BY <1>2, <1>3 DEF MailInv, FromSlot
  <2>2. ASSUME NEW c \in Clients, c = mesg.from, HasLeft(c)
        PROVE  HasLeft(mesg.from)'
    BY <1>t, <1>3, <2>2, LeftForGood DEF HasLeft
  <2> QED
    BY <1>3, <2>1, <2>2
<1>4. CASE HandleClient /\ pc' = "bcast"
  <2>1. /\ mesg'.from \in Clients /\ client'[idx'].name = NameOf[mesg'.from]
        /\ mesg'.kind = "DEPARTED" => HasLeft(mesg'.from)
    BY <1>2, <1>4, FromSlotRead
  <2>2. st' = st
    BY <1>4 DEF HandleClient, procs
  <2> QED
    BY <2>1, <2>2 DEF HasLeft
<1>5. CASE pc' = "bcast"
  <2>1. CASE pc = "bcast" /\ UNCHANGED <<client, idx, mesg>>
    BY <1>2, <1>3, <2>1 DEF Handling
  <2> QED
    BY <1>2, <1>4, <1>5, <2>1, BroadcastSteps DEF NoMesg
<1>6. CASE pc' = "unlink"
  <2>1. mesg = NoMesg \/ pc \in {"bcast", "unlink"}
    BY DEF PhaseInv, Messages
  <2>2. Handling /\ UNCHANGED <<client, idx, mesg>>
    BY <1>2, <1>6, <2>1, UnlinkSteps DEF Handling, NoMesg
  <2> QED
    BY <1>3, <2>2
<1> QED
  BY <1>1, <1>5, <1>6 DEF Handling

-----------------------------------------------------------------------------
(* Which flags tell the truth *)

\* A flag that main's loop has still to look at was set for a message that is
\* still there; behind the loop no flag is left, but that of the client whose
\* message is being handled.
Flags ==
    Exact /\ ~Closing =>
        \A i \in 1 .. Len(client) : client[i].data_ready =>
            \/ i = idx /\ Handling
            \/ pc \notin {"start", "loop", "poll"} /\ i >= idx /\ Readable(client[i])

\* The descriptors of a slot in use refer to the same FIFOs after a step that
\* does not remove it.
LEMMA OwnFdsKept ==
    ASSUME DescriptorInv, [Next]_vars, clean', NEW j \in Live, ~ServerExit,
           (DepartClient \/ ShutdownClose) => j # idx
    PROVE  \A f \in OwnFds(client[j]) : f \in Fd /\ fds'[f] = fds[f]
<1>t. TypeOK /\ client \in Seq(Entry) /\ idx \in Nat \ {0}
  BY DEF DescriptorInv, TypeOK, ServerTypeOK
<1>0. clean /\ \A f \in OwnFds(client[j]) : f \in Fd /\ fds[f] # None
  BY CleanOnce DEF DescriptorInv, FdsOpen
<1>1. CASE HandleJoin
  <2>1. CASE UNCHANGED <<client, fds>>
    BY <1>0, <2>1
  <2>2. ASSUME NEW e \in Entry, Added(e, Head(joinQ))
        PROVE  \A f \in OwnFds(client[j]) : f \in Fd /\ fds'[f] = fds[f]
    <3>1. \A f \in OwnFds(client[j]) : f \notin OwnFds(e)
      BY <1>0, <2>2 DEF Added, OwnFds
    <3> QED
      BY <1>0, <2>2, <3>1 DEF Added
  <2> QED
    BY <1>1, <2>1, <2>2, JoinSlots
<1>2. CASE DepartClient \/ ShutdownClose
  <2>1. pc \in {"bcast", "shut"} /\ fds' = CloseBoth(fds, client[idx])
    BY <1>2 DEF DepartClient, ShutdownClose, CloseClient, EndBroadcast
  <2>2. idx \in 1 .. Len(client)
    BY <1>2, <1>t DEF DepartClient, ShutdownClose, EndBroadcast, DescriptorInv, SlotInUse
  <2>3. idx \in Live /\ j # idx
    BY <1>2, <2>1, <2>2 DEF Live
  <2>4. OwnFds(client[j]) \cap OwnFds(client[idx]) = {}
    BY <1>0, <2>3 DEF DescriptorInv, FdsApart
  <2> QED
    BY <1>0, <2>1, <2>4, LimitsAssumption DEF CloseBoth, OwnFds, Fd, NoFd
<1>3. CASE ~HandleJoin /\ ~DepartClient /\ ~ShutdownClose
  BY <1>0, <1>3, FdsSame
<1> QED
  BY <1>1, <1>2, <1>3

\* A message stays in its FIFO until server_handle_client reads it there.
LEMMA ReadableKept ==
    ASSUME JoinInv, PhaseInv, [Next]_vars, Exact', NEW i, NEW j \in Live,
           SameSlot(client'[i], client[j]), Readable(client[j]), ~ServerExit,
           (DepartClient \/ ShutdownClose \/ HandleClient) => j # idx
    PROVE  Readable(client[i])'
<1>t. /\ TypeOK /\ TableInv /\ DescriptorInv /\ NamesOwned /\ Exact /\ clean'
      /\ mesg \in Mesg /\ \A q \in Pipe : buf[q] \in Seq(Mesg)
  BY ExactOnce DEF JoinInv, TableInv, DescriptorInv, PhaseInv, TypeOK, FifoTypeOK, ServerTypeOK, Exact
<1> DEFINE fd == client[j].to_server_fd
<1>1. PICK c \in Clients : client[j].name = NameOf[c] /\ PipeAt(fd) \in {<<"toServer", c>>, None}
  BY <1>t, SlotPipes
<1> DEFINE p == <<"toServer", c>>
<1>2. PipeAt(fd) = p /\ buf[p] # <<>> /\ p \in Pipe /\ p # None
  BY <1>1, NoneAssumption DEF Readable, Pipe, Dir
<1>3. fd \in Fd /\ fds[fd] = p
  BY <1>2 DEF PipeAt
<1>4. fd \in OwnFds(client[j])
  BY <1>3, LimitsAssumption DEF OwnFds, Fd, NoFd
<1>5. fds'[fd] = p
  BY <1>t, <1>3, <1>4, OwnFdsKept
<1>6. client'[i].to_server_fd = fd
  BY DEF SameSlot
<1>7. SUFFICES buf'[p] # <<>>
  BY <1>2, <1>3, <1>5, <1>6 DEF Readable, PipeAt
<1>8. Opened(p, fds', hand')
  BY <1>3, <1>5 DEF Opened
<1>9. ASSUME HandleClient, p = PipeAt(client[idx].to_server_fd) PROVE FALSE
  <2>1. PICK k \in Clients : client[idx].name = NameOf[k]
                             /\ PipeAt(client[idx].to_server_fd) \in {<<"toServer", k>>, None}
    BY <1>t, <1>9, HandleClientPipe
  <2>2. k = c
    BY <1>2, <1>9, <2>1
  <2>3. idx \in Live /\ idx \in 1 .. Len(client) /\ j \in 1 .. Len(client)
    BY <1>t, <1>9, HandleClientPipe DEF Live
  <2>4. idx = j
    BY <1>t, <1>1, <2>1, <2>2, <2>3, AllUnique DEF TableInv, OneSlot, Exact
  <2> QED
    BY <1>9, <2>4
<1>10. ASSUME NEW k \in Clients, p = hand[<<"toClient", k>>] PROVE FALSE
  <2>1. p # <<"toClient", k>>
    OBVIOUS
  <2> QED
    BY <1>t, <1>2, <1>10, <2>1, OwnPipes
<1>11. \A m \in Mesg : Append(buf[p], m) # <<>>
  BY <1>t, <1>2
<1> HIDE DEF p, fd
<1>12. BufMove(p)
  BY <1>t, <1>2, BufSteps
<1> QED
  BY <1>t, <1>2, <1>8, <1>9, <1>10, <1>11, <1>12 DEF BufMove

\* Flags is kept by every step.
LEMMA FlagsStep ==
    ASSUME JoinInv, PhaseInv, Flags, [Next]_vars
    PROVE  Flags'
<1>t. /\ TypeOK /\ DescriptorInv /\ client \in Seq(Entry) /\ Len(client) \in Nat
      /\ idx \in Nat \ {0}
  BY DEF JoinInv, TableInv, DescriptorInv, TypeOK, ServerTypeOK
<1>1. SUFFICES ASSUME Exact', ~Closing', NEW i \in 1 .. Len(client'), client'[i].data_ready
               PROVE  \/ i = idx' /\ Handling'
                      \/ pc' \notin {"start", "loop", "poll"} /\ i >= idx' /\ Readable(client[i])'
  BY DEF Flags
<1>2. Exact /\ ~Closing /\ clean'
  BY <1>1, ExactOnce, ClosingForGood DEF Exact
<1>3. ~ShutdownStart /\ ~ShutdownLoop /\ ~ShutdownClose /\ ~ShutdownRemove /\ ~ServerExit
  <2>1. ShutdownStart => Closing'
    BY DEF ShutdownStart, StartBroadcast, NoMesg, Closing
  <2>2. ShutdownLoop \/ ShutdownRemove \/ ServerExit => Closing'
    BY DEF ShutdownLoop, ShutdownRemove, ServerExit, Closing
  <2>3. ShutdownClose => Closing
    BY DEF ShutdownClose, Closing
  <2> QED
    BY <1>1, <1>2, <2>1, <2>2, <2>3
<1>4. ASSUME NEW j \in 1 .. Len(client), client[j].data_ready, ~(j = idx /\ Handling)
      PROVE  j \in Live /\ pc \notin {"start", "loop", "poll"} /\ j >= idx /\ Readable(client[j])
  <2>1. pc \notin {"start", "loop", "poll"} /\ j >= idx /\ Readable(client[j])
    BY <1>2, <1>4 DEF Flags
  <2>2. pc # "done" /\ (pc = "unlink" => Handling)
    BY <1>2 DEF Closing, Handling, PhaseInv, Messages
  <2> QED
    BY <1>4, <2>1, <2>2 DEF Live
<1>5. ASSUME NEW j \in Live, Readable(client[j]), SameSlot(client'[i], client[j]),
             DepartClient \/ HandleClient => j # idx
      PROVE  Readable(client[i])'
  BY <1>1, <1>3, <1>5, ReadableKept
<1>6. \A e : SameSlot(e, e)
  BY DEF SameSlot
<1>7. ASSUME UNCHANGED <<client, idx>>, i = idx /\ Handling => Handling',
             pc \notin {"start", "loop", "poll"} => pc' \notin {"start", "loop", "poll"},
             DepartClient \/ HandleClient => Handling'
      PROVE  \/ i = idx' /\ Handling'
             \/ pc' \notin {"start", "loop", "poll"} /\ i >= idx' /\ Readable(client[i])'
  <2>1. CASE i = idx /\ (Handling \/ Handling')
    BY <1>7, <2>1
  <2>2. CASE ~(i = idx /\ (Handling \/ Handling'))
    <3>1. i \in 1 .. Len(client) /\ client[i].data_ready /\ client'[i] = client[i]
      BY <1>1, <1>7
    <3>2. i \in Live /\ pc \notin {"start", "loop", "poll"} /\ i >= idx /\ Readable(client[i])
      BY <1>4, <2>2, <3>1
    <3>3. DepartClient \/ HandleClient => i # idx
      BY <1>7, <2>2
    <3> QED
      BY <1>5, <1>6, <1>7, <3>1, <3>2, <3>3
  <2> QED
    BY <2>1, <2>2
<1>8. CASE UNCHANGED vars \/ \E c \in Clients : ClientStep(c)
  <2>1. UNCHANGED server
    BY <1>8, ClientLeavesServer DEF vars
  <2>2. ~DepartClient /\ ~HandleClient
    <3>1. pc' = pc /\ mesg' = mesg /\ client' = client /\ idx' = idx
      BY <2>1 DEF server
    <3>2. DepartClient => pc' # pc
      BY DEF DepartClient, CloseClient, EndBroadcast
    <3>3. HandleClient => pc' # pc \/ idx' # idx
      BY <1>t DEF HandleClient, StartBroadcast
    <3> QED
      BY <3>1, <3>2, <3>3
  <2> QED
    BY <1>7, <2>1, <2>2 DEF server, Handling
<1>9. CASE ServerStart \/ SkipJoin \/ WriteOne \/ JoinDone \/ Signal \/ DepartClient
  <2>1. HandleClient => pc = "scan"
    BY DEF HandleClient
  <2>2. UNCHANGED <<client, idx>>
    BY <1>9 DEF ServerStart, SkipJoin, WriteOne, JoinDone, Signal, DepartClient, CloseClient
  <2>3. pc \notin {"start", "loop", "poll"} => pc' \notin {"start", "loop", "poll"}
    BY <1>9 DEF ServerStart, SkipJoin, WriteOne, JoinDone, Signal, DepartClient, CloseClient
  <2>4. Handling => Handling'
    BY <1>9 DEF ServerStart, SkipJoin, WriteOne, JoinDone, EndBroadcast, Signal, DepartClient,
       CloseClient, Handling
  <2>5. DepartClient => Handling'
    BY DEF DepartClient, CloseClient, Handling
  <2>6. ~HandleClient \/ Handling'
    BY <1>9, <2>1, <2>5 DEF ServerStart, SkipJoin, WriteOne, JoinDone, EndBroadcast, Signal,
       HandleClient, Handling, StartBroadcast
  <2> QED
    BY <1>7, <2>2, <2>3, <2>4, <2>5, <2>6
<1>10. CASE NextRound \/ EndScan
  <2>1. /\ client' = client /\ ~Handling /\ i \in 1 .. Len(client)
        /\ pc = "loop" \/ idx > Len(client)
    BY <1>1, <1>10 DEF NextRound, EndScan, Handling
  <2> QED
    BY <1>1, <1>4, <1>t, <2>1
<1>11. CASE CheckSources
  <2>1. /\ i \in 1 .. Len(client) /\ pc = "poll" /\ pc' = "join" /\ idx' = idx
        /\ client'[i] = [client[i] EXCEPT !.data_ready = @ \/ Readable(client[i])]
    BY <1>1, <1>11, <1>t DEF CheckSources
  <2>2. client[i] \in Entry /\ i \in Live /\ ~client[i].data_ready /\ idx = 1
    BY <1>t, <1>4, <2>1 DEF Live, Handling, PhaseInv, Loops
  <2>3. SameSlot(client'[i], client[i]) /\ Readable(client[i])
    BY <1>1, <2>1, <2>2 DEF SameSlot, Entry
  <2>4. ~DepartClient /\ ~HandleClient
    BY <2>1 DEF DepartClient, EndBroadcast, HandleClient
  <2> QED
    BY <1>5, <2>1, <2>2, <2>3, <2>4
<1>12. CASE HandleJoin
  <2>1. pc = "join" /\ pc' = "bcast" /\ idx' = idx /\ ~Handling
    BY <1>12 DEF HandleJoin, StartBroadcast, Handling
  <2>2. i \in 1 .. Len(client) /\ client'[i] = client[i]
    <3>1. CASE UNCHANGED <<client, fds>>
      BY <1>1, <3>1
    <3>2. ASSUME NEW e \in Entry, Added(e, Head(joinQ))
          PROVE  i \in 1 .. Len(client) /\ client'[i] = client[i]
      <4>1. client' = Append(client, e) /\ ~e.data_ready
        BY <3>2 DEF Added
      <4>2. (i \in 1 .. Len(client) /\ client'[i] = client[i]) \/ client'[i] = e
        BY <1>1, <1>t, <4>1
      <4> QED
        BY <1>1, <4>1, <4>2
    <3> QED
      BY <1>t, <1>12, <3>1, <3>2, JoinSlots
  <2>3. ~DepartClient /\ ~HandleClient
    BY <2>1 DEF DepartClient, EndBroadcast, HandleClient
  <2> QED
    BY <1>1, <1>4, <1>5, <1>6, <2>1, <2>2, <2>3
<1>13. CASE SkipClient
  <2>1. pc = "scan" /\ pc' = pc /\ idx' = idx + 1 /\ client' = client /\ ~client[idx].data_ready
    BY <1>13 DEF SkipClient
  <2>2. i # idx /\ i \in Live /\ i >= idx /\ Readable(client[i])
    BY <1>1, <1>4, <2>1 DEF Handling
  <2> QED
    BY <1>5, <1>6, <1>t, <2>1, <2>2
<1>14. CASE HandleClient \/ MesgDone
  <2>1. CASE HandleClient /\ pc' = "bcast"
    <3>1. UNCHANGED <<client, idx>> /\ Handling' /\ pc = "scan"
      BY <2>1 DEF HandleClient, StartBroadcast, Handling
    <3> QED
      BY <1>7, <2>1, <3>1
  <2>2. CASE pc \in {"scan", "bcast"} /\ pc' = "scan" /\ client' = ClearFlag(client, idx)
             /\ idx' = idx + 1
    <3>1. i \in 1 .. Len(client) /\ SameSlot(client'[i], client[i])
      BY <1>1, <1>t, <2>2, ClearFlagType, ClearFlagSlot
    <3>2. client'[i] = IF i = idx THEN [client[i] EXCEPT !.data_ready = FALSE] ELSE client[i]
      BY <2>2, <3>1 DEF ClearFlag
    <3>3. client[i] \in Entry
      BY <1>t, <3>1
    <3>4. i # idx /\ client[i].data_ready
      BY <1>1, <3>2, <3>3 DEF Entry
    <3>5. i \in Live /\ i >= idx /\ Readable(client[i])
      BY <1>4, <3>1, <3>4
    <3>6. Readable(client[i])'
      BY <1>5, <3>1, <3>4, <3>5
    <3> QED
      BY <1>t, <2>2, <3>4, <3>5, <3>6
  <2> QED
    BY <1>14, <2>1, <2>2 DEF HandleClient, MesgDone, EndBroadcast, StartBroadcast
<1>15. CASE RemoveDeparted
  <2> DEFINE t == RemoveEntry(client, idx)
  <2>1. /\ Len(client) - idx <= 1 /\ Len(client') = Len(client) - 1 /\ idx \in 1 .. Len(client)
        /\ pc = "unlink"
    BY <1>t, <1>2, <1>15, ShiftSlots
  <2>2. t \in Seq(Entry) /\ Len(t) = Len(client) - 1
    <3>1. client # <<>>
      BY <2>1
    <3> QED
      BY <1>t, <3>1, RemoveEntryType
  <2>3. client' = ClearFlag(t, idx) /\ i \in 1 .. Len(t) /\ t[i] \in Entry
    BY <1>1, <1>15, <2>1, <2>2 DEF RemoveDeparted
  <2>4. t[i] = IF i = idx THEN client[idx + 1] ELSE client[i]
    BY <2>2, <2>3 DEF RemoveEntry
  <2> HIDE DEF t
  <2>5. client'[i] = IF i = idx THEN [t[i] EXCEPT !.data_ready = FALSE] ELSE t[i]
    BY <2>3 DEF ClearFlag
  <2>6. i # idx /\ t[i].data_ready
    BY <1>1, <2>3, <2>5 DEF Entry
  <2>7. i \in 1 .. Len(client) /\ client[i].data_ready /\ i < idx
    BY <1>t, <2>1, <2>2, <2>3, <2>4, <2>6
  <2> QED
    BY <1>4, <1>t, <2>7
<1> QED
  BY <1>3, <1>8, <1>9, <1>10, <1>11, <1>12, <1>13, <1>14, <1>15 DEF Next, ServerStep

-----------------------------------------------------------------------------
(* The flow of messages *)

FlowInv == JoinInv /\ PhaseInv /\ MailInv /\ Flags

\* At the start nothing has been written and the table is empty.
LEMMA FlowInit == Init => FlowInv
<1> SUFFICES ASSUME Init PROVE FlowInv
  OBVIOUS
<1>1. JoinInv
  BY JoinInit
<1>2. PhaseInv
  BY DEF Init, PhaseInv, Loops, Messages, JoinFifo, NamesOwned, Handling, Closing, NoMesg
<1>3. \A c \in Clients : /\ 1 .. Len(buf[<<"toServer", c>>]) = {}
                         /\ 1 .. Len(buf[<<"toClient", c>>]) = {}
  <2>1. \A c \in Clients : buf[<<"toServer", c>>] = <<>> /\ buf[<<"toClient", c>>] = <<>>
    BY DEF Init, Pipe, Dir
  <2>2. 1 .. Len(<<>>) = {}
    OBVIOUS
  <2> QED
    BY <2>1, <2>2
<1>4. MailInv
  <2>1. ToServerMail
    BY <1>3 DEF ToServerMail
  <2>2. ToClientMail
    BY <1>3 DEF ToClientMail
  <2>3. FromSlot
    BY DEF Init, FromSlot, Handling
  <2> QED
    BY <2>1, <2>2, <2>3 DEF MailInv
<1>5. Flags
  BY DEF Init, Flags
<1> QED
  BY <1>1, <1>2, <1>4, <1>5 DEF FlowInv

\* FlowInv is inductive.
LEMMA FlowStep == FlowInv /\ [Next]_vars => FlowInv'
<1> SUFFICES ASSUME FlowInv, [Next]_vars PROVE FlowInv'
  OBVIOUS
<1>1. JoinInv /\ PhaseInv /\ MailInv /\ Flags /\ DescriptorInv
  BY DEF FlowInv, JoinInv, TableInv
<1>2. JoinInv' /\ PhaseInv' /\ Flags'
  BY <1>1, JoinStep, PhaseStep, FlagsStep
<1>3. MailInv'
  BY <1>1, ToServerMailStep, ToClientMailStep, FromSlotStep DEF MailInv
<1> QED
  BY <1>2, <1>3 DEF FlowInv

\* What is in the FIFOs, in mesg and in the flags fits together at all times.
THEOREM FlowCorrect == Spec => []FlowInv
BY FlowInit, FlowStep, PTL DEF Spec

\* server_handle_client never blocks in read(): while names are not shared and no
\* removal has had to shift two slots, a flag that main's loop has still to look
\* at stands for a message that is still in the FIFO, whatever was joined, read,
\* broadcast and removed since poll() reported it.
THEOREM ReadNeverBlocksCorrect == Spec => []ReadNeverBlocks
<1>1. FlowInv => ReadNeverBlocks
  <2> SUFFICES ASSUME FlowInv, Exact, pc = "scan", NEW i \in idx .. Len(client),
                      client[i].data_ready
               PROVE  Readable(client[i])
    BY DEF ReadNeverBlocks, DataReadyIsTrue
  <2>1. idx \in Nat \ {0} /\ Len(client) \in Nat
    BY DEF FlowInv, JoinInv, TableInv, DescriptorInv, TypeOK, ServerTypeOK
  <2>2. i \in 1 .. Len(client) /\ ~Closing /\ ~Handling
    BY <2>1 DEF Closing, Handling
  <2> QED
    BY <2>2 DEF FlowInv, Flags
<1> QED
  BY FlowCorrect, <1>1, PTL

-----------------------------------------------------------------------------
(* Nobody is evicted *)

\* A slot of a name that is gone after a step was the one a removal worked on.
LEMMA WhoGoes ==
    ASSUME DescriptorInv, [Next]_vars, clean', NEW c, InTable(c), ~InTable(c)'
    PROVE  /\ RemoveDeparted \/ ShutdownRemove
           /\ client[idx].name = NameOf[c]
<1>t. TypeOK /\ client \in Seq(Entry) /\ idx \in Nat \ {0} /\ Len(client) \in Nat
  BY DEF DescriptorInv, TypeOK, ServerTypeOK
<1>1. PICK i \in 1 .. Len(client) : client[i].name = NameOf[c]
  BY DEF InTable
<1>2. \A k \in 1 .. Len(client') : client'[k].name # NameOf[c]
  BY DEF InTable
<1>3. CASE RemoveDeparted \/ ShutdownRemove
  <2>1. /\ Len(client') = Len(client) - 1 /\ Len(client) - idx <= 1 /\ idx \in 1 .. Len(client)
        /\ \A k \in 1 .. Len(client') : client'[k].name = client[Old(k)].name
    BY <1>3, ShiftSlots DEF SameSlot
  <2>2. ASSUME i # idx PROVE FALSE
    <3>1. i < idx => i \in 1 .. Len(client') /\ Old(i) = i
      BY <1>t, <2>1 DEF Old
    <3>2. i > idx => i - 1 \in 1 .. Len(client') /\ Old(i - 1) = i
      BY <1>t, <2>1 DEF Old
    <3> QED
      BY <1>t, <1>1, <1>2, <2>1, <2>2, <3>1, <3>2
  <2> QED
    BY <1>1, <1>3, <2>2
<1>4. CASE HandleJoin
  <2>1. CASE UNCHANGED <<client, fds>>
    BY <1>1, <1>2, <2>1
  <2>2. ASSUME NEW e \in Entry, Added(e, Head(joinQ))
        PROVE  FALSE
    <3>1. client' = Append(client, e)
      BY <2>2 DEF Added
    <3>2. i \in 1 .. Len(client') /\ client'[i] = client[i]
      BY <1>t, <3>1
    <3> QED
      BY <1>1, <1>2, <3>2
  <2> QED
    BY <1>4, <2>1, <2>2, JoinSlots
<1>5. CASE ~HandleJoin /\ ~RemoveDeparted /\ ~ShutdownRemove
  BY <1>1, <1>2, <1>5, <1>t, SlotsSame DEF SameSlots, SameSlot
<1> QED
  BY <1>3, <1>4, <1>5

\* The running server drops no client that is still in the chat: while names are
\* not shared and no removal has had to shift two slots, the slot that goes is
\* that of a client that has written its DEPARTED or has ended.
THEOREM NoEvictionCorrect == Spec => NoEviction
<1>1. ASSUME FlowInv, [Next]_vars, Exact', mesg.kind # "SHUTDOWN",
             NEW c \in Clients, InTable(c), ~InTable(c)'
      PROVE  st[c] \notin {"in", "leaving"}
  <2>1. DescriptorInv /\ clean' /\ Exact
    BY <1>1, ExactOnce DEF FlowInv, JoinInv, TableInv, Exact
  <2>2. (RemoveDeparted \/ ShutdownRemove) /\ client[idx].name = NameOf[c]
    BY <1>1, <2>1, WhoGoes
  <2>3. pc = "unlink" /\ mesg.kind = "DEPARTED"
    BY <1>1, <2>2 DEF RemoveDeparted, ShutdownRemove
  <2>4. mesg.from \in Clients /\ NameOf[mesg.from] = NameOf[c] /\ HasLeft(mesg.from)
    BY <1>1, <2>1, <2>2, <2>3 DEF FlowInv, MailInv, FromSlot, Handling
  <2>5. mesg.from = c
    BY <2>1, <2>4 DEF Exact
  <2> QED
    BY <2>4, <2>5 DEF HasLeft
<1>2. FlowInv /\ [Next]_vars =>
        [Exact' /\ mesg.kind # "SHUTDOWN" =>
           \A c \in Clients : InTable(c) /\ ~InTable(c)' => st[c] \notin {"in", "leaving"}]_vars
  BY <1>1
<1> QED
  BY FlowCorrect, <1>2, PTL DEF Spec, NoEviction

-----------------------------------------------------------------------------
(* How far server_shutdown gets *)

\* Of n clients, what is left of the table and where the loop of server_shutdown is
\* add up to n: the index grows by one while n_clients shrinks by one.
HalfGone(n) ==
    /\ mesg.kind = "SHUTDOWN"
    /\ \/ pc = "bcast" /\ Len(client) = n /\ idx = 1
       \/ pc \in {"unlink", "shut", "done"} /\ Len(client) + idx = n + 1
    /\ pc = "unlink" => idx <= Len(client)
    /\ pc \in {"shut", "done"} => idx <= Len(client) + 2
    /\ pc = "done" => idx > Len(client)

\* Every step keeps the sum.
LEMMA HalfGoneStep ==
    ASSUME NEW n \in Nat, FlowInv, HalfGone(n), [Next]_vars
    PROVE  HalfGone(n)'
<1>t. client \in Seq(Entry) /\ Len(client) \in Nat /\ idx \in Nat
  BY DEF FlowInv, JoinInv, TableInv, DescriptorInv, TypeOK, ServerTypeOK
<1>1. CASE UNCHANGED vars \/ \E c \in Clients : ClientStep(c)
  <2>1. UNCHANGED server
    BY <1>1, ClientLeavesServer DEF vars
  <2> QED
    BY <2>1 DEF HalfGone, server
<1>2. CASE Signal \/ WriteOne
  BY <1>2 DEF Signal, WriteOne, HalfGone
<1>3. CASE ShutdownLoop
  BY <1>3, <1>t DEF ShutdownLoop, EndBroadcast, HalfGone
<1>4. CASE ShutdownClose
  BY <1>4, <1>t DEF ShutdownClose, CloseClient, HalfGone
<1>5. CASE ShutdownRemove
  <2>1. /\ pc = "unlink" /\ pc' = "shut" /\ mesg' = mesg /\ idx' = idx + 1
        /\ client' = RemoveEntry(client, idx) /\ idx <= Len(client)
    BY <1>5 DEF ShutdownRemove, UnlinkAndShift, HalfGone
  <2>2. idx \in Nat \ {0}
    BY DEF FlowInv, JoinInv, TableInv, DescriptorInv, TypeOK, ServerTypeOK
  <2>3. Len(client') = Len(client) - 1
    BY <1>t, <2>1, <2>2 DEF RemoveEntry
  <2> QED
    BY <1>t, <2>1, <2>3 DEF HalfGone
<1>6. CASE ServerExit
  BY <1>6, <1>t DEF ServerExit, HalfGone
<1>7. CASE \/ ServerStart \/ NextRound \/ ShutdownStart \/ CheckSources \/ SkipJoin \/ HandleJoin
           \/ SkipClient \/ HandleClient \/ JoinDone \/ MesgDone \/ DepartClient
           \/ RemoveDeparted \/ EndScan
  BY <1>7 DEF HalfGone, ServerStart, NextRound, ShutdownStart, CheckSources, SkipJoin, HandleJoin,
     SkipClient, HandleClient, JoinDone, MesgDone, DepartClient, RemoveDeparted, EndScan,
     EndBroadcast
<1> QED
  BY <1>1, <1>2, <1>3, <1>4, <1>5, <1>6, <1>7 DEF Next, ServerStep

\* Of n clients that the table holds when the shutdown is announced, exactly half
\* are left in it when the server returns (with an odd n the smaller half), for every
\* n: the loop of server_shutdown removes slots 1, 2 and so on while those after them
\* move up by one.  So it removes all clients only if there is one, or none.
ShutdownLeavesHalf ==
    \A n \in 0 .. MAXCLIENTS :
        [](pc = "bcast" /\ mesg.kind = "SHUTDOWN" /\ Len(client) = n
             => [](pc = "done" => Len(client) = n \div 2))
THEOREM ShutdownHalfCorrect == Spec => ShutdownLeavesHalf
<1>1. ASSUME NEW n \in 0 .. MAXCLIENTS
      PROVE  Spec => [](pc = "bcast" /\ mesg.kind = "SHUTDOWN" /\ Len(client) = n
                          => [](pc = "done" => Len(client) = n \div 2))
  <2>t. n \in Nat
    BY LimitsAssumption
  <2>1. FlowInv /\ pc = "bcast" /\ mesg.kind = "SHUTDOWN" /\ Len(client) = n => HalfGone(n)
    BY DEF FlowInv, PhaseInv, Loops, HalfGone
  <2>2. FlowInv /\ HalfGone(n) /\ [Next]_vars => HalfGone(n)'
    BY <2>t, HalfGoneStep
  <2>3. FlowInv /\ HalfGone(n) => (pc = "done" => Len(client) = n \div 2)
    <3> SUFFICES ASSUME FlowInv, HalfGone(n), pc = "done" PROVE Len(client) = n \div 2
      OBVIOUS
    <3>1. Len(client) \in Nat /\ idx \in Nat
      BY DEF FlowInv, JoinInv, TableInv, DescriptorInv, TypeOK, ServerTypeOK
    <3>2. Len(client) + idx = n + 1 /\ idx > Len(client) /\ idx <= Len(client) + 2
      BY DEF HalfGone
    <3> QED
      BY <2>t, <3>1, <3>2
  <2> QED
    BY FlowCorrect, <2>1, <2>2, <2>3, PTL DEF Spec
<1> QED
  BY <1>1 DEF ShutdownLeavesHalf
=============================================================================
