------------------------- MODULE BlatherRoomProofs -------------------------
(***************************************************************************)
(* The server implements the chat room of ChatRoom, proved for every number *)
(* of clients, capacity and number of lines, where there are slots and      *)
(* descriptors for all clients that are ever started.                       *)
(***************************************************************************)
EXTENDS BlatherFlowProofs

-----------------------------------------------------------------------------
(* The FIFOs and who has them open *)

\* The server has a slot in use for c.
Seated(c) == \E i \in Live : client[i].name = NameOf[c]

Alive(c) == st[c] \notin {"exited", "gone"}

\* The server has the FIFOs of those in its table open and no others.
FdSeats ==
    Exact =>
        \A c \in Clients, d \in Dir : (\E f \in Fd : fds[f] = <<d, c>>) <=> Seated(c)

\* A client has its own FIFOs open at most; one in the table has both open until
\* it ends, and nobody has after the end.
HandsOwn ==
    Exact =>
        \A c \in Clients, d \in Dir :
            /\ hand[<<d, c>>] \in {<<d, c>>, None}
            /\ Seated(c) /\ Alive(c) => hand[<<d, c>>] = <<d, c>>
            /\ ~Alive(c) => hand[<<d, c>>] = None

\* What is in a FIFO is held there by an open descriptor.
BufHeld ==
    Exact => \A p \in Pipe : buf[p] # <<>> => Opened(p, fds, hand)

\* server_shutdown removes one client at most where no removal has to shift two
\* slots.
ClosingSlots ==
    Exact =>
        /\ pc \in {"shut", "done"} => idx = 1 \/ (idx = 2 /\ Len(client) <= 1)
        /\ pc = "unlink" /\ mesg.kind = "SHUTDOWN" => idx = 1

RoomInv ==
    /\ FlowInv
    /\ Exact => SlotsFull
    /\ BufHeld
    /\ ClosingSlots
    /\ FdSeats
    /\ HandsOwn

\* The slots say which FIFOs the server has open.
LEMMA SeatsFromFlow ==
    ASSUME FlowInv, Exact => SlotsFull
    PROVE  FdSeats
<1>t. DescriptorInv /\ TableInv /\ NamesOwned
  BY DEF FlowInv, JoinInv, TableInv, PhaseInv
<1>1. SUFFICES ASSUME Exact, NEW c \in Clients, NEW d \in Dir
               PROVE  (\E f \in Fd : fds[f] = <<d, c>>) <=> Seated(c)
  BY DEF FdSeats
<1>2. ASSUME NEW i \in Live, NEW k \in Clients, client[i].name = NameOf[k]
      PROVE  Wired(client[i], k)
  BY <1>1, <1>2, <1>t, AllUnique DEF TableInv, SlotsWired, Exact
<1>3. ASSUME NEW f \in Fd, fds[f] = <<d, c>>
      PROVE  Seated(c)
  <2>1. <<d, c>> # None
    BY NoneAssumption DEF Pipe
  <2>2. PICK i \in Live : f \in OwnFds(client[i])
    BY <1>1, <1>3, <1>t, <2>1 DEF DescriptorInv, NoLeak, Exact
  <2>3. PICK k \in Clients : client[i].name = NameOf[k]
    BY <1>t DEF NamesOwned, Live
  <2>4. f # NoFd /\ PipeAt(f) = <<d, c>>
    BY <1>3, <2>2 DEF OwnFds, PipeAt
  <2>5. PipeAt(f) \in {<<"toClient", k>>, <<"toServer", k>>}
    BY <1>2, <2>2, <2>3, <2>4 DEF Wired, OwnFds
  <2>6. k = c
    BY <2>4, <2>5
  <2> QED
    BY <2>3, <2>6 DEF Seated
<1>4. ASSUME NEW i \in Live, client[i].name = NameOf[c]
      PROVE  \E f \in Fd : fds[f] = <<d, c>>
  <2>1. /\ PipeAt(client[i].to_client_fd) = <<"toClient", c>>
        /\ PipeAt(client[i].to_server_fd) = <<"toServer", c>>
    BY <1>1, <1>2, <1>4 DEF Wired, SlotsFull, Live
  <2>2. <<d, c>> # None /\ d \in {"toClient", "toServer"}
    BY NoneAssumption DEF Pipe, Dir
  <2>3. PICK fd : PipeAt(fd) = <<d, c>>
    BY <2>1, <2>2
  <2> QED
    BY <2>2, <2>3 DEF PipeAt
<1> QED
  BY <1>3, <1>4 DEF Seated

\* What the clients hold follows from where they are.
LEMMA HandsFromFlow ==
    ASSUME FlowInv
    PROVE  HandsOwn
<1>t. /\ TableInv /\ Held
      /\ st \in [Clients -> {"new", "mkC", "opC", "mkS", "opS", "in",
                             "leaving", "left", "exited", "gone"}]
  BY DEF FlowInv, JoinInv, TableInv, DescriptorInv, TypeOK, ClientTypeOK
<1>1. SUFFICES ASSUME Exact, NEW c \in Clients
               PROVE  \A d \in Dir :
                        /\ hand[<<d, c>>] \in {<<d, c>>, None}
                        /\ Seated(c) /\ Alive(c) => hand[<<d, c>>] = <<d, c>>
                        /\ ~Alive(c) => hand[<<d, c>>] = None
  BY DEF HandsOwn
<1>2. Unique(c)
  BY <1>1, AllUnique
<1>3. Seated(c) => ~Early(c)
  BY <1>2, <1>t DEF Seated, Live, TableInv, NotYetAbsent, NotYet
<1> QED
  BY <1>2, <1>3, <1>t DEF Held, Early, Alive, Dir

-----------------------------------------------------------------------------
(* The room as the server keeps it *)

RoomState == IF pc = "start" THEN "new" ELSE IF Closing THEN "over" ELSE "open"
Members   == IF Closing THEN {} ELSE {c \in Clients : Seated(c)}
Parting   == IF pc = "bcast" /\ mesg.kind = "DEPARTED" THEN {mesg.from} ELSE {}
Said(c)   == buf[<<"toServer", c>>]
Due(c)    == IF Pending(c) THEN Append(buf[<<"toClient", c>>], mesg)
                           ELSE buf[<<"toClient", c>>]

\* Nothing of the room changes but what is listed otherwise.
SameRoom == RoomState' = RoomState /\ Members' = Members /\ Parting' = Parting
SameSaid == \A c \in Clients : Said(c)' = Said(c)
SameDue  == \A c \in Clients : Due(c)' = Due(c)

\* A step that changes nothing of the room.
LEMMA RoomStutter ==
    ASSUME SameRoom, SameSaid, SameDue, joinQ' = joinQ, sent' = sent,
           \A c \in Clients : Alive(c)' = Alive(c)
    PROVE  UNCHANGED Room!vars
BY DEF Room!vars, SameRoom, SameSaid, SameDue, RoomState, Members, Parting, Said, Due, Alive, Seated

\* A line that a user sends.
LEMMA RoomSay ==
    ASSUME NEW c \in Clients, Alive(c), SameRoom, SameDue, joinQ' = joinQ,
           sent \in [Clients -> Nat], sent' = [sent EXCEPT ![c] = @ + 1],
           Said(c)' = Append(Said(c), [kind |-> "MESG", from |-> c, n |-> sent[c] + 1]),
           \A k \in Clients : k # c => Said(k)' = Said(k),
           \A k \in Clients : Alive(k)' = Alive(k)
    PROVE  Room!Say(c)
BY DEF Room!Say, Room!Message, SameRoom, SameDue, RoomState, Members, Parting, Said, Due, Alive, Seated

-----------------------------------------------------------------------------
(* RoomInv is inductive *)

\* Whatever FIFO was open stays open, or is dropped with its content.
LEMMA OpenedKept ==
    ASSUME JoinInv, Exact, [Next]_vars, NEW p \in Pipe, Opened(p, fds, hand)
    PROVE  Opened(p, fds', hand') \/ buf'[p] = <<>>
<1>t. /\ TypeOK /\ DescriptorInv /\ hand \in [Pipe -> Pipe \cup {None}]
  BY DEF JoinInv, TableInv, DescriptorInv, TypeOK, ClientTypeOK
<1>p. p # None
  BY NoneAssumption
<1>1. CASE HandleJoin
  <2>1. hand' = hand
    BY <1>1 DEF HandleJoin, procs
  <2>2. CASE fds' = fds
    BY <2>1, <2>2 DEF Opened
  <2>3. ASSUME NEW e \in Entry, Added(e, Head(joinQ))
        PROVE  Opened(p, fds', hand')
    <3>1. \A f \in Fd : fds[f] = p => fds'[f] = p
      BY <1>p, <2>3 DEF Added, OwnFds
    <3> QED
      BY <2>1, <3>1 DEF Opened
  <2> QED
    BY <1>1, <1>t, <2>2, <2>3, JoinSlots
<1>2. CASE DepartClient \/ ShutdownClose \/ ServerExit
  <2>1. hand' = hand /\ buf' = Kept(buf, fds', hand)
    BY <1>2 DEF DepartClient, ShutdownClose, CloseClient, ServerExit, procs
  <2> QED
    BY <2>1 DEF Kept
<1>3. CASE hand' = hand /\ fds' = fds
  BY <1>3 DEF Opened
<1>4. ASSUME NEW c \in Clients, ClientStep(c)
      PROVE  Opened(p, fds', hand') \/ buf'[p] = <<>>
  <2>1. fds' = fds
    BY <1>4, ClientLeavesServer DEF server
  <2>2. ASSUME NEW b, Release(c, b)
        PROVE  Opened(p, fds', hand') \/ buf'[p] = <<>>
    <3>1. buf' = Kept(b, fds', hand')
      BY <2>1, <2>2 DEF Release
    <3> QED
      BY <3>1 DEF Kept
  <2>3. ASSUME NEW d \in Dir, hand[<<d, c>>] = None,
               hand' = [hand EXCEPT ![<<d, c>>] = link[<<d, NameOf[c]>>]]
        PROVE  Opened(p, fds', hand')
    <3>1. \A k \in Pipe : hand[k] = p => hand'[k] = p
      BY <1>t, <1>p, <2>3
    <3> QED
      BY <2>1, <3>1 DEF Opened
  <2>4. OpenToClient(c) => hand[<<"toClient", c>>] = None
    BY AllUnique DEF OpenToClient, Advance, JoinInv, Held
  <2>5. OpenToServer(c) => hand[<<"toServer", c>>] = None
    BY AllUnique DEF OpenToServer, Advance, JoinInv, Held
  <2>6. CASE OpenToClient(c) \/ OpenToServer(c)
    BY <2>3, <2>4, <2>5, <2>6 DEF OpenToClient, OpenToServer, OpenOwn, Dir
  <2>7. CASE MkfifoToClient(c) \/ MkfifoToServer(c) \/ Join(c) \/ Send(c) \/ EndOfInput(c)
             \/ Depart(c)
    <3>1. hand' = hand
      BY <2>7 DEF MkfifoToClient, MkfifoToServer, Mkfifo, Join, Send, EndOfInput, Depart
    <3> QED
      BY <1>3, <2>1, <3>1
  <2>8. CASE Exit(c) \/ RecvFails(c) \/ Kill(c)
    BY <2>2, <2>8 DEF Exit, RecvFails, Kill
  <2>9. CASE Recv(c)
    <3>1. hand' = hand \/ \E b : Release(c, b)
      BY <2>9 DEF Recv, procs
    <3> QED
      BY <1>3, <2>1, <2>2, <3>1
  <2> QED
    BY <1>4, <2>6, <2>7, <2>8, <2>9 DEF ClientStep, Progress, Setup
<1>5. CASE UNCHANGED vars \/ ServerStep \/ Signal
  <2>1. hand' = hand
    BY <1>5, ServerLeavesProcs DEF vars, procs
  <2> QED
    BY <1>1, <1>2, <1>3, <2>1, FdsSame
<1> QED
  BY <1>4, <1>5 DEF Next

\* BufHeld is kept by every step.
LEMMA BufHeldStep ==
    ASSUME JoinInv, BufHeld, [Next]_vars
    PROVE  BufHeld'
<1>1. SUFFICES ASSUME Exact', NEW p \in Pipe, buf'[p] # <<>>
               PROVE  Opened(p, fds', hand')
  BY DEF BufHeld
<1>2. Exact /\ TypeOK
  BY <1>1, ExactOnce DEF JoinInv, TableInv, DescriptorInv
<1>3. SUFFICES ASSUME ~Opened(p, fds', hand') PROVE Opened(p, fds, hand)
  BY <1>1, <1>2, OpenedKept
<1>4. CASE buf[p] # <<>>
  BY <1>2, <1>4 DEF BufHeld
<1>5. p # None /\ \A fd : p = PipeAt(fd) => \E f \in Fd : fds[f] = p
  BY NoneAssumption DEF PipeAt
<1>6. \A c \in Clients : p = hand[<<"toServer", c>>] => \E k \in Pipe : hand[k] = p
  BY DEF Pipe, Dir
<1> QED
  BY <1>1, <1>2, <1>3, <1>4, <1>5, <1>6, BufSteps DEF BufMove, Opened

\* ClosingSlots is kept by every step.
LEMMA ClosingSlotsStep ==
    ASSUME DescriptorInv, PhaseInv, ClosingSlots, [Next]_vars
    PROVE  ClosingSlots'
<1>t. client \in Seq(Entry) /\ Len(client) \in Nat /\ idx \in Nat \ {0}
  BY DEF DescriptorInv, TypeOK, ServerTypeOK
<1>1. SUFFICES ASSUME Exact'
               PROVE  /\ pc' \in {"shut", "done"} => idx' = 1 \/ (idx' = 2 /\ Len(client') <= 1)
                      /\ pc' = "unlink" /\ mesg'.kind = "SHUTDOWN" => idx' = 1
  BY DEF ClosingSlots
<1>2. Exact
  BY <1>1, ExactOnce
<1>3. CASE UNCHANGED vars \/ \E c \in Clients : ClientStep(c)
  BY <1>2, <1>3, ClientLeavesServer DEF vars, server, ClosingSlots
<1>4. CASE ServerStart \/ NextRound \/ ShutdownStart \/ CheckSources \/ SkipJoin \/ SkipClient
           \/ HandleJoin \/ HandleClient \/ EndScan \/ WriteOne \/ JoinDone \/ MesgDone
           \/ RemoveDeparted
  BY <1>4 DEF ServerStart, NextRound, ShutdownStart, CheckSources, SkipJoin, SkipClient,
     HandleJoin, HandleClient, EndScan, WriteOne, JoinDone, MesgDone, RemoveDeparted,
     StartBroadcast
<1>5. CASE DepartClient
  BY <1>5 DEF DepartClient, CloseClient
<1>6. CASE Signal \/ ServerExit
  BY <1>2, <1>6 DEF Signal, ServerExit, ClosingSlots
<1>7. CASE ShutdownLoop
  BY <1>7 DEF ShutdownLoop, EndBroadcast, PhaseInv, Loops
<1>8. CASE ShutdownClose
  BY <1>2, <1>8, <1>t DEF ShutdownClose, CloseClient, ClosingSlots
<1>9. CASE ShutdownRemove
  <2>1. idx = 1 /\ idx' = idx + 1 /\ pc' = "shut"
    BY <1>2, <1>9 DEF ShutdownRemove, UnlinkAndShift, ClosingSlots
  <2>2. Len(client') = Len(client) - 1 /\ Len(client) - idx <= 1
    BY <1>1, <1>9, ShiftSlots DEF Exact
  <2> QED
    BY <1>t, <2>1, <2>2
<1> QED
  BY <1>3, <1>4, <1>5, <1>6, <1>7, <1>8, <1>9 DEF Next, ServerStep

\* RoomInv holds initially ...
LEMMA RoomInit == Init => RoomInv
<1> SUFFICES ASSUME Init PROVE RoomInv
  OBVIOUS
<1>1. FlowInv
  BY FlowInit
<1>2. SlotsFull /\ ClosingSlots
  BY DEF Init, SlotsFull, ClosingSlots
<1>3. BufHeld
  BY DEF Init, BufHeld
<1> QED
  BY <1>1, <1>2, <1>3, SeatsFromFlow, HandsFromFlow DEF RoomInv

\* ... and always, where there is room for all clients.
THEOREM RoomInvCorrect ==
    ASSUME Enough
    PROVE  Spec => []RoomInv
<1> DEFINE Full == Exact => SlotsFull
           Core == FlowInv /\ Full /\ BufHeld /\ ClosingSlots
<1>1. Init => Core
  BY RoomInit DEF RoomInv
<1>2. FlowInv => Full
  BY DEF FlowInv, JoinInv, Exact, Distinct
<1>3. Core /\ [Next]_vars => FlowInv' /\ BufHeld' /\ ClosingSlots'
  BY FlowStep, BufHeldStep, ClosingSlotsStep DEF FlowInv, JoinInv, TableInv
<1>4. Core => RoomInv
  BY SeatsFromFlow, HandsFromFlow DEF RoomInv
<1> HIDE DEF Full
<1>5. Core /\ [Next]_vars => Core'
  BY <1>2, <1>3, PTL
<1> HIDE DEF Core
<1> QED
  BY <1>1, <1>4, <1>5, PTL DEF Spec

-----------------------------------------------------------------------------
(* The room's actions, in the terms of the server *)

\* The server opens.
LEMMA RoomOpen ==
    ASSUME pc = "start", RoomState' = "open", Members' = Members, Parting' = Parting,
           SameSaid, SameDue, joinQ' = joinQ, sent' = sent, UNCHANGED st
    PROVE  Room!Open
BY DEF Room!Open, SameSaid, SameDue, RoomState, Members, Parting, Said, Due, Alive, Seated

\* A join request.
LEMMA RoomAsk ==
    ASSUME NEW c \in Clients, RoomState = "open", SameRoom, SameSaid, SameDue,
           joinQ' = Append(joinQ, c), sent' = sent,
           \A k \in Clients : Alive(k)' = Alive(k)
    PROVE  Room!Ask(c)
BY DEF Room!Ask, SameRoom, SameSaid, SameDue, RoomState, Members, Parting, Said, Due, Alive, Seated

\* An admission.
LEMMA RoomAdmit ==
    ASSUME joinQ # <<>>, joinQ' = Tail(joinQ), RoomState = "open", RoomState' = "open",
           Members' = Members \cup {Head(joinQ)}, Parting' = Parting, SameSaid,
           \A c \in Clients :
             Due(c)' = IF c \in Members'
                       THEN Append(Due(c), [kind |-> "JOINED", from |-> Head(joinQ), n |-> 0])
                       ELSE Due(c),
           sent' = sent, UNCHANGED st
    PROVE  Room!Admit
BY DEF Room!Admit, Room!Tell, Room!Message, SameSaid, RoomState, Members, Parting, Said, Due,
   Alive, Seated

\* The end of a user's input.
LEMMA RoomGoodbye ==
    ASSUME NEW c \in Clients, Alive(c), SameRoom, SameDue, joinQ' = joinQ, sent' = sent,
           Said(c)' = Append(Said(c), [kind |-> "DEPARTED", from |-> c, n |-> 0]),
           \A k \in Clients : k # c => Said(k)' = Said(k),
           \A k \in Clients : Alive(k)' = Alive(k)
    PROVE  Room!Goodbye(c)
BY DEF Room!Goodbye, Room!Message, SameRoom, SameDue, RoomState, Members, Parting, Said, Due,
   Alive, Seated

\* A message is passed on.
LEMMA RoomRelay ==
    ASSUME NEW c \in Clients, RoomState = "open", RoomState' = "open", c \in Members,
           Said(c) # <<>>, Said(c)' = Tail(Said(c)),
           \A k \in Clients : k # c => Said(k)' = Said(k),
           Members' = Members,
           \A k \in Clients :
             Due(k)' = IF k \in Members THEN Append(Due(k), Head(Said(c))) ELSE Due(k),
           Parting' = IF Head(Said(c)).kind = "DEPARTED" THEN Parting \cup {c} ELSE Parting,
           joinQ' = joinQ, sent' = sent, UNCHANGED st
    PROVE  Room!Relay(c)
BY DEF Room!Relay, Room!Tell, RoomState, Members, Parting, Said, Due, Alive, Seated

\* A member is let go.
LEMMA RoomLeave ==
    ASSUME NEW c \in Clients, c \in Members, c \in Parting,
           RoomState' = RoomState, Members' = Members \ {c}, Parting' = Parting \ {c},
           Said(c)' = IF Alive(c) THEN Said(c) ELSE <<>>,
           Due(c)' = IF Alive(c) THEN Due(c) ELSE <<>>,
           \A k \in Clients : k # c => Said(k)' = Said(k) /\ Due(k)' = Due(k),
           joinQ' = joinQ, sent' = sent, UNCHANGED st
    PROVE  Room!Leave(c)
<1> DEFINE said == [k \in Clients |-> Said(k)]
           due == [k \in Clients |-> Due(k)]
           alive == [k \in Clients |-> Alive(k)]
<1>1. IF alive[c] THEN UNCHANGED <<said, due>>
      ELSE said' = [said EXCEPT ![c] = <<>>] /\ due' = [due EXCEPT ![c] = <<>>]
  <2>1. CASE Alive(c)
    BY <2>1
  <2>2. CASE ~Alive(c)
    BY <2>2
  <2> QED
    BY <2>1, <2>2
<1>2. UNCHANGED <<RoomState, joinQ, sent, alive>>
  BY DEF Alive
<1> QED
  BY <1>1, <1>2 DEF Room!Leave, Room!Dropped, RoomState, Members, Parting, Said, Due,
     Alive, Seated

\* A message is read.
LEMMA RoomRead ==
    ASSUME NEW c \in Clients, Alive(c), SameRoom, SameSaid, joinQ' = joinQ, sent' = sent,
           Due(c) # <<>>, Due(c)' = Tail(Due(c)),
           \A k \in Clients : k # c => Due(k)' = Due(k),
           \A k \in Clients : Alive(k)' = Alive(k)
    PROVE  Room!Read(c)
<1>1. [k \in Clients |-> Due(k)]' = [[k \in Clients |-> Due(k)] EXCEPT ![c] = Tail(@)]
  OBVIOUS
<1>2. [k \in Clients |-> Due(k)][c] # <<>> /\ [k \in Clients |-> Alive(k)][c]
  OBVIOUS
<1>3. UNCHANGED <<RoomState, joinQ, Members, Parting, [k \in Clients |-> Said(k)], sent,
                  [k \in Clients |-> Alive(k)]>>
  BY DEF SameRoom, SameSaid
<1> QED
  BY <1>1, <1>2, <1>3 DEF Room!Read, RoomState, Members, Parting, Said, Due, Alive, Seated

\* A process ends.
LEMMA RoomEnd ==
    ASSUME NEW c \in Clients, Alive(c), ~Alive(c)',
           \A k \in Clients : k # c => Alive(k)' = Alive(k),
           SameRoom, joinQ' = joinQ, sent' = sent,
           \A k \in Clients : k # c => Said(k)' = Said(k) /\ Due(k)' = Due(k),
           \/ c \in Members /\ Said(c)' = Said(c) /\ Due(c)' = Due(c)
           \/ c \notin Members /\ Said(c)' = <<>> /\ Due(c)' = <<>>
           \/ RoomState = "over" /\ Said(c)' = Said(c) /\ Due(c)' = Due(c)
           \/ RoomState = "over" /\ Said(c)' = Said(c) /\ Due(c)' = Tail(Due(c))
    PROVE  Room!End(c)
<1> DEFINE said == [k \in Clients |-> Said(k)]
           due == [k \in Clients |-> Due(k)]
           alive == [k \in Clients |-> Alive(k)]
<1>1. alive[c] /\ alive' = [alive EXCEPT ![c] = FALSE]
  <2>1. \A k \in Clients : Alive(k)' = IF k = c THEN FALSE ELSE Alive(k)
    BY DEF Alive
  <2>2. [k \in Clients |-> Alive(k)'] = [k \in Clients |-> IF k = c THEN FALSE ELSE Alive(k)]
    BY <2>1, Zenon
  <2> QED
    BY <2>2
<1>2. \/ c \in Members /\ UNCHANGED <<said, due>>
      \/ c \notin Members /\ said' = [said EXCEPT ![c] = <<>>] /\ due' = [due EXCEPT ![c] = <<>>]
      \/ RoomState = "over" /\ UNCHANGED <<said, due>>
      \/ RoomState = "over" /\ due' = [due EXCEPT ![c] = Tail(@)] /\ UNCHANGED said
  OBVIOUS
<1>3. UNCHANGED <<RoomState, joinQ, Members, Parting, sent>>
  BY DEF SameRoom
<1> QED
  BY <1>1, <1>2, <1>3 DEF Room!End, Room!Dropped, RoomState, Members, Parting, Said, Due,
     Alive, Seated

\* What a process leaves behind goes while the room closes.
LEMMA RoomForget ==
    ASSUME NEW c \in Clients, RoomState = "over", ~Alive(c), SameRoom,
           Said(c)' = <<>>, Due(c)' = <<>>,
           \A k \in Clients : k # c => Said(k)' = Said(k) /\ Due(k)' = Due(k),
           joinQ' = joinQ, sent' = sent, UNCHANGED st
    PROVE  Room!Forget(c)
BY DEF Room!Forget, Room!Dropped, SameRoom, RoomState, Members, Parting, Said, Due, Alive, Seated

\* The server closes.
LEMMA RoomClose ==
    ASSUME RoomState = "open", RoomState' = "over", Members' = {}, Parting' = Parting,
           joinQ' = <<>>, SameSaid,
           \A c \in Clients : Due(c)' = IF c \in Members THEN Append(Due(c), NoMesg) ELSE Due(c),
           sent' = sent, UNCHANGED st
    PROVE  Room!Close
BY DEF Room!Close, Room!Tell, Room!Message, NoMesg, SameSaid, RoomState, Members, Parting, Said,
   Due, Alive, Seated

-----------------------------------------------------------------------------
(* What the steps do to the FIFOs of a client *)

\* A FIFO is open where its client is in the table or has it open.
LEMMA OpenedBy ==
    ASSUME FdSeats, HandsOwn, Exact, NEW c \in Clients, NEW d \in Dir
    PROVE  Opened(<<d, c>>, fds, hand) <=> Seated(c) \/ hand[<<d, c>>] = <<d, c>>
<1>1. (\E k \in Pipe : hand[k] = <<d, c>>) <=> hand[<<d, c>>] = <<d, c>>
  <2>1. ASSUME NEW k \in Pipe, hand[k] = <<d, c>>
        PROVE  k = <<d, c>>
    <3>1. PICK e \in Dir, x \in Clients : k = <<e, x>>
      BY DEF Pipe
    <3>2. hand[k] # None
      BY <2>1, NoneAssumption DEF Pipe
    <3> QED
      BY <2>1, <3>1, <3>2 DEF HandsOwn
  <2> QED
    BY <2>1 DEF Pipe
<1> QED
  BY <1>1 DEF Opened, FdSeats

\* The same of the state after a step: FIFOs that a step may drop keep what they
\* held where their client is still in the table or still has them open.
LEMMA KeptAt ==
    ASSUME RoomInv', Exact', NEW b \in [Pipe -> Seq(Mesg)], buf' = Kept(b, fds', hand'),
           NEW c \in Clients, NEW d \in Dir
    PROVE  buf'[<<d, c>>] = IF Seated(c)' \/ hand'[<<d, c>>] = <<d, c>>
                            THEN b[<<d, c>>] ELSE <<>>
<1>1. Opened(<<d, c>>, fds', hand') <=> Seated(c)' \/ hand'[<<d, c>>] = <<d, c>>
  <2>1. (\E k \in Pipe : hand'[k] = <<d, c>>) <=> hand'[<<d, c>>] = <<d, c>>
    <3>1. ASSUME NEW k \in Pipe, hand'[k] = <<d, c>>
          PROVE  k = <<d, c>>
      <4>1. PICK e \in Dir, x \in Clients : k = <<e, x>>
        BY DEF Pipe
      <4>2. hand'[k] # None
        BY <3>1, NoneAssumption DEF Pipe
      <4> QED
        BY <3>1, <4>1, <4>2 DEF RoomInv, HandsOwn
    <3> QED
      BY <3>1 DEF Pipe
  <2>2. (\E f \in Fd : fds'[f] = <<d, c>>) <=> Seated(c)'
    BY DEF RoomInv, FdSeats
  <2> QED
    BY <2>1, <2>2 DEF Opened
<1> QED
  BY <1>1 DEF Kept, Pipe

\* What is in a FIFO is held by the table or by its client.
LEMMA HeldAt ==
    ASSUME RoomInv, Exact, NEW c \in Clients, NEW d \in Dir, buf[<<d, c>>] # <<>>
    PROVE  Seated(c) \/ hand[<<d, c>>] = <<d, c>>
BY OpenedBy DEF RoomInv, BufHeld, Pipe

\* A client that is still to be written to is in the table.
LEMMA PendingSeated ==
    ASSUME TypeOK, NEW c, Pending(c)
    PROVE  Seated(c) /\ pc = "bcast"
BY DEF Pending, Seated, Live, TypeOK, ServerTypeOK

\* While the server does nothing, the room changes in what clients do only.
LEMMA ClientKeeps ==
    ASSUME UNCHANGED server
    PROVE  /\ SameRoom
           /\ mesg' = mesg
           /\ \A c : Seated(c)' = Seated(c) /\ Pending(c)' = Pending(c)
BY DEF server, SameRoom, RoomState, Members, Parting, Seated, Live, Closing, Pending

-----------------------------------------------------------------------------
(* The steps of the clients *)

\* Making and opening FIFOs and the end of input change nothing of the room; a
\* join request adds to the lobby.
LEMMA RoomSetupStep ==
    ASSUME RoomInv, NEW c \in Clients,
           \/ MkfifoToClient(c) \/ MkfifoToServer(c) \/ OpenToClient(c) \/ OpenToServer(c)
           \/ EndOfInput(c) \/ Join(c)
    PROVE  Room!Ask(c) \/ UNCHANGED Room!vars
<1>t. st \in [Clients -> {"new", "mkC", "opC", "mkS", "opS", "in",
                          "leaving", "left", "exited", "gone"}]
  BY DEF RoomInv, FlowInv, JoinInv, TableInv, DescriptorInv, TypeOK, ClientTypeOK
<1>1. UNCHANGED server /\ buf' = buf /\ sent' = sent
  BY DEF MkfifoToClient, MkfifoToServer, Mkfifo, OpenToClient, OpenToServer, OpenOwn,
     EndOfInput, Join, fifos
<1>2. \A k \in Clients : Alive(k)' = Alive(k)
  BY <1>t DEF MkfifoToClient, MkfifoToServer, OpenToClient, OpenToServer, EndOfInput, Join,
     Advance, Alive
<1>3. SameRoom /\ SameSaid /\ SameDue
  BY <1>1, ClientKeeps DEF SameSaid, SameDue, Said, Due
<1>4. CASE joinQ' = joinQ
  BY <1>1, <1>2, <1>3, <1>4, RoomStutter
<1>5. CASE Join(c) /\ joinFile = "live" /\ joinQ' = Append(joinQ, c)
  <2>1. RoomState = "open"
    BY <1>5 DEF RoomInv, FlowInv, PhaseInv, JoinFifo, RoomState
  <2> QED
    BY <1>1, <1>2, <1>3, <1>5, <2>1, RoomAsk
<1> QED
  BY <1>4, <1>5 DEF MkfifoToClient, MkfifoToServer, Mkfifo, OpenToClient, OpenToServer, OpenOwn,
     EndOfInput, Join, fifos

\* What a client writes is said in the room.
LEMMA RoomWriteStep ==
    ASSUME RoomInv, Exact, NEW c \in Clients, NEW m \in Mesg, WriteToServer(c, m),
           UNCHANGED server, st[c] \in {"in", "leaving"}
    PROVE  /\ Alive(c) /\ SameRoom /\ SameDue
           /\ Said(c)' = Append(Said(c), m)
           /\ \A k \in Clients : k # c => Said(k)' = Said(k)
<1> DEFINE p == <<"toServer", c>>
<1>t. buf \in [Pipe -> Seq(Mesg)] /\ p \in Pipe /\ p # None
  BY NoneAssumption DEF RoomInv, FlowInv, JoinInv, TableInv, DescriptorInv, TypeOK, FifoTypeOK,
     Pipe, Dir
<1>1. hand[p] = p
  BY AllUnique DEF RoomInv, FlowInv, JoinInv, Held
<1>2. buf' = [buf EXCEPT ![p] = Append(@, m)]
  BY <1>1, <1>t DEF WriteToServer
<1>3. buf'[p] = Append(buf[p], m)
  BY <1>t, <1>2
<1>4. \A k \in Clients : /\ k # c => buf'[<<"toServer", k>>] = buf[<<"toServer", k>>]
                         /\ buf'[<<"toClient", k>>] = buf[<<"toClient", k>>]
  BY <1>t, <1>2 DEF Pipe, Dir
<1> QED
  BY <1>3, <1>4, ClientKeeps DEF Said, SameDue, Due, Alive

\* Lines and farewells.
LEMMA RoomSpeakStep ==
    ASSUME RoomInv, Exact, NEW c \in Clients, Send(c) \/ Depart(c)
    PROVE  Room!Say(c) \/ Room!Goodbye(c)
<1>t. /\ sent \in [Clients -> Nat]
      /\ st \in [Clients -> {"new", "mkC", "opC", "mkS", "opS", "in",
                             "leaving", "left", "exited", "gone"}]
  BY DEF RoomInv, FlowInv, JoinInv, TableInv, DescriptorInv, TypeOK, ClientTypeOK
<1>1. CASE Send(c)
  <2> DEFINE m == [kind |-> "MESG", from |-> c, n |-> sent[c] + 1]
  <2>1. /\ WriteToServer(c, m) /\ UNCHANGED server /\ st[c] = "in" /\ joinQ' = joinQ
        /\ sent' = [sent EXCEPT ![c] = @ + 1] /\ st' = st
    BY <1>1 DEF Send
  <2>2. m \in Mesg
    BY <1>t DEF Mesg
  <2> HIDE DEF m
  <2>3. /\ Alive(c) /\ SameRoom /\ SameDue /\ Said(c)' = Append(Said(c), m)
        /\ \A k \in Clients : k # c => Said(k)' = Said(k)
    BY <2>1, <2>2, RoomWriteStep
  <2> USE DEF m
  <2>4. \A k \in Clients : Alive(k)' = Alive(k)
    BY <2>1 DEF Alive
  <2> QED
    BY <1>t, <2>1, <2>3, <2>4, RoomSay
<1>2. CASE Depart(c)
  <2> DEFINE m == [kind |-> "DEPARTED", from |-> c, n |-> 0]
  <2>1. /\ WriteToServer(c, m) /\ UNCHANGED server /\ st[c] = "leaving" /\ joinQ' = joinQ
        /\ sent' = sent /\ st' = [st EXCEPT ![c] = "left"]
    BY <1>2 DEF Depart, Advance
  <2>2. m \in Mesg
    BY DEF Mesg
  <2> HIDE DEF m
  <2>3. /\ Alive(c) /\ SameRoom /\ SameDue /\ Said(c)' = Append(Said(c), m)
        /\ \A k \in Clients : k # c => Said(k)' = Said(k)
    BY <2>1, <2>2, RoomWriteStep
  <2> USE DEF m
  <2>4. \A k \in Clients : Alive(k)' = Alive(k)
    BY <1>t, <2>1 DEF Alive
  <2> QED
    BY <2>1, <2>3, <2>4, RoomGoodbye
<1> QED
  BY <1>1, <1>2

\* A process that ends takes nothing with it that others hold.
LEMMA RoomReleaseStep ==
    ASSUME RoomInv, RoomInv', Exact, Exact', NEW c \in Clients, NEW b \in [Pipe -> Seq(Mesg)],
           Release(c, b), Alive(c), ~Alive(c)',
           \A k \in Clients : k # c => Alive(k)' = Alive(k),
           \A k \in Clients, d \in Dir : k # c => b[<<d, k>>] = buf[<<d, k>>],
           b[<<"toServer", c>>] = buf[<<"toServer", c>>],
           \/ b[<<"toClient", c>>] = buf[<<"toClient", c>>]
           \/ Closing /\ buf[<<"toClient", c>>] # <<>>
              /\ b[<<"toClient", c>>] = Tail(buf[<<"toClient", c>>])
    PROVE  Room!End(c)
<1>t. /\ TypeOK /\ mesg \in Mesg /\ \A p \in Pipe : buf[p] \in Seq(Mesg)
      /\ hand \in [Pipe -> Pipe \cup {None}]
  BY DEF RoomInv, FlowInv, JoinInv, TableInv, DescriptorInv, TypeOK, ServerTypeOK, FifoTypeOK,
     ClientTypeOK
<1>1. UNCHANGED server /\ joinQ' = joinQ /\ sent' = sent /\ buf' = Kept(b, fds', hand')
  BY DEF Release, server
<1>2. \A k \in Clients, d \in Dir : hand'[<<d, k>>] = IF k = c THEN None ELSE hand[<<d, k>>]
  BY DEF Release, Pipe
<1>3. /\ SameRoom /\ mesg' = mesg
      /\ \A k \in Clients : Seated(k)' = Seated(k) /\ Pending(k)' = Pending(k)
  BY <1>1, ClientKeeps
<1>4. ASSUME NEW k \in Clients, NEW d \in Dir
      PROVE  buf'[<<d, k>>] = IF Seated(k) \/ (k # c /\ hand[<<d, k>>] = <<d, k>>)
                              THEN b[<<d, k>>] ELSE <<>>
  <2>1. buf'[<<d, k>>] = IF Seated(k)' \/ hand'[<<d, k>>] = <<d, k>> THEN b[<<d, k>>] ELSE <<>>
    BY <1>1, KeptAt
  <2>2. <<d, k>> # None
    BY NoneAssumption DEF Pipe
  <2>3. hand'[<<d, k>>] = <<d, k>> <=> k # c /\ hand[<<d, k>>] = <<d, k>>
    BY <1>2, <2>2
  <2>4. Seated(k)' = Seated(k)
    BY <1>3
  <2> QED
    BY <2>1, <2>3, <2>4
<1>5. \A k \in Clients, d \in Dir : k # c => buf'[<<d, k>>] = buf[<<d, k>>]
  BY <1>4, HeldAt
<1>6. \A k \in Clients : k # c => Said(k)' = Said(k) /\ Due(k)' = Due(k)
  <2>1. ASSUME NEW k \in Clients, k # c
        PROVE  /\ buf'[<<"toServer", k>>] = buf[<<"toServer", k>>]
               /\ buf'[<<"toClient", k>>] = buf[<<"toClient", k>>]
    BY <1>5, <2>1 DEF Dir
  <2> QED
    BY <1>3, <2>1 DEF Said, Due
<1>7. /\ buf'[<<"toServer", c>>] = IF Seated(c) THEN buf[<<"toServer", c>>] ELSE <<>>
      /\ buf'[<<"toClient", c>>] = IF Seated(c) THEN b[<<"toClient", c>>] ELSE <<>>
  BY <1>4 DEF Dir
<1>8. CASE ~Seated(c)
  <2>1. c \notin Members /\ ~Pending(c)
    BY <1>8, <1>t, PendingSeated DEF Members
  <2>2. Said(c)' = <<>> /\ Due(c)' = <<>>
    BY <1>3, <1>7, <1>8, <2>1 DEF Said, Due
  <2> QED
    BY <1>1, <1>3, <1>6, <2>1, <2>2, RoomEnd
<1>9. CASE Seated(c) /\ b[<<"toClient", c>>] = buf[<<"toClient", c>>]
  <2>1. Said(c)' = Said(c) /\ Due(c)' = Due(c)
    BY <1>3, <1>7, <1>9 DEF Said, Due
  <2>2. c \in Members \/ RoomState = "over"
    BY <1>9 DEF Members, RoomState, Closing
  <2> QED
    BY <1>1, <1>3, <1>6, <2>1, <2>2, RoomEnd
<1>10. CASE Seated(c) /\ Closing /\ buf[<<"toClient", c>>] # <<>>
            /\ b[<<"toClient", c>>] = Tail(buf[<<"toClient", c>>])
  <2> DEFINE q == buf[<<"toClient", c>>]
  <2>1. q \in Seq(Mesg) /\ q # <<>>
    BY <1>t, <1>10 DEF Pipe, Dir
  <2>2. Tail(Append(q, mesg)) = Append(Tail(q), mesg)
    BY <1>t, <2>1
  <2>3. Said(c)' = Said(c) /\ Due(c)' = Tail(Due(c))
    BY <1>3, <1>7, <1>10, <2>2 DEF Said, Due
  <2>4. RoomState = "over"
    BY <1>10 DEF RoomState, Closing
  <2> QED
    BY <1>1, <1>3, <1>6, <2>3, <2>4, RoomEnd
<1> QED
  BY <1>8, <1>9, <1>10

\* A client reads what is due to it, or ends.
LEMMA RoomReadStep ==
    ASSUME RoomInv, RoomInv', Exact, Exact', NEW c \in Clients,
           Recv(c) \/ Exit(c) \/ RecvFails(c) \/ Kill(c)
    PROVE  Room!Read(c) \/ Room!End(c)
<1>t. /\ TypeOK /\ mesg \in Mesg /\ buf \in [Pipe -> Seq(Mesg)]
      /\ st \in [Clients -> {"new", "mkC", "opC", "mkS", "opS", "in",
                             "leaving", "left", "exited", "gone"}]
  BY DEF RoomInv, FlowInv, JoinInv, TableInv, DescriptorInv, TypeOK, ServerTypeOK, FifoTypeOK,
     ClientTypeOK
<1>1. CASE Exit(c) \/ RecvFails(c) \/ Kill(c)
  <2>1. /\ Release(c, buf) /\ Alive(c)
        /\ st' = [st EXCEPT ![c] = "exited"] \/ st' = [st EXCEPT ![c] = "gone"]
    BY <1>1 DEF Exit, RecvFails, Kill, Advance, Alive
  <2>2. ~Alive(c)' /\ \A k \in Clients : k # c => Alive(k)' = Alive(k)
    BY <1>t, <2>1 DEF Alive
  <2> QED
    BY <1>t, <2>1, <2>2, RoomReleaseStep
<1>2. CASE Recv(c)
  <2> DEFINE p == <<"toClient", c>>
             b == [buf EXCEPT ![p] = Tail(@)]
  <2>1. p \in Pipe /\ buf[p] \in Seq(Mesg)
    BY <1>t DEF Pipe, Dir
  <2>2. hand[p] = p /\ Alive(c)
    BY <1>2, AllUnique DEF Recv, RoomInv, FlowInv, JoinInv, Held, Alive
  <2>3. /\ buf[p] # <<>>
        /\ \/ /\ Head(buf[p]).kind = "SHUTDOWN"
              /\ st' = [st EXCEPT ![c] = "gone"] /\ Release(c, b)
           \/ buf' = b /\ UNCHANGED <<server, joinQ, procs>>
    BY <1>2, <2>2 DEF Recv, Advance
  <2>4. /\ b \in [Pipe -> Seq(Mesg)] /\ b[p] = Tail(buf[p])
        /\ b[<<"toServer", c>>] = buf[<<"toServer", c>>]
        /\ \A k \in Clients, d \in Dir : k # c => b[<<d, k>>] = buf[<<d, k>>]
    <3>1. Tail(buf[p]) \in Seq(Mesg)
      BY <2>1, <2>3
    <3> QED
      BY <1>t, <2>1, <3>1 DEF Pipe, Dir
  <2>5. \A k \in Clients : b[<<"toServer", k>>] = buf[<<"toServer", k>>]
    BY <2>4 DEF Dir
  <2>6. \A k \in Clients : k # c => b[<<"toClient", k>>] = buf[<<"toClient", k>>]
    BY <2>4 DEF Dir
  <2> HIDE DEF b
  <2>7. CASE Head(buf[p]).kind = "SHUTDOWN" /\ st' = [st EXCEPT ![c] = "gone"] /\ Release(c, b)
    <3>1. 1 \in 1 .. Len(buf[p]) /\ Head(buf[p]) = buf[p][1]
      BY <2>1, <2>3
    <3>2. Closing
      BY <2>7, <3>1 DEF RoomInv, FlowInv, MailInv, ToClientMail
    <3>3. ~Alive(c)' /\ \A k \in Clients : k # c => Alive(k)' = Alive(k)
      BY <1>t, <2>7 DEF Alive
    <3> QED
      BY <2>2, <2>3, <2>4, <2>7, <3>2, <3>3, RoomReleaseStep
  <2>8. CASE buf' = b /\ UNCHANGED <<server, joinQ, procs>>
    <3>1. SameRoom /\ mesg' = mesg /\ \A k : Pending(k)' = Pending(k)
      BY <2>8, ClientKeeps
    <3>2. SameSaid /\ \A k \in Clients : k # c => Due(k)' = Due(k)
      BY <2>5, <2>6, <2>8, <3>1 DEF SameSaid, Said, Due
    <3>3. Append(buf[p], mesg) # <<>>
      BY <1>t, <2>1
    <3>6. Tail(Append(buf[p], mesg)) = Append(Tail(buf[p]), mesg)
      BY <1>t, <2>1, <2>3
    <3>4. Due(c) # <<>> /\ Due(c)' = Tail(Due(c))
      <4>1. buf'[p] = Tail(buf[p]) /\ mesg' = mesg /\ Pending(c)' = Pending(c)
        BY <2>4, <2>8, <3>1
      <4>2. CASE Pending(c)
        BY <3>3, <3>6, <4>1, <4>2 DEF Due
      <4>3. CASE ~Pending(c)
        BY <2>3, <4>1, <4>3 DEF Due
      <4> QED
        BY <4>2, <4>3
    <3>5. sent' = sent /\ joinQ' = joinQ /\ \A k \in Clients : Alive(k)' = Alive(k)
      BY <2>8 DEF procs, Alive
    <3> QED
      BY <2>2, <3>1, <3>2, <3>4, <3>5, RoomRead
  <2> QED
    BY <2>3, <2>7, <2>8
<1> QED
  BY <1>1, <1>2

\* Every step of a client is a step in the room.
LEMMA RoomClientStep ==
    ASSUME RoomInv, RoomInv', Exact, Exact', NEW c \in Clients, ClientStep(c)
    PROVE  [Room!Next]_(Room!vars)
<1>1. \/ Room!Ask(c) \/ UNCHANGED Room!vars \/ Room!Say(c) \/ Room!Goodbye(c)
      \/ Room!Read(c) \/ Room!End(c)
  BY RoomSetupStep, RoomSpeakStep, RoomReadStep DEF ClientStep, Progress, Setup
<1> QED
  BY <1>1 DEF Room!Next

-----------------------------------------------------------------------------
(* The steps of the server between broadcasts and removals *)

\* Who is in the table stays the same between admissions and removals.
LEMMA SeatedSame ==
    ASSUME TypeOK, [Next]_vars, ~HandleJoin, ~DepartClient, ~ShutdownClose,
           ~RemoveDeparted, ~ShutdownRemove, ~ServerExit, NEW c
    PROVE  Seated(c)' = Seated(c)
<1>1. Live' = Live /\ SameSlots
  BY LiveSame, SlotsSame
<1>2. Live \subseteq 1 .. Len(client)
  BY DEF Live
<1> QED
  BY <1>1, <1>2 DEF Seated, SameSlots, SameSlot

\* server_handle_client always broadcasts what it has read.
LEMMA ReadIsBroadcast ==
    ASSUME RoomInv, Exact, HandleClient, pc' # "bcast"
    PROVE  buf' = buf
<1> DEFINE p == PipeAt(client[idx].to_server_fd)
<1>t. TypeOK /\ TableInv /\ NamesOwned /\ buf \in [Pipe -> Seq(Mesg)]
  BY DEF RoomInv, FlowInv, PhaseInv, JoinInv, TableInv, DescriptorInv, TypeOK, FifoTypeOK
<1>1. PICK c \in Clients : p \in {<<"toServer", c>>, None}
  BY <1>t, HandleClientPipe
<1>2. \/ buf' = buf
      \/ p # None /\ buf[p] # <<>> /\ Head(buf[p]).kind \notin {"MESG", "DEPARTED"}
  BY DEF HandleClient, StartBroadcast
<1>3. CASE p = <<"toServer", c>> /\ buf[p] # <<>>
  <2> HIDE DEF p
  <2>1. p \in Pipe
    BY <1>3 DEF Pipe, Dir
  <2>2. 1 \in 1 .. Len(buf[p]) /\ Head(buf[p]) = buf[p][1]
    BY <1>t, <1>3, <2>1
  <2>3. Head(buf[p]).kind \in {"MESG", "DEPARTED"}
    BY <1>3, <2>2 DEF RoomInv, FlowInv, MailInv, ToServerMail
  <2> QED
    BY <1>2, <2>3 DEF p
<1> QED
  BY <1>1, <1>2, <1>3

\* What main does around its broadcasts is not seen in the room.
LEMMA RoomQuietStep ==
    ASSUME RoomInv, Exact, [Next]_vars,
           \/ NextRound \/ CheckSources \/ SkipJoin \/ SkipClient \/ JoinDone \/ MesgDone
           \/ EndScan \/ ShutdownLoop \/ Signal \/ (HandleClient /\ pc' # "bcast")
    PROVE  UNCHANGED Room!vars
<1>t. TypeOK /\ next \in Nat \ {0} /\ Len(client) \in Nat
  BY DEF RoomInv, FlowInv, JoinInv, TableInv, DescriptorInv, TypeOK, ServerTypeOK
<1>1. UNCHANGED <<joinQ, sent, st>>
  BY DEF NextRound, CheckSources, SkipJoin, SkipClient, JoinDone, MesgDone, EndScan,
     ShutdownLoop, Signal, HandleClient, fifos, procs
<1>2. buf' = buf
  BY ReadIsBroadcast DEF NextRound, CheckSources, SkipJoin, SkipClient, JoinDone, MesgDone, EndScan,
     ShutdownLoop, Signal, fifos
<1>3. Closing' = Closing /\ (pc' = "start" <=> pc = "start") /\ Parting' = Parting
  <2>1. CASE NextRound \/ CheckSources \/ SkipJoin \/ SkipClient \/ EndScan
    BY <2>1 DEF NextRound, CheckSources, SkipJoin, SkipClient, EndScan, Closing, Parting
  <2>2. CASE JoinDone \/ MesgDone
    BY <2>2 DEF JoinDone, MesgDone, EndBroadcast, Closing, Parting
  <2>3. CASE ShutdownLoop
    BY <2>3 DEF ShutdownLoop, EndBroadcast, Closing, Parting
  <2>4. CASE HandleClient /\ pc' # "bcast"
    BY <2>4 DEF HandleClient, StartBroadcast, Closing, Parting
  <2>5. CASE Signal
    BY <2>5 DEF Signal, Closing, Parting
  <2> QED
    BY <2>1, <2>2, <2>3, <2>4, <2>5
<1>4. \A c \in Clients : Pending(c)' = Pending(c) /\ (Pending(c) => mesg' = mesg)
  <2>1. CASE Signal
    BY <2>1 DEF Signal, Pending
  <2>2. CASE ~Signal
    <3>1. pc' # "bcast" /\ (pc = "bcast" => next > Len(client))
      BY <2>2 DEF NextRound, CheckSources, SkipJoin, SkipClient, JoinDone, MesgDone, EndScan,
         ShutdownLoop, EndBroadcast, HandleClient
    <3>2. next > Len(client) => next .. Len(client) = {}
      BY <1>t
    <3> QED
      BY <3>1, <3>2 DEF Pending
  <2> QED
    BY <2>1, <2>2
<1>5. \A c \in Clients : Seated(c)' = Seated(c)
  <2>1. \/ pc' = pc
        \/ pc \in {"loop", "poll", "join", "scan", "bcast"} /\ pc' \in {"loop", "poll", "join", "scan", "shut"}
    BY DEF NextRound, CheckSources, SkipJoin, SkipClient, JoinDone, MesgDone, EndScan,
       ShutdownLoop, EndBroadcast, HandleClient, StartBroadcast, Signal
  <2>2. ~HandleJoin /\ ~DepartClient /\ ~ShutdownClose /\ ~RemoveDeparted /\ ~ShutdownRemove
        /\ ~ServerExit
    BY <2>1 DEF HandleJoin, StartBroadcast, DepartClient, EndBroadcast, ShutdownClose, CloseClient,
       RemoveDeparted, ShutdownRemove, ServerExit
  <2> QED
    BY <1>t, <2>2, SeatedSame
<1> QED
  BY <1>1, <1>2, <1>3, <1>4, <1>5, RoomStutter DEF SameRoom, SameSaid, SameDue, RoomState,
     Members, Said, Due, Alive

\* server_start opens the room.
LEMMA RoomOpenStep ==
    ASSUME RoomInv, Exact, ServerStart
    PROVE  Room!Open
<1>1. /\ pc = "start" /\ pc' = "loop" /\ joinQ' = <<>>
      /\ UNCHANGED <<client, mesg, buf, st, sent>>
  BY DEF ServerStart, procs
<1>2. client = <<>> /\ joinQ = <<>> /\ mesg = NoMesg
  BY <1>1 DEF RoomInv, FlowInv, PhaseInv, JoinFifo, Messages
<1>3. RoomState' = "open" /\ ~Closing /\ ~Closing' /\ Parting' = Parting
  BY <1>1 DEF RoomState, Closing, Parting
<1>4. \A c : ~Seated(c) /\ ~Seated(c)'
  BY <1>1, <1>2 DEF Seated, Live
<1>5. Members' = Members
  BY <1>3, <1>4 DEF Members
<1>6. SameSaid /\ SameDue
  BY <1>1 DEF SameSaid, SameDue, Said, Due, Pending
<1> QED
  BY <1>1, <1>2, <1>3, <1>5, <1>6, RoomOpen

-----------------------------------------------------------------------------
(* Broadcasts *)

\* When a broadcast starts, it is due to all in the table.
LEMMA BroadcastDue ==
    ASSUME TypeOK', pc # "bcast", pc' = "bcast", next' = 1, Exact',
           NEW c \in Clients, buf'[<<"toClient", c>>] = buf[<<"toClient", c>>]
    PROVE  Due(c)' = IF Seated(c)' THEN Append(Due(c), mesg') ELSE Due(c)
<1>1. ~Pending(c)
  BY DEF Pending
<1>2. Pending(c)' <=> Seated(c)'
  BY DEF Pending, Seated, Live
<1> QED
  BY <1>1, <1>2 DEF Due

\* server_shutdown tells everyone.
LEMMA RoomCloseStep ==
    ASSUME RoomInv, RoomInv', Exact, Exact', ShutdownStart
    PROVE  Room!Close
<1>1. /\ pc = "loop" /\ pc' = "bcast" /\ next' = 1 /\ mesg' = NoMesg /\ joinQ' = <<>>
      /\ UNCHANGED <<client, idx, buf, st, sent>>
  BY DEF ShutdownStart, StartBroadcast, procs
<1>2. NoMesg.kind = "SHUTDOWN"
  BY DEF NoMesg
<1>3. RoomState = "open" /\ RoomState' = "over" /\ Members' = {} /\ Parting' = Parting /\ ~Closing
  BY <1>1, <1>2 DEF RoomState, Closing, Members, Parting
<1>4. \A c : Seated(c)' = Seated(c)
  BY <1>1 DEF Seated, Live
<1>5. TypeOK'
  BY DEF RoomInv, FlowInv, JoinInv, TableInv, DescriptorInv
<1>6. \A c \in Clients : Due(c)' = IF c \in Members THEN Append(Due(c), NoMesg) ELSE Due(c)
  BY <1>1, <1>3, <1>4, <1>5, BroadcastDue DEF Members
<1>7. SameSaid
  BY <1>1 DEF SameSaid, Said
<1> QED
  BY <1>1, <1>3, <1>6, <1>7, RoomClose

\* server_handle_join admits the client at the head of the join FIFO.
LEMMA RoomAdmitStep ==
    ASSUME Enough, RoomInv, RoomInv', Exact, Exact', [Next]_vars, HandleJoin
    PROVE  Room!Admit
<1> DEFINE h == Head(joinQ)
           m == [kind |-> "JOINED", from |-> h, n |-> 0]
<1>t. DescriptorInv /\ JoinInv /\ client \in Seq(Entry) /\ Len(client) \in Nat /\ TypeOK'
  BY DEF RoomInv, FlowInv, JoinInv, TableInv, DescriptorInv, TypeOK, ServerTypeOK
<1>1. /\ pc = "join" /\ pc' = "bcast" /\ next' = 1 /\ mesg' = m
      /\ joinQ # <<>> /\ joinQ' = Tail(joinQ)
      /\ UNCHANGED <<buf, st, sent>>
  BY DEF HandleJoin, StartBroadcast, procs
<1>2. h \in Clients
  BY <1>t, JoinSlots
<1>3. /\ Len(client') = Len(client) + 1
      /\ \A i \in 1 .. Len(client) : client'[i] = client[i]
      /\ client'[Len(client) + 1].name = NameOf[h]
  <2>1. \A c \in Clients : c = Head(joinQ) =>
          /\ \E e \in Entry : Added(e, c)
          /\ Len(client') = Len(client) + 1
          /\ \A i \in 1 .. Len(client) : client'[i] = client[i]
    BY <1>t, AllUnique, AdmissionServes
  <2>2. PICK e \in Entry : Added(e, h)
    BY <1>2, <2>1
  <2>3. client' = Append(client, e) /\ e.name = NameOf[h]
    BY <2>2 DEF Added
  <2>4. client'[Len(client) + 1] = e
    BY <1>t, <2>3
  <2> QED
    BY <1>2, <2>1, <2>3, <2>4
<1>4. \A c \in Clients : Seated(c)' <=> Seated(c) \/ c = h
  <2>1. Live = 1 .. Len(client) /\ Live' = 1 .. (Len(client) + 1)
    BY <1>1, <1>3 DEF Live
  <2>2. \A i \in 1 .. (Len(client) + 1) : i \in 1 .. Len(client) \/ i = Len(client) + 1
    BY <1>t
  <2>3. 1 .. Len(client) \subseteq 1 .. (Len(client) + 1) /\ Len(client) + 1 \in 1 .. (Len(client) + 1)
    BY <1>t
  <2>4. \A c \in Clients : NameOf[c] = NameOf[h] <=> c = h
    BY <1>2 DEF Exact
  <2> QED
    BY <1>3, <2>1, <2>2, <2>3, <2>4 DEF Seated
<1>5. /\ RoomState = "open" /\ RoomState' = "open" /\ ~Closing /\ ~Closing'
      /\ Parting' = Parting
  BY <1>1 DEF RoomState, Closing, Parting
<1>6. Members' = Members \cup {h}
  BY <1>2, <1>4, <1>5 DEF Members
<1>7. \A c \in Clients : Due(c)' = IF c \in Members' THEN Append(Due(c), m) ELSE Due(c)
  BY <1>t, <1>1, <1>5, BroadcastDue DEF Members
<1>8. SameSaid
  BY <1>1 DEF SameSaid, Said
<1> QED
  BY <1>1, <1>5, <1>6, <1>7, <1>8, RoomAdmit

\* server_handle_client passes on what it has read.
LEMMA RoomRelayStep ==
    ASSUME RoomInv, RoomInv', Exact, Exact', [Next]_vars, HandleClient, pc' = "bcast"
    PROVE  \E c \in Clients : Room!Relay(c)
<1> DEFINE p == PipeAt(client[idx].to_server_fd)
<1>t. /\ TableInv /\ NamesOwned /\ JoinInv /\ PhaseInv /\ MailInv /\ TypeOK'
      /\ buf \in [Pipe -> Seq(Mesg)]
  BY DEF RoomInv, FlowInv, PhaseInv, JoinInv, TableInv, DescriptorInv, TypeOK, FifoTypeOK
<1>1. PICK c \in Clients : client[idx].name = NameOf[c] /\ p \in {<<"toServer", c>>, None}
  BY <1>t, HandleClientPipe
<1>2. /\ p # None /\ buf[p] # <<>> /\ buf' = [buf EXCEPT ![p] = Tail(@)]
      /\ mesg' = Head(buf[p]) /\ next' = 1 /\ pc = "scan"
      /\ UNCHANGED <<client, idx, joinQ, st, sent>>
  BY DEF HandleClient, StartBroadcast, procs
<1>3. p = <<"toServer", c>> /\ p \in Pipe
  BY <1>1, <1>2 DEF Pipe, Dir
<1> HIDE DEF p
<1>4. Said(c) # <<>> /\ mesg' = Head(Said(c)) /\ Said(c)' = Tail(Said(c))
  BY <1>2, <1>3, <1>t DEF Said
<1>5. \A k \in Clients : /\ k # c => Said(k)' = Said(k)
                         /\ buf'[<<"toClient", k>>] = buf[<<"toClient", k>>]
  BY <1>2, <1>3, <1>t DEF Said, Pipe, Dir
<1>6. mesg'.from = c /\ mesg'.kind \in {"MESG", "DEPARTED"}
  <2>1. mesg'.from \in Clients /\ client'[idx'].name = NameOf[mesg'.from]
    BY <1>t, FromSlotRead
  <2>2. mesg'.kind \in {"MESG", "DEPARTED"}
    BY DEF HandleClient, StartBroadcast
  <2> QED
    BY <1>1, <1>2, <2>1, <2>2 DEF Exact
<1>7. \A k : Seated(k)' = Seated(k)
  BY <1>2 DEF Seated, Live
<1>8. RoomState = "open" /\ RoomState' = "open" /\ ~Closing /\ ~Closing'
  BY <1>2, <1>6 DEF RoomState, Closing
<1>9. Members' = Members /\ c \in Members
  <2>1. Seated(c)
    BY <1>1, <1>t, HandleClientPipe DEF Seated
  <2> QED
    BY <1>7, <1>8, <2>1 DEF Members
<1>10. Parting' = IF Head(Said(c)).kind = "DEPARTED" THEN Parting \cup {c} ELSE Parting
  BY <1>2, <1>4, <1>6 DEF Parting
<1>11. \A k \in Clients : Due(k)' = IF k \in Members THEN Append(Due(k), Head(Said(c))) ELSE Due(k)
  BY <1>t, <1>2, <1>4, <1>5, <1>7, <1>8, BroadcastDue DEF Members
<1> QED
  BY <1>2, <1>4, <1>5, <1>8, <1>9, <1>10, <1>11, RoomRelay

\* One write of server_broadcast only turns what is due into what is there.
LEMMA RoomWriteOneStep ==
    ASSUME RoomInv, Exact, WriteOne
    PROVE  UNCHANGED Room!vars
<1> DEFINE p == PipeAt(client[next].to_client_fd)
<1>t. /\ TableInv /\ NamesOwned /\ next \in Nat \ {0} /\ Len(client) \in Nat
      /\ mesg \in Mesg /\ buf \in [Pipe -> Seq(Mesg)] /\ SlotsFull
  BY DEF RoomInv, FlowInv, PhaseInv, JoinInv, TableInv, DescriptorInv, TypeOK, FifoTypeOK,
     ServerTypeOK
<1>1. /\ pc = "bcast" /\ pc' = "bcast" /\ next <= Len(client) /\ next' = next + 1
      /\ UNCHANGED <<client, idx, mesg, joinQ, st, sent>>
      /\ p = None \/ buf' = [buf EXCEPT ![p] = Append(@, mesg)]
  BY DEF WriteOne, procs
<1>2. PICK c \in Clients : client[next].name = NameOf[c]
  BY <1>t, WriteOnePipe
<1>3. p = <<"toClient", c>>
  <2>1. next \in Live /\ next \in 1 .. Len(client)
    BY <1>t, WriteOnePipe DEF Live
  <2>2. Wired(client[next], c)
    BY <1>2, <1>t, <2>1, AllUnique DEF TableInv, SlotsWired, Exact
  <2> QED
    BY <1>t, <2>1, <2>2 DEF Wired, SlotsFull
<1>4. p \in Pipe /\ p # None
  BY <1>3, NoneAssumption DEF Pipe, Dir
<1> HIDE DEF p
<1>5. buf'[<<"toClient", c>>] = Append(buf[<<"toClient", c>>], mesg)
  BY <1>1, <1>3, <1>4, <1>t
<1>6. \A k \in Clients : /\ buf'[<<"toServer", k>>] = buf[<<"toServer", k>>]
                         /\ k # c => buf'[<<"toClient", k>>] = buf[<<"toClient", k>>]
  BY <1>1, <1>3, <1>4, <1>t DEF Pipe, Dir
<1>7. Pending(c) /\ ~Pending(c)'
  <2>1. next \in next .. Len(client)
    BY <1>t, <1>1
  <2>2. \A i \in next + 1 .. Len(client) : i \in 1 .. Len(client) /\ next \in 1 .. Len(client) /\ i # next
    BY <1>t, <1>1
  <2>3. \A i \in next + 1 .. Len(client) : client[i].name # NameOf[c]
    BY <1>2, <1>t, <2>2, AllUnique DEF TableInv, OneSlot, Exact
  <2> QED
    BY <1>1, <1>2, <2>1, <2>3 DEF Pending
<1>8. \A k \in Clients : k # c => Pending(k)' = Pending(k)
  <2>1. next .. Len(client) = (next + 1 .. Len(client)) \cup {next}
    BY <1>t, <1>1
  <2>2. \A k \in Clients : k # c => client[next].name # NameOf[k]
    BY <1>2 DEF Exact
  <2> QED
    BY <1>1, <2>1, <2>2 DEF Pending
<1>9. SameSaid /\ SameDue
  <2>1. Due(c)' = Due(c)
    BY <1>1, <1>5, <1>7 DEF Due
  <2>2. \A k \in Clients : k # c => Due(k)' = Due(k)
    BY <1>1, <1>6, <1>8 DEF Due
  <2> QED
    BY <1>6, <2>1, <2>2 DEF SameSaid, SameDue, Said
<1>10. SameRoom
  BY <1>1 DEF SameRoom, RoomState, Closing, Members, Seated, Live, Parting
<1> QED
  BY <1>1, <1>9, <1>10, RoomStutter DEF Alive

-----------------------------------------------------------------------------
(* Removals *)

\* Closing descriptors drops what nobody else holds, ...
LEMMA ClosedAt ==
    ASSUME RoomInv, RoomInv', Exact, Exact', hand' = hand, buf' = Kept(buf, fds', hand'),
           NEW c \in Clients, NEW d \in Dir, ~Seated(c)' \/ Seated(c)' = Seated(c)
    PROVE  buf'[<<d, c>>] = IF Alive(c) \/ Seated(c)' = Seated(c) THEN buf[<<d, c>>] ELSE <<>>
<1>t. buf \in [Pipe -> Seq(Mesg)] /\ <<d, c>> # None
  BY NoneAssumption DEF RoomInv, FlowInv, JoinInv, TableInv, DescriptorInv, TypeOK, FifoTypeOK, Pipe
<1>1. buf'[<<d, c>>] = IF Seated(c)' \/ hand[<<d, c>>] = <<d, c>> THEN buf[<<d, c>>] ELSE <<>>
  BY <1>t, KeptAt
<1>2. buf[<<d, c>>] # <<>> => Seated(c) \/ hand[<<d, c>>] = <<d, c>>
  BY HeldAt
<1>3. /\ Seated(c) /\ Alive(c) => hand[<<d, c>>] = <<d, c>>
      /\ ~Alive(c) => hand[<<d, c>>] = None
  BY DEF RoomInv, HandsOwn
<1> QED
  BY <1>t, <1>1, <1>2, <1>3

\* ... so that with one client gone from the table, its FIFOs are emptied if it
\* has ended, and no others.
LEMMA OneGone ==
    ASSUME RoomInv, RoomInv', Exact, Exact', UNCHANGED hand, buf' = Kept(buf, fds', hand'),
           NEW c \in Clients, Seated(c), ~Seated(c)',
           \A k \in Clients : k # c => Seated(k)' = Seated(k),
           \A k \in Clients : ~Pending(k) /\ ~Pending(k)'
    PROVE  /\ Said(c)' = IF Alive(c) THEN Said(c) ELSE <<>>
           /\ Due(c)' = IF Alive(c) THEN Due(c) ELSE <<>>
           /\ \A k \in Clients : k # c => Said(k)' = Said(k) /\ Due(k)' = Due(k)
<1>1. \A d \in Dir : buf'[<<d, c>>] = IF Alive(c) THEN buf[<<d, c>>] ELSE <<>>
  BY ClosedAt
<1>2. \A k \in Clients, d \in Dir : k # c => buf'[<<d, k>>] = buf[<<d, k>>]
  BY ClosedAt
<1>3. \A k \in Clients : Due(k) = buf[<<"toClient", k>>] /\ Due(k)' = buf'[<<"toClient", k>>]
  BY DEF Due
<1>4. "toClient" \in Dir /\ "toServer" \in Dir
  BY DEF Dir
<1> QED
  BY <1>1, <1>2, <1>3, <1>4 DEF Said

\* Where the descriptors of slot idx are closed, its client leaves the table.
LEMMA SlotGoes ==
    ASSUME TableInv, Exact, client' = client, NEW c \in Clients, client[idx].name = NameOf[c],
           idx \in Live, Live' = Live \ {idx}
    PROVE  /\ Seated(c) /\ ~Seated(c)'
           /\ \A k \in Clients : k # c => Seated(k)' = Seated(k)
<1>1. \A i \in Live : client[i].name = NameOf[c] => i = idx
  BY AllUnique DEF TableInv, OneSlot, Exact, Live
<1>2. \A k \in Clients : k # c => client[idx].name # NameOf[k]
  BY DEF Exact
<1> QED
  BY <1>1, <1>2 DEF Seated

\* A member whose DEPARTED has been broadcast is let go.
LEMMA RoomLeaveStep ==
    ASSUME RoomInv, RoomInv', Exact, Exact', DepartClient
    PROVE  \E c \in Clients : Room!Leave(c)
<1>t. TableInv /\ DescriptorInv /\ next \in Nat \ {0} /\ Len(client) \in Nat /\ idx \in Nat \ {0}
  BY DEF RoomInv, FlowInv, JoinInv, TableInv, DescriptorInv, TypeOK, ServerTypeOK
<1>1. /\ pc = "bcast" /\ mesg.kind = "DEPARTED" /\ pc' = "unlink" /\ next > Len(client)
      /\ UNCHANGED <<client, idx, mesg, joinQ, st, sent, hand>>
      /\ buf' = Kept(buf, fds', hand')
  BY DEF DepartClient, EndBroadcast, CloseClient, procs
<1>2. PICK c \in Clients : c = mesg.from /\ client[idx].name = NameOf[c]
  BY <1>1 DEF RoomInv, FlowInv, MailInv, FromSlot, Handling
<1>3. idx \in 1 .. Len(client)
  BY <1>1, <1>t DEF DescriptorInv, SlotInUse
<1>4. idx \in Live /\ Live' = Live \ {idx}
  BY <1>1, <1>3 DEF Live
<1>5. /\ Seated(c) /\ ~Seated(c)' /\ \A k \in Clients : k # c => Seated(k)' = Seated(k)
  BY <1>1, <1>2, <1>4, <1>t, SlotGoes
<1>6. next .. Len(client) = {}
  BY <1>1, <1>t
<1>7. \A k \in Clients : ~Pending(k) /\ ~Pending(k)'
  BY <1>1, <1>6 DEF Pending
<1>8. /\ Said(c)' = IF Alive(c) THEN Said(c) ELSE <<>>
      /\ Due(c)' = IF Alive(c) THEN Due(c) ELSE <<>>
      /\ \A k \in Clients : k # c => Said(k)' = Said(k) /\ Due(k)' = Due(k)
  BY <1>1, <1>5, <1>7, OneGone
<1>9. ~Closing /\ ~Closing' /\ RoomState' = RoomState
  BY <1>1 DEF Closing, RoomState
<1>10. c \in Members /\ Members' = Members \ {c}
  BY <1>5, <1>9 DEF Members
<1>11. c \in Parting /\ Parting' = Parting \ {c}
  BY <1>1, <1>2 DEF Parting
<1> QED
  BY <1>1, <1>8, <1>9, <1>10, <1>11, RoomLeave

\* The shift of the array is not seen in the room.
LEMMA RoomShiftStep ==
    ASSUME RoomInv, Exact, Exact', RemoveDeparted \/ ShutdownRemove
    PROVE  UNCHANGED Room!vars
<1>t. DescriptorInv /\ Len(client) \in Nat /\ idx \in Nat \ {0}
  BY DEF RoomInv, FlowInv, JoinInv, TableInv, DescriptorInv, TypeOK, ServerTypeOK
<1>1. /\ pc = "unlink" /\ pc' \in {"scan", "shut"} /\ idx \in 1 .. Len(client)
      /\ Len(client') = Len(client) - 1
      /\ \A k \in 1 .. Len(client') : /\ Old(k) \in (1 .. Len(client)) \ {idx}
                                      /\ client'[k].name = client[Old(k)].name
  BY <1>t, ShiftSlots DEF Exact, SameSlot
<1>2. Live = (1 .. Len(client)) \ {idx} /\ Live' = 1 .. Len(client')
  BY <1>1 DEF Live
<1>3. ASSUME NEW i \in Live
      PROVE  \E k \in Live' : client'[k].name = client[i].name
  <2>1. i < idx => i \in 1 .. Len(client') /\ Old(i) = i
    BY <1>t, <1>1, <1>2 DEF Old
  <2>2. i > idx => i - 1 \in 1 .. Len(client') /\ Old(i - 1) = i
    BY <1>t, <1>1, <1>2 DEF Old
  <2>3. i < idx \/ i > idx
    BY <1>t, <1>2
  <2> QED
    BY <1>1, <1>2, <2>1, <2>2, <2>3
<1>4. \A c : Seated(c)' = Seated(c)
  BY <1>1, <1>2, <1>3 DEF Seated
<1>5. UNCHANGED <<buf, joinQ, st, sent>>
  BY DEF RemoveDeparted, ShutdownRemove, UnlinkAndShift, procs
<1>6. RoomState' = RoomState /\ Closing' = Closing /\ Parting' = Parting
  BY DEF RemoveDeparted, ShutdownRemove, RoomState, Closing, Parting
<1>7. SameRoom
  BY <1>4, <1>6 DEF SameRoom, Members
<1>8. SameSaid /\ SameDue
  BY <1>1, <1>5 DEF SameSaid, SameDue, Said, Due, Pending
<1> QED
  BY <1>5, <1>7, <1>8, RoomStutter DEF Alive

\* What server_shutdown and the exit close matters to those who have ended only.
LEMMA RoomShutStep ==
    ASSUME RoomInv, RoomInv', Exact, Exact', ShutdownClose \/ ServerExit
    PROVE  UNCHANGED Room!vars \/ \E c \in Clients : Room!Forget(c)
<1>t. /\ TableInv /\ NamesOwned /\ next \in Nat \ {0} /\ Len(client) \in Nat /\ idx \in Nat \ {0}
      /\ mesg.kind = "SHUTDOWN"
  <2>1. pc = "shut"
    BY DEF ShutdownClose, ServerExit
  <2>2. mesg = NoMesg
    BY <2>1 DEF RoomInv, FlowInv, PhaseInv, Messages
  <2> QED
    BY <2>2 DEF RoomInv, FlowInv, PhaseInv, JoinInv, TableInv, DescriptorInv, TypeOK, ServerTypeOK,
       NoMesg
<1>1. /\ pc = "shut" /\ pc' \in {"unlink", "done"} /\ buf' = Kept(buf, fds', hand')
      /\ UNCHANGED <<client, idx, mesg, joinQ, st, sent, hand>>
  BY DEF ShutdownClose, CloseClient, ServerExit, procs
<1>2. /\ RoomState = "over" /\ RoomState' = "over" /\ Closing /\ Closing' /\ Parting' = Parting
  BY <1>1, <1>t DEF RoomState, Closing, Parting
<1>3. SameRoom
  BY <1>2 DEF SameRoom, Members
<1>4. \A k \in Clients : ~Pending(k) /\ ~Pending(k)'
  BY <1>1 DEF Pending
<1>5. ASSUME NEW c \in Clients, client[idx].name = NameOf[c] \/ client[1].name = NameOf[c],
             Seated(c), ~Seated(c)', \A k \in Clients : k # c => Seated(k)' = Seated(k)
      PROVE  UNCHANGED Room!vars \/ Room!Forget(c)
  <2>1. /\ Said(c)' = IF Alive(c) THEN Said(c) ELSE <<>>
        /\ Due(c)' = IF Alive(c) THEN Due(c) ELSE <<>>
        /\ \A k \in Clients : k # c => Said(k)' = Said(k) /\ Due(k)' = Due(k)
    BY <1>1, <1>4, <1>5, OneGone
  <2>2. CASE Alive(c)
    <3>1. SameSaid /\ SameDue
      BY <2>1, <2>2 DEF SameSaid, SameDue
    <3>2. \A k \in Clients : Alive(k)' = Alive(k)
      BY <1>1 DEF Alive
    <3> QED
      BY <1>1, <1>3, <3>1, <3>2, RoomStutter
  <2>3. CASE ~Alive(c)
    BY <1>1, <1>2, <1>3, <2>1, <2>3, RoomForget
  <2> QED
    BY <2>2, <2>3
<1>6. CASE ShutdownClose
  <2>1. idx \in 1 .. Len(client) /\ pc' = "unlink"
    BY <1>6, <1>t DEF ShutdownClose, CloseClient
  <2>2. idx \in Live /\ Live' = Live \ {idx}
    BY <1>1, <2>1 DEF Live
  <2>3. PICK c \in Clients : client[idx].name = NameOf[c]
    BY <1>t, <2>1 DEF NamesOwned
  <2> QED
    BY <1>1, <1>5, <1>t, <2>2, <2>3, SlotGoes
<1>7. CASE ServerExit
  <2>1. Live = 1 .. Len(client) /\ Live' = {}
    BY <1>1, <1>7 DEF ServerExit, Live
  <2>2. Len(client) <= 1
    BY <1>1, <1>7, <1>t DEF RoomInv, ClosingSlots, ServerExit
  <2>3. \A k : ~Seated(k)'
    BY <2>1 DEF Seated
  <2>4. CASE Len(client) = 1
    <3>1. PICK c \in Clients : client[1].name = NameOf[c]
      BY <1>t, <2>4 DEF NamesOwned
    <3>2. Live = {1}
      BY <2>1, <2>4
    <3>3. Seated(c) /\ \A k \in Clients : k # c => ~Seated(k)
      BY <3>1, <3>2 DEF Seated, Exact
    <3>4. ~Seated(c)'
      BY <2>3
    <3>5. \A k \in Clients : k # c => Seated(k)' = Seated(k)
      <4> TAKE k \in Clients
      <4> HAVE k # c
      <4>1. ~Seated(k) /\ ~Seated(k)'
        BY <2>3, <3>3
      <4> QED
        BY <4>1 DEF Seated
    <3>6. Seated(c)
      BY <3>3
    <3> HIDE DEF Seated
    <3> QED
      BY <1>5, <3>1, <3>4, <3>5, <3>6
  <2>5. CASE Len(client) = 0
    <3>1. Live = {}
      BY <2>1, <2>5
    <3>2. \A k : ~Seated(k)
      BY <3>1 DEF Seated
    <3>3. \A k \in Clients, d \in Dir : buf'[<<d, k>>] = buf[<<d, k>>]
      <4> TAKE k \in Clients, d \in Dir
      <4>1. ~Seated(k) /\ ~Seated(k)'
        BY <2>3, <3>2
      <4>2. Seated(k)' = Seated(k)
        BY <4>1 DEF Seated
      <4> QED
        BY <1>1, <4>1, <4>2, ClosedAt
    <3>4. "toClient" \in Dir /\ "toServer" \in Dir
      BY DEF Dir
    <3>5. SameSaid /\ SameDue
      BY <1>4, <3>3, <3>4 DEF SameSaid, SameDue, Said, Due
    <3> QED
      BY <1>1, <1>3, <3>5, RoomStutter DEF Alive
  <2> QED
    BY <1>t, <2>2, <2>4, <2>5
<1> QED
  BY <1>6, <1>7

-----------------------------------------------------------------------------
(* The refinement *)

\* Every step of the system is a step in the room.
LEMMA RoomStep ==
    ASSUME Enough, RoomInv, RoomInv', [Next]_vars, Exact'
    PROVE  [Room!Next]_(Room!vars)
<1>1. Exact
  BY ExactOnce
<1>2. CASE UNCHANGED vars
  <2>1. UNCHANGED server /\ UNCHANGED <<buf, joinQ, st, sent>>
    BY <1>2 DEF vars, fifos, procs
  <2>2. SameRoom /\ SameSaid /\ SameDue
    BY <2>1, ClientKeeps DEF SameSaid, SameDue, Said, Due
  <2> QED
    BY <2>1, <2>2, RoomStutter DEF Alive
<1>3. CASE \E c \in Clients : ClientStep(c)
  BY <1>1, <1>3, RoomClientStep
<1>4. CASE ServerStart \/ ShutdownStart \/ HandleJoin
  BY <1>1, <1>4, RoomOpenStep, RoomCloseStep, RoomAdmitStep DEF Room!Next
<1>5. CASE HandleClient /\ pc' = "bcast"
  BY <1>1, <1>5, RoomRelayStep DEF Room!Next
<1>6. CASE DepartClient
  BY <1>1, <1>6, RoomLeaveStep DEF Room!Next
<1>7. CASE ShutdownClose \/ ServerExit
  BY <1>1, <1>7, RoomShutStep DEF Room!Next
<1>8. CASE WriteOne \/ RemoveDeparted \/ ShutdownRemove
  BY <1>1, <1>8, RoomWriteOneStep, RoomShiftStep
<1>9. CASE NextRound \/ CheckSources \/ SkipJoin \/ SkipClient \/ JoinDone \/ MesgDone
           \/ EndScan \/ ShutdownLoop \/ Signal \/ (HandleClient /\ pc' # "bcast")
  BY <1>1, <1>9, RoomQuietStep
<1> QED
  BY <1>2, <1>3, <1>4, <1>5, <1>6, <1>7, <1>8, <1>9 DEF Next, ServerStep

\* The room starts empty.
LEMMA RoomStart == Init => Room!Init
<1> SUFFICES ASSUME Init PROVE Room!Init
  OBVIOUS
<1>1. pc = "start" /\ client = <<>> /\ ~Closing
  BY DEF Init, Closing
<1>2. \A c \in Clients : /\ buf[<<"toServer", c>>] = <<>> /\ buf[<<"toClient", c>>] = <<>>
                         /\ ~Pending(c) /\ ~Seated(c) /\ Alive(c)
  BY <1>1 DEF Init, Pipe, Dir, Pending, Seated, Live, Alive
<1> QED
  BY <1>1, <1>2 DEF Init, Room!Init, Seated, Alive

\* The server implements the chat room: whatever the interleaving of its single
\* writes with joins, reads, departures and deaths of any number of clients,
\* with room for all of them and as long as names are not shared and no removal
\* has to shift two slots, each message is taken once, in the order its sender
\* wrote it, and becomes due to all members in one order.
THEOREM RoomCorrect ==
    ASSUME Enough
    PROVE  Spec => ImplementsRoom
<1>1. RoomInv /\ RoomInv' /\ [Next]_vars => (Exact' => [Room!Next]_(Room!vars))
  BY RoomStep
<1>2. RoomInv /\ RoomInv' /\ [Next]_vars => [Exact' => [Room!Next]_(Room!vars)]_vars
  BY <1>1
<1>3. Spec => []RoomInv
  BY RoomInvCorrect
<1> QED
  BY RoomStart, <1>2, <1>3, PTL DEF Spec, ImplementsRoom
=============================================================================
