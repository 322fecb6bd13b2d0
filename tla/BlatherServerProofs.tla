------------------------ MODULE BlatherServerProofs ------------------------
(***************************************************************************)
(* Proofs about BlatherServer for every number of clients, names and       *)
(* descriptors and every capacity.                                         *)
(***************************************************************************)
EXTENDS BlatherProperties, TLAPS, SequenceTheorems

\* A FIFO loses its content or keeps it: what is left is still messages.
LEMMA KeptType ==
    ASSUME NEW b \in [Pipe -> Seq(Mesg)], NEW f, NEW h
    PROVE  Kept(b, f, h) \in [Pipe -> Seq(Mesg)]
BY DEF Kept

\* Closing descriptors leaves a table of descriptors.
LEMMA CloseBothType ==
    ASSUME NEW f \in [Fd -> Pipe \cup {None}], NEW e
    PROVE  CloseBoth(f, e) \in [Fd -> Pipe \cup {None}]
BY DEF CloseBoth

\* So does opening one.
LEMMA AfterOpenType ==
    ASSUME FifoTypeOK, NEW f \in [Fd -> Pipe \cup {None}], NEW x \in Path, NEW r
    PROVE  AfterOpen(f, x, r) \in [Fd -> Pipe \cup {None}]
BY DEF AfterOpen, FifoTypeOK

\* open() returns a descriptor or -1.
LEMMA OpenResultsType ==
    ASSUME NEW f, NEW x
    PROVE  OpenResults(f, x) \subseteq Fd \cup {NoFd}
BY DEF OpenResults

\* Reading and writing a FIFO leaves messages in it.
LEMMA ReadType ==
    ASSUME NEW b \in [Pipe -> Seq(Mesg)], NEW p \in Pipe, b[p] # <<>>
    PROVE  [b EXCEPT ![p] = Tail(@)] \in [Pipe -> Seq(Mesg)]
OBVIOUS

\* A write of one message leaves messages in it, too.
LEMMA WriteType ==
    ASSUME NEW b \in [Pipe -> Seq(Mesg)], NEW p \in Pipe, NEW m \in Mesg
    PROVE  [b EXCEPT ![p] = Append(@, m)] \in [Pipe -> Seq(Mesg)]
OBVIOUS

\* The table after the loop of server_remove_client is a table of clients, one
\* shorter.
LEMMA RemoveEntryType ==
    ASSUME NEW S, NEW t \in Seq(S), NEW i \in Nat \ {0}
    PROVE  /\ RemoveEntry(t, i) \in Seq(S)
           /\ t # <<>> => Len(RemoveEntry(t, i)) = Len(t) - 1
<1>1. CASE t = <<>>
  <2>1. Len(t) - 1 = -1
    BY <1>1
  <2>2. 1 .. Len(t) - 1 = 1 .. 0
    BY <2>1
  <2>3. RemoveEntry(t, i) = [k \in 1 .. 0 |-> IF k = i THEN t[i + 1] ELSE t[k]]
    BY <2>2 DEF RemoveEntry
  <2> QED
    BY <2>3, <1>1
<1>2. CASE t # <<>>
  <2>1. Len(t) \in Nat /\ Len(t) >= 1
    BY <1>2
  <2>2. \A k \in 1 .. Len(t) - 1 : (IF k = i THEN t[i + 1] ELSE t[k]) \in S
    BY <2>1
  <2> QED
    BY <2>1, <2>2 DEF RemoveEntry
<1> QED
  BY <1>1, <1>2

\* Setting or clearing a data_ready flag leaves a table of clients.
LEMMA EntryType ==
    ASSUME NEW e \in Entry, NEW b \in BOOLEAN
    PROVE  [e EXCEPT !.data_ready = b] \in Entry
BY DEF Entry

\* ... and of the same length.
LEMMA ClearFlagType ==
    ASSUME NEW t \in Seq(Entry), NEW i
    PROVE  ClearFlag(t, i) \in Seq(Entry) /\ Len(ClearFlag(t, i)) = Len(t)
<1>1. ASSUME NEW k \in 1 .. Len(t)
      PROVE  t[k] \in Entry /\ [t[k] EXCEPT !.data_ready = FALSE] \in Entry
  <2>1. t[k] \in Entry
    OBVIOUS
  <2>2. [t[k] EXCEPT !.data_ready = FALSE] \in Entry
    BY <2>1, EntryType, FALSE \in BOOLEAN
  <2> QED
    BY <2>1, <2>2
<1> QED
  BY <1>1 DEF ClearFlag

-----------------------------------------------------------------------------
(* Type correctness *)

\* TypeOK holds initially.
LEMMA TypeInit == Init => TypeOK
<1> SUFFICES ASSUME Init PROVE TypeOK
  OBVIOUS
<1>1. ServerTypeOK
  <2>1. KEEP_GOING \in BOOLEAN /\ join_ready \in BOOLEAN /\ clean \in BOOLEAN
    BY Zenon DEF Init
  <2>2. mesg \in Mesg
    BY DEF Init, NoMesg, Mesg
  <2> QED
    BY <2>1, <2>2 DEF Init, ServerTypeOK
<1>2. FifoTypeOK
  BY DEF Init, FifoTypeOK
<1>3. ClientTypeOK
  BY DEF Init, ClientTypeOK
<1> QED
  BY <1>1, <1>2, <1>3 DEF TypeOK

\* The steps of the server that add and remove no client, and a signal,
\* preserve it.
LEMMA TypeServer ==
    ASSUME TypeOK,
           \/ ServerStart \/ NextRound \/ ShutdownStart \/ CheckSources \/ SkipJoin
           \/ SkipClient \/ HandleClient \/ WriteOne \/ JoinDone \/ MesgDone
           \/ EndScan \/ ShutdownLoop \/ ServerExit \/ Signal
    PROVE  TypeOK'
<1> ServerTypeOK /\ FifoTypeOK /\ ClientTypeOK
  BY DEF TypeOK
<1>m. NoMesg \in Mesg
  BY DEF NoMesg, Mesg
<1>p. \A fd : PipeAt(fd) \in Pipe \cup {None}
  BY DEF PipeAt, ServerTypeOK
<1>c. ClientTypeOK'
  <2>1. procs' = procs
    BY DEF ServerStart, NextRound, ShutdownStart, CheckSources, SkipJoin, SkipClient,
       HandleClient, WriteOne, JoinDone, MesgDone, EndScan, ShutdownLoop, ServerExit, Signal
  <2> QED
    BY <2>1 DEF procs, ClientTypeOK
<1>1. CASE ServerStart
  <2>1. ServerTypeOK'
    BY <1>1 DEF ServerStart, ServerTypeOK, server
  <2>2. FifoTypeOK'
    BY <1>1 DEF ServerStart, FifoTypeOK, fifos
  <2> QED
    BY <1>c, <2>1, <2>2 DEF TypeOK
<1>2. CASE NextRound
  <2>1. ServerTypeOK'
    BY <1>2 DEF NextRound, ServerTypeOK, server
  <2>2. FifoTypeOK'
    BY <1>2 DEF NextRound, FifoTypeOK, fifos
  <2> QED
    BY <1>c, <2>1, <2>2 DEF TypeOK
<1>3. CASE ShutdownStart
  <2>1. ServerTypeOK'
    BY <1>3, <1>m DEF ShutdownStart, StartBroadcast, ServerTypeOK, server
  <2>2. FifoTypeOK'
    BY <1>3 DEF ShutdownStart, FifoTypeOK, fifos
  <2> QED
    BY <1>c, <2>1, <2>2 DEF TypeOK
<1>4. CASE CheckSources
  <2>1. ServerTypeOK'
    <3>1. \A i \in 1 .. Len(client) :
            /\ client[i] \in Entry
            /\ (client[i].data_ready \/ Readable(client[i])) \in BOOLEAN
      BY DEF ServerTypeOK
    <3>2. \A i \in 1 .. Len(client) :
            [client[i] EXCEPT !.data_ready = client[i].data_ready \/ Readable(client[i])] \in Entry
      BY <3>1, EntryType
    <3>3. client' \in Seq(Entry)
      BY <1>4, <3>2 DEF CheckSources, ServerTypeOK
    <3> QED
      BY <1>4, <3>3 DEF CheckSources, ServerTypeOK
  <2>2. FifoTypeOK'
    BY <1>4 DEF CheckSources, FifoTypeOK, fifos
  <2> QED
    BY <1>c, <2>1, <2>2 DEF TypeOK
<1>5. CASE SkipJoin
  <2>1. ServerTypeOK'
    BY <1>5 DEF SkipJoin, ServerTypeOK, server
  <2>2. FifoTypeOK'
    BY <1>5 DEF SkipJoin, FifoTypeOK, fifos
  <2> QED
    BY <1>c, <2>1, <2>2 DEF TypeOK
<1>6. CASE SkipClient
  <2>1. ServerTypeOK'
    BY <1>6 DEF SkipClient, ServerTypeOK, server
  <2>2. FifoTypeOK'
    BY <1>6 DEF SkipClient, FifoTypeOK, fifos
  <2> QED
    BY <1>c, <2>1, <2>2 DEF TypeOK
<1>7. CASE HandleClient
  <2> DEFINE p == PipeAt(client[idx].to_server_fd)
  <2>m. p # None /\ buf[p] # <<>> => p \in Pipe /\ Head(buf[p]) \in Mesg
    BY <1>p DEF FifoTypeOK
  <2>1. ServerTypeOK'
    <3>1. client' \in Seq(Entry)
      BY <1>7, ClearFlagType DEF HandleClient, StartBroadcast, ServerTypeOK
    <3>2. mesg' \in Mesg /\ pc' \in {"scan", "bcast"} /\ next' \in Nat \ {0} /\ idx' \in Nat \ {0}
      BY <1>7, <2>m DEF HandleClient, StartBroadcast, ServerTypeOK
    <3> QED
      BY <1>7, <3>1, <3>2 DEF HandleClient, ServerTypeOK
  <2>2. FifoTypeOK'
    <3>1. \/ buf' = buf
          \/ p \in Pipe /\ buf[p] # <<>> /\ buf' = [buf EXCEPT ![p] = Tail(@)]
      BY <1>7, <2>m DEF HandleClient
    <3> HIDE DEF p
    <3>2. buf' \in [Pipe -> Seq(Mesg)]
      <4>1. buf \in [Pipe -> Seq(Mesg)]
        BY DEF FifoTypeOK, ServerTypeOK
      <4>2. CASE buf' = buf
        BY <4>1, <4>2
      <4>3. CASE p \in Pipe /\ buf[p] # <<>> /\ buf' = [buf EXCEPT ![p] = Tail(@)]
        BY <4>1, <4>3, ReadType
      <4> QED
        BY <3>1, <4>2, <4>3
    <3> QED
      BY <1>7, <3>2 DEF HandleClient, FifoTypeOK
  <2> QED
    BY <1>c, <2>1, <2>2 DEF TypeOK
<1>8. CASE WriteOne
  <2>1. ServerTypeOK'
    BY <1>8 DEF WriteOne, ServerTypeOK
  <2>2. FifoTypeOK'
    <3> DEFINE p == PipeAt(client[next].to_client_fd)
    <3>1. \/ buf' = buf
          \/ p \in Pipe /\ buf' = [buf EXCEPT ![p] = Append(@, mesg)]
      BY <1>8, <1>p DEF WriteOne
    <3> HIDE DEF p
    <3>2. buf' \in [Pipe -> Seq(Mesg)]
      <4>1. buf \in [Pipe -> Seq(Mesg)] /\ mesg \in Mesg
        BY DEF FifoTypeOK, ServerTypeOK
      <4>2. CASE buf' = buf
        BY <4>1, <4>2
      <4>3. CASE p \in Pipe /\ buf' = [buf EXCEPT ![p] = Append(@, mesg)]
        BY <4>1, <4>3, WriteType
      <4> QED
        BY <3>1, <4>2, <4>3
    <3> QED
      BY <1>8, <3>2 DEF WriteOne, FifoTypeOK
  <2> QED
    BY <1>c, <2>1, <2>2 DEF TypeOK
<1>9. CASE JoinDone
  <2>1. ServerTypeOK'
    <3>1. join_ready' \in BOOLEAN
      BY <1>9, Zenon DEF JoinDone
    <3> QED
      BY <1>9, <1>m, <3>1 DEF JoinDone, EndBroadcast, ServerTypeOK
  <2>2. FifoTypeOK'
    BY <1>9 DEF JoinDone, FifoTypeOK, fifos
  <2> QED
    BY <1>c, <2>1, <2>2 DEF TypeOK
<1>10. CASE MesgDone
  <2>1. ServerTypeOK'
    <3>1. client' \in Seq(Entry)
      BY <1>10, ClearFlagType DEF MesgDone, ServerTypeOK
    <3> QED
      BY <1>10, <1>m, <3>1 DEF MesgDone, EndBroadcast, ServerTypeOK
  <2>2. FifoTypeOK'
    BY <1>10 DEF MesgDone, FifoTypeOK, fifos
  <2> QED
    BY <1>c, <2>1, <2>2 DEF TypeOK
<1>11. CASE EndScan
  <2>1. ServerTypeOK'
    BY <1>11 DEF EndScan, ServerTypeOK, server
  <2>2. FifoTypeOK'
    BY <1>11 DEF EndScan, FifoTypeOK, fifos
  <2> QED
    BY <1>c, <2>1, <2>2 DEF TypeOK
<1>12. CASE ShutdownLoop
  <2>1. ServerTypeOK'
    BY <1>12 DEF ShutdownLoop, EndBroadcast, ServerTypeOK, server
  <2>2. FifoTypeOK'
    BY <1>12 DEF ShutdownLoop, FifoTypeOK, fifos
  <2> QED
    BY <1>c, <2>1, <2>2 DEF TypeOK
<1>13. CASE ServerExit
  <2>1. ServerTypeOK'
    BY <1>13 DEF ServerExit, ServerTypeOK, server
  <2>2. FifoTypeOK'
    BY <1>13, KeptType DEF ServerExit, FifoTypeOK, fifos
  <2> QED
    BY <1>c, <2>1, <2>2 DEF TypeOK
<1>14. CASE Signal
  <2>1. ServerTypeOK'
    BY <1>14 DEF Signal, ServerTypeOK, server
  <2>2. FifoTypeOK'
    BY <1>14 DEF Signal, FifoTypeOK, fifos
  <2> QED
    BY <1>c, <2>1, <2>2 DEF TypeOK
<1> QED
  BY <1>1, <1>2, <1>3, <1>4, <1>5, <1>6, <1>7, <1>8, <1>9, <1>10, <1>11, <1>12, <1>13, <1>14

\* So do the steps that add a client or take one out of the table.
LEMMA TypeTable ==
    ASSUME TypeOK,
           \/ HandleJoin \/ DepartClient \/ RemoveDeparted
           \/ ShutdownClose \/ ShutdownRemove
    PROVE  TypeOK'
<1> ServerTypeOK /\ FifoTypeOK /\ ClientTypeOK
  BY DEF TypeOK
<1>m. NoMesg \in Mesg
  BY DEF NoMesg, Mesg
<1>c. ClientTypeOK'
  <2>1. procs' = procs
    BY DEF HandleJoin, DepartClient, RemoveDeparted, ShutdownClose, ShutdownRemove,
           CloseClient, UnlinkAndShift
  <2> QED
    BY <2>1 DEF procs, ClientTypeOK
<1>1. CASE HandleJoin
  <2> DEFINE c == Head(joinQ)
  <2>1. c \in Clients /\ joinQ' \in Seq(Clients)
    BY <1>1 DEF HandleJoin, FifoTypeOK
  <2>2. FifoTypeOK'
    BY <1>1, <2>1 DEF HandleJoin, FifoTypeOK
  <2>3. [kind |-> "JOINED", from |-> c, n |-> 0] \in Mesg
    BY <2>1 DEF Mesg
  <2>4. client' \in Seq(Entry) /\ fds' \in [Fd -> Pipe \cup {None}]
    <3>1. CASE UNCHANGED <<client, fds>>
      BY <3>1 DEF ServerTypeOK
    <3>2. CASE AddClient(c)
      <4> DEFINE toServer == <<"toServer", NameOf[c]>>
                 toClient == <<"toClient", NameOf[c]>>
      <4>1. NameOf[c] \in Names /\ toServer \in Path /\ toClient \in Path
        BY <2>1, ClientsAssumption DEF Path, Dir
      <4>2. PICK s \in OpenResults(fds, toServer) :
            \E r \in OpenResults(AfterOpen(fds, toServer, s), toClient) :
              /\ fds' = AfterOpen(AfterOpen(fds, toServer, s), toClient, r)
              /\ client' = AddEntry(client,
                   [name |-> NameOf[c], to_client_fd |-> r, to_server_fd |-> s,
                    data_ready |-> FALSE])
        BY <3>2 DEF AddClient
      <4>3. PICK r \in OpenResults(AfterOpen(fds, toServer, s), toClient) :
              /\ fds' = AfterOpen(AfterOpen(fds, toServer, s), toClient, r)
              /\ client' = AddEntry(client,
                   [name |-> NameOf[c], to_client_fd |-> r, to_server_fd |-> s,
                    data_ready |-> FALSE])
        BY <4>2
      <4>4. AfterOpen(fds, toServer, s) \in [Fd -> Pipe \cup {None}]
        BY <4>1, AfterOpenType DEF ServerTypeOK
      <4>5. fds' \in [Fd -> Pipe \cup {None}]
        BY <4>1, <4>3, <4>4, AfterOpenType
      <4>6. s \in Int /\ r \in Int
        BY OpenResultsType, <4>2, <4>3, LimitsAssumption DEF Fd, NoFd
      <4>7. [name |-> NameOf[c], to_client_fd |-> r, to_server_fd |-> s,
             data_ready |-> FALSE] \in Entry
        BY <4>1, <4>6 DEF Entry
      <4>8. client' \in Seq(Entry)
        BY <4>3, <4>7, AppendProperties DEF AddEntry, ServerTypeOK
      <4> QED
        BY <4>5, <4>8
    <3> QED
      BY <1>1, <3>1, <3>2 DEF HandleJoin
  <2>5. ServerTypeOK'
    BY <1>1, <2>3, <2>4 DEF HandleJoin, StartBroadcast, ServerTypeOK
  <2> QED
    BY <1>c, <2>2, <2>5 DEF TypeOK
<1>2. CASE CloseClient /\ next' \in {1, next}
  <2>1. ServerTypeOK'
    BY <1>2, CloseBothType DEF CloseClient, ServerTypeOK
  <2>2. FifoTypeOK'
    BY <1>2, KeptType DEF CloseClient, FifoTypeOK
  <2> QED
    BY <1>c, <2>1, <2>2 DEF TypeOK
<1>3. CASE UnlinkAndShift /\ mesg' \in {NoMesg, mesg} /\ pc' \in {"scan", "shut"}
           /\ client' \in Seq(Entry)
  <2>1. clean' \in BOOLEAN
    BY <1>3, Zenon DEF UnlinkAndShift, ServerTypeOK
  <2>2. ServerTypeOK'
    BY <1>3, <1>m, <2>1 DEF UnlinkAndShift, ServerTypeOK
  <2>3. FifoTypeOK'
    BY <1>3 DEF UnlinkAndShift, FifoTypeOK
  <2> QED
    BY <1>c, <2>2, <2>3 DEF TypeOK
<1>4. CASE DepartClient
  BY <1>2, <1>4 DEF DepartClient, EndBroadcast
<1>5. CASE ShutdownClose
  BY <1>2, <1>5 DEF ShutdownClose
<1>6. RemoveEntry(client, idx) \in Seq(Entry)
  BY RemoveEntryType DEF ServerTypeOK
<1>7. CASE RemoveDeparted
  BY <1>3, <1>6, <1>7, ClearFlagType DEF RemoveDeparted
<1>8. CASE ShutdownRemove
  BY <1>3, <1>6, <1>8 DEF ShutdownRemove
<1> QED
  BY <1>1, <1>4, <1>5, <1>7, <1>8

\* So do the steps of the client processes.
LEMMA TypeClient ==
    ASSUME TypeOK, NEW c \in Clients, ClientStep(c)
    PROVE  TypeOK'
<1> ServerTypeOK /\ FifoTypeOK /\ ClientTypeOK
  BY DEF TypeOK
<1>s. ServerTypeOK'
  <2>1. server' = server
    BY DEF ClientStep, Progress, Setup, MkfifoToClient, OpenToClient, MkfifoToServer,
           OpenToServer, Mkfifo, OpenOwn, Join, Send, EndOfInput, Depart, Exit, Recv,
           RecvFails, Kill, Release
  <2> QED
    BY <2>1 DEF server, ServerTypeOK
<1>d. \A d \in Dir : <<d, c>> \in Pipe /\ <<d, NameOf[c]>> \in Path
  BY ClientsAssumption DEF Pipe, Path
<1>st. st' \in [Clients -> {"new", "mkC", "opC", "mkS", "opS", "in",
                            "leaving", "left", "exited", "gone"}]
  BY DEF ClientStep, Progress, Setup, MkfifoToClient, OpenToClient, MkfifoToServer,
         OpenToServer, Mkfifo, OpenOwn, Join, Send, EndOfInput, Depart, Exit, Recv,
         RecvFails, Kill, Release, Advance, procs, ClientTypeOK
<1>1. ASSUME NEW d \in Dir, Mkfifo(c, d)
      PROVE  TypeOK'
  <2>1. link' \in [Path -> Pipe \cup {None}]
    BY <1>1, <1>d DEF Mkfifo, FifoTypeOK
  <2> QED
    BY <1>1, <1>s, <1>st, <2>1 DEF Mkfifo, FifoTypeOK, ClientTypeOK, TypeOK
<1>2. ASSUME NEW d \in Dir, OpenOwn(c, d)
      PROVE  TypeOK'
  <2>1. hand' \in [Pipe -> Pipe \cup {None}]
    BY <1>2, <1>d DEF OpenOwn, FifoTypeOK, ClientTypeOK
  <2> QED
    BY <1>2, <1>s, <1>st, <2>1 DEF OpenOwn, fifos, FifoTypeOK, ClientTypeOK, TypeOK
<1>3. CASE Join(c)
  BY <1>3, <1>s, <1>st, AppendProperties DEF Join, FifoTypeOK, ClientTypeOK, TypeOK
<1>4. ASSUME NEW m \in Mesg, WriteToServer(c, m)
      PROVE  buf' \in [Pipe -> Seq(Mesg)]
  <2> DEFINE p == hand[<<"toServer", c>>]
  <2>1. p \in Pipe \cup {None}
    BY <1>d DEF Dir, ClientTypeOK
  <2>2. buf \in [Pipe -> Seq(Mesg)]
    BY DEF FifoTypeOK
  <2>3. \/ buf' = buf
        \/ p \in Pipe /\ buf' = [buf EXCEPT ![p] = Append(@, m)]
    BY <1>4, <2>1 DEF WriteToServer
  <2> HIDE DEF p
  <2>4. CASE buf' = buf
    BY <2>2, <2>4
  <2>5. CASE p \in Pipe /\ buf' = [buf EXCEPT ![p] = Append(@, m)]
    BY <2>2, <2>5, WriteType
  <2> QED
    BY <2>3, <2>4, <2>5
<1>5. CASE Send(c)
  <2>1. [kind |-> "MESG", from |-> c, n |-> sent[c] + 1] \in Mesg
    BY DEF Mesg, ClientTypeOK
  <2>2. buf' \in [Pipe -> Seq(Mesg)]
    BY <1>4, <1>5, <2>1 DEF Send
  <2>3. sent' \in [Clients -> Nat]
    BY <1>5 DEF Send, ClientTypeOK
  <2> QED
    BY <1>5, <1>s, <1>st, <2>2, <2>3 DEF Send, FifoTypeOK, ClientTypeOK, TypeOK
<1>6. CASE EndOfInput(c)
  BY <1>6, <1>s, <1>st DEF EndOfInput, fifos, FifoTypeOK, ClientTypeOK, TypeOK
<1>7. CASE Depart(c)
  <2>1. [kind |-> "DEPARTED", from |-> c, n |-> 0] \in Mesg
    BY DEF Mesg
  <2>2. buf' \in [Pipe -> Seq(Mesg)]
    BY <1>4, <1>7, <2>1 DEF Depart
  <2> QED
    BY <1>7, <1>s, <1>st, <2>2 DEF Depart, FifoTypeOK, ClientTypeOK, TypeOK
<1>8. ASSUME NEW b \in [Pipe -> Seq(Mesg)], Release(c, b)
      PROVE  TypeOK'
  <2>1. hand' \in [Pipe -> Pipe \cup {None}]
    BY <1>8 DEF Release, ClientTypeOK
  <2>2. buf' \in [Pipe -> Seq(Mesg)]
    BY <1>8, KeptType DEF Release
  <2> QED
    BY <1>8, <1>s, <1>st, <2>1, <2>2 DEF Release, FifoTypeOK, ClientTypeOK, TypeOK
<1>9. buf \in [Pipe -> Seq(Mesg)]
  BY DEF FifoTypeOK
<1>10. CASE Recv(c)
  <2> DEFINE p == hand[<<"toClient", c>>]
             b == [buf EXCEPT ![p] = Tail(@)]
  <2>1. p \in Pipe /\ buf[p] # <<>>
    BY <1>10, <1>d DEF Recv, Dir, ClientTypeOK
  <2>2. b \in [Pipe -> Seq(Mesg)]
    <3> HIDE DEF p
    <3> QED
      BY <1>9, <2>1, ReadType
  <2>3. CASE Release(c, b)
    BY <1>8, <2>2, <2>3
  <2>4. CASE buf' = b /\ UNCHANGED <<server, joinFile, joinQ, link, procs>>
    BY <1>s, <1>st, <2>2, <2>4 DEF procs, FifoTypeOK, ClientTypeOK, TypeOK
  <2> QED
    BY <1>10, <2>3, <2>4 DEF Recv
<1> QED
  BY <1>1, <1>2, <1>3, <1>5, <1>6, <1>7, <1>8, <1>9, <1>10
  DEF ClientStep, Progress, Setup, MkfifoToClient, OpenToClient, MkfifoToServer,
      OpenToServer, Exit, RecvFails, Kill, Dir

\* TypeOK says nothing that a step of no variable could change.
LEMMA TypeStutter == TypeOK /\ UNCHANGED vars => TypeOK'
<1> SUFFICES ASSUME TypeOK, UNCHANGED vars PROVE TypeOK'
  OBVIOUS
<1>1. ServerTypeOK'
  BY DEF TypeOK, vars, server, ServerTypeOK
<1>2. FifoTypeOK'
  BY DEF TypeOK, vars, fifos, FifoTypeOK
<1>3. ClientTypeOK'
  BY DEF TypeOK, vars, procs, ClientTypeOK
<1> QED
  BY <1>1, <1>2, <1>3 DEF TypeOK

\* Every step of the system preserves TypeOK.
LEMMA TypeStep == TypeOK /\ [Next]_vars => TypeOK'
BY TypeServer, TypeTable, TypeClient, TypeStutter DEF Next, ServerStep

\* Every variable keeps to the values the C types and the calls allow, for every
\* number of clients, descriptors and table slots.
THEOREM TypeCorrect == Spec => []TypeOK
BY TypeInit, TypeStep, PTL DEF Spec

-----------------------------------------------------------------------------
(* No descriptor leaks *)

\* At the start the table is empty and no descriptor of the server is in use.
LEMMA DescriptorInit == Init => DescriptorInv
<1> SUFFICES ASSUME Init PROVE DescriptorInv
  OBVIOUS
<1>1. TypeOK
  BY TypeInit
<1>2. SlotInUse /\ FdsOpen /\ FdsApart
  BY DEF Init, SlotInUse, FdsOpen, FdsApart, Live
<1>3. NoLeak
  BY DEF Init, NoLeak
<1> QED
  BY <1>1, <1>2, <1>3 DEF DescriptorInv

\* Where neither the table's descriptors nor the server's change, nothing can
\* go wrong with them.
LEMMA SlotsKept ==
    ASSUME DescriptorInv,
           pc \notin {"unlink", "done"}, pc' \notin {"unlink", "done"},
           fds' = fds, clean' = clean, Len(client') = Len(client),
           \A i \in 1 .. Len(client) : OwnFds(client'[i]) = OwnFds(client[i])
    PROVE  FdsOpen' /\ FdsApart' /\ NoLeak'
<1>1. Live = 1 .. Len(client) /\ Live' = 1 .. Len(client)
  BY DEF Live
<1>2. FdsOpen'
  BY <1>1 DEF DescriptorInv, FdsOpen
<1>3. FdsApart'
  BY <1>1 DEF DescriptorInv, FdsApart
<1>4. NoLeak'
  BY <1>1 DEF DescriptorInv, NoLeak
<1> QED
  BY <1>2, <1>3, <1>4

\* ClearFlag and the marking of ready clients leave the descriptors alone.
LEMMA ClearFlagFds ==
    ASSUME NEW t \in Seq(Entry), NEW k, NEW i \in 1 .. Len(t)
    PROVE  OwnFds(ClearFlag(t, k)[i]) = OwnFds(t[i])
<1>1. t[i] \in Entry
  OBVIOUS
<1> QED
  BY <1>1 DEF ClearFlag, OwnFds, Entry

\* The steps of the server between additions and removals, and a signal.
LEMMA DescriptorServer ==
    ASSUME DescriptorInv,
           \/ ServerStart \/ NextRound \/ ShutdownStart \/ CheckSources \/ SkipJoin
           \/ SkipClient \/ HandleClient \/ WriteOne \/ JoinDone \/ MesgDone
           \/ EndScan \/ ShutdownLoop \/ Signal
    PROVE  SlotInUse' /\ FdsOpen' /\ FdsApart' /\ NoLeak'
<1>t. client \in Seq(Entry)
  BY DEF DescriptorInv, TypeOK, ServerTypeOK
<1>1. CASE client' = client /\ pc \notin {"unlink", "done"} /\ pc' \notin {"unlink", "done"}
           /\ fds' = fds /\ clean' = clean /\ SlotInUse'
  BY <1>1, SlotsKept
<1>2. CASE \E k : client' = ClearFlag(client, k) /\ pc \notin {"unlink", "done"}
           /\ pc' \notin {"unlink", "done"} /\ fds' = fds /\ clean' = clean /\ SlotInUse'
  BY <1>2, <1>t, SlotsKept, ClearFlagFds, ClearFlagType
<1>3. CASE ServerStart \/ NextRound \/ ShutdownStart \/ SkipJoin \/ SkipClient
           \/ WriteOne \/ JoinDone \/ EndScan \/ ShutdownLoop
  <2>1. SlotInUse'
    BY <1>3 DEF ServerStart, NextRound, ShutdownStart, SkipJoin, SkipClient, WriteOne,
       JoinDone, EndScan, ShutdownLoop, StartBroadcast, EndBroadcast, NoMesg,
       DescriptorInv, SlotInUse
  <2> QED
    BY <1>1, <1>3, <2>1 DEF ServerStart, NextRound, ShutdownStart, SkipJoin, SkipClient,
       WriteOne, JoinDone, EndScan, ShutdownLoop, StartBroadcast, EndBroadcast
<1>4. CASE Signal
  <2>1. SlotInUse'
    BY <1>4 DEF Signal, DescriptorInv, SlotInUse
  <2>2. CASE pc' = pc /\ pc = "unlink"
    BY <1>4, <2>1, <2>2 DEF Signal, DescriptorInv, FdsOpen, FdsApart, NoLeak, Live
  <2>3. CASE pc # "unlink"
    BY <1>1, <1>4, <2>1, <2>3 DEF Signal
  <2> QED
    BY <1>4, <2>2, <2>3 DEF Signal
<1>5. CASE CheckSources
  <2>1. SlotInUse'
    BY <1>5 DEF CheckSources, SlotInUse
  <2>2. Len(client') = Len(client)
    BY <1>5, <1>t DEF CheckSources
  <2>3. ASSUME NEW i \in 1 .. Len(client)
        PROVE  OwnFds(client'[i]) = OwnFds(client[i])
    <3>1. client[i] \in Entry
      BY <1>t
    <3>2. client'[i] = [client[i] EXCEPT !.data_ready = @ \/ Readable(client[i])]
      BY <1>5 DEF CheckSources
    <3> QED
      BY <3>1, <3>2 DEF OwnFds, Entry
  <2> QED
    BY <1>5, <2>1, <2>2, <2>3, SlotsKept DEF CheckSources
<1>6. CASE HandleClient
  <2>1. SlotInUse'
    BY <1>6 DEF HandleClient, StartBroadcast, SlotInUse
  <2>2. client' = client \/ client' = ClearFlag(client, idx)
    BY <1>6 DEF HandleClient
  <2>3. pc = "scan" /\ pc' \in {"scan", "bcast"} /\ fds' = fds /\ clean' = clean
    BY <1>6 DEF HandleClient, StartBroadcast
  <2> QED
    BY <1>1, <1>2, <2>1, <2>2, <2>3
<1>7. CASE MesgDone
  <2>1. SlotInUse'
    BY <1>7 DEF MesgDone, SlotInUse
  <2> QED
    BY <1>2, <1>7, <2>1 DEF MesgDone, EndBroadcast
<1> QED
  BY <1>3, <1>4, <1>5, <1>6, <1>7

\* open() gives the server a descriptor that was free, or none at all.
LEMMA OpenIsFree ==
    ASSUME NEW f, NEW x, NEW r \in OpenResults(f, x)
    PROVE  r # NoFd => r \in Fd /\ f[r] = None /\ link[x] # None
BY LimitsAssumption DEF OpenResults, Fd, NoFd

\* server_add_client: the two descriptors it opens were nobody's.
LEMMA DescriptorJoin ==
    ASSUME DescriptorInv, HandleJoin
    PROVE  SlotInUse' /\ FdsOpen' /\ FdsApart' /\ NoLeak'
<1> DEFINE c == Head(joinQ)
           xs == <<"toServer", NameOf[c]>>
           xc == <<"toClient", NameOf[c]>>
<1>t. client \in Seq(Entry) /\ clean \in BOOLEAN
  BY DEF DescriptorInv, TypeOK, ServerTypeOK
<1>1. SlotInUse'
  BY DEF HandleJoin, StartBroadcast, SlotInUse
<1>2. pc = "join" /\ pc' = "bcast" /\ clean' = clean
  BY DEF HandleJoin, StartBroadcast
<1>3. CASE UNCHANGED <<client, fds>>
  BY <1>1, <1>2, <1>3, SlotsKept
<1>4. CASE AddClient(c)
  <2>0. PICK s \in OpenResults(fds, xs) :
          \E r \in OpenResults(AfterOpen(fds, xs, s), xc) :
            /\ fds' = AfterOpen(AfterOpen(fds, xs, s), xc, r)
            /\ client' = AddEntry(client,
                 [name |-> NameOf[c], to_client_fd |-> r, to_server_fd |-> s,
                  data_ready |-> FALSE])
    BY <1>4 DEF AddClient
  <2>1. PICK r \in OpenResults(AfterOpen(fds, xs, s), xc) :
          /\ fds' = AfterOpen(AfterOpen(fds, xs, s), xc, r)
          /\ client' = AddEntry(client,
               [name |-> NameOf[c], to_client_fd |-> r, to_server_fd |-> s,
                data_ready |-> FALSE])
    BY <2>0
  <2> DEFINE n == Len(client)
             f1 == AfterOpen(fds, xs, s)
             e == [name |-> NameOf[c], to_client_fd |-> r, to_server_fd |-> s,
                   data_ready |-> FALSE]
  <2>2. s # NoFd => s \in Fd /\ fds[s] = None /\ link[xs] # None
    BY OpenIsFree
  <2>3. r # NoFd => r \in Fd /\ f1[r] = None /\ link[xc] # None
    BY OpenIsFree
  <2>4. \A d \in Fd : f1[d] = IF d = s THEN link[xs] ELSE fds[d]
    BY DEF AfterOpen
  <2>5. \A d \in Fd : fds'[d] = IF d = r THEN link[xc] ELSE f1[d]
    BY <2>1 DEF AfterOpen
  <2>6. r # NoFd => r # s /\ fds[r] = None
    BY <2>2, <2>3, <2>4
  <2>7. \A f \in OwnFds(e) : f \in Fd /\ fds[f] = None /\ fds'[f] # None
    BY <2>2, <2>3, <2>4, <2>5, <2>6 DEF OwnFds
  <2>8. \A d \in Fd : d \notin OwnFds(e) => fds'[d] = fds[d]
    BY <2>4, <2>5, LimitsAssumption DEF OwnFds, Fd, NoFd
  <2>9. n \in Nat /\ Len(client') = n + 1 /\ client'[n + 1] = e
        /\ \A i \in 1 .. n : client'[i] = client[i]
    BY <1>t, <2>1 DEF AddEntry
  <2>10. Live = 1 .. n /\ Live' = 1 .. n + 1
    BY <1>2, <2>9 DEF Live
  <2> HIDE DEF n, e, f1
  <2>11. FdsOpen'
    <3>1. ASSUME clean, NEW i \in 1 .. n + 1, NEW f \in OwnFds(client'[i])
          PROVE  f \in Fd /\ fds'[f] # None
      <4>1. CASE i = n + 1
        BY <2>7, <2>9, <3>1, <4>1
      <4>2. CASE i \in 1 .. n
        <5>1. f \in Fd /\ fds[f] # None
          BY <2>9, <2>10, <3>1, <4>2 DEF DescriptorInv, FdsOpen
        <5> QED
          BY <5>1, <2>7, <2>8
      <4> QED
        BY <2>9, <4>1, <4>2
    <3> QED
      BY <1>2, <2>10, <3>1 DEF FdsOpen
  <2>12. FdsApart'
    <3>1. ASSUME clean, NEW i \in 1 .. n
          PROVE  OwnFds(client'[i]) \cap OwnFds(e) = {}
      BY <2>7, <2>9, <2>10, <3>1 DEF DescriptorInv, FdsOpen
    <3>2. ASSUME clean, NEW i \in 1 .. n, NEW j \in 1 .. n, i # j
          PROVE  OwnFds(client'[i]) \cap OwnFds(client'[j]) = {}
      BY <2>9, <2>10, <3>2 DEF DescriptorInv, FdsApart
    <3>3. ASSUME clean, NEW i \in 1 .. n + 1, NEW j \in 1 .. n + 1, i # j
          PROVE  OwnFds(client'[i]) \cap OwnFds(client'[j]) = {}
      <4>1. CASE i \in 1 .. n /\ j \in 1 .. n
        BY <3>2, <3>3, <4>1
      <4>2. CASE i = n + 1 /\ j \in 1 .. n
        BY <2>9, <3>1, <3>3, <4>2
      <4>3. CASE j = n + 1 /\ i \in 1 .. n
        BY <2>9, <3>1, <3>3, <4>3
      <4> QED
        BY <2>9, <3>3, <4>1, <4>2, <4>3
    <3> QED
      BY <1>2, <2>10, <3>3 DEF FdsApart
  <2>13. NoLeak'
    <3>1. ASSUME clean, NEW f \in Fd, fds'[f] # None
          PROVE  \E i \in 1 .. n + 1 : f \in OwnFds(client'[i])
      <4>1. CASE f \in OwnFds(e)
        BY <2>9, <4>1
      <4>2. CASE f \notin OwnFds(e)
        <5>1. PICK i \in 1 .. n : f \in OwnFds(client[i])
          BY <2>8, <2>10, <3>1, <4>2 DEF DescriptorInv, NoLeak
        <5> QED
          BY <5>1, <2>9
      <4> QED
        BY <4>1, <4>2
    <3> QED
      BY <1>2, <2>10, <3>1 DEF NoLeak
  <2> QED
    BY <1>1, <2>11, <2>12, <2>13
<1> QED
  BY <1>3, <1>4 DEF HandleJoin

\* The first half of server_remove_client closes the descriptors of its slot
\* and, as no other slot has them, of no other.
LEMMA DescriptorClose ==
    ASSUME DescriptorInv, DepartClient \/ ShutdownClose
    PROVE  SlotInUse' /\ FdsOpen' /\ FdsApart' /\ NoLeak'
<1> DEFINE n == Len(client)
<1>t. client \in Seq(Entry) /\ n \in Nat /\ idx \in Nat \ {0}
  BY DEF DescriptorInv, TypeOK, ServerTypeOK
<1>1. /\ pc \in {"bcast", "shut"} /\ pc' = "unlink" /\ idx' = idx
      /\ fds' = CloseBoth(fds, client[idx]) /\ client' = client /\ clean' = clean
  BY DEF DepartClient, ShutdownClose, CloseClient, EndBroadcast
<1>2. idx \in 1 .. n
  BY <1>t DEF DepartClient, ShutdownClose, EndBroadcast, DescriptorInv, SlotInUse
<1>3. SlotInUse'
  BY <1>1, <1>2 DEF SlotInUse
<1>4. Live = 1 .. n /\ Live' = (1 .. n) \ {idx}
  BY <1>1 DEF Live
<1>5. \A d \in Fd : fds'[d] = IF d \in OwnFds(client[idx]) THEN None ELSE fds[d]
  BY <1>1, LimitsAssumption DEF CloseBoth, OwnFds, Fd, NoFd
<1> HIDE DEF n
<1>6. FdsOpen'
  <2>1. ASSUME clean, NEW i \in (1 .. n) \ {idx}, NEW f \in OwnFds(client[i])
        PROVE  f \in Fd /\ fds'[f] # None
    <3>1. f \in Fd /\ fds[f] # None
      BY <1>4, <2>1 DEF DescriptorInv, FdsOpen
    <3>2. f \notin OwnFds(client[idx])
      BY <1>2, <1>4, <2>1 DEF DescriptorInv, FdsApart
    <3> QED
      BY <1>5, <3>1, <3>2
  <2> QED
    BY <1>1, <1>4, <2>1 DEF FdsOpen
<1>7. FdsApart'
  BY <1>1, <1>4 DEF DescriptorInv, FdsApart
<1>8. NoLeak'
  <2>1. ASSUME clean, NEW f \in Fd, fds'[f] # None
        PROVE  \E i \in (1 .. n) \ {idx} : f \in OwnFds(client[i])
    <3>1. f \notin OwnFds(client[idx]) /\ fds[f] # None
      BY <1>5, <2>1
    <3>2. PICK i \in 1 .. n : f \in OwnFds(client[i])
      BY <1>4, <2>1, <3>1 DEF DescriptorInv, NoLeak
    <3> QED
      BY <3>1, <3>2
  <2> QED
    BY <1>1, <1>4, <2>1 DEF NoLeak
<1> QED
  BY <1>3, <1>6, <1>7, <1>8

\* The shift of server_remove_client is the removal it should be when at most
\* one slot follows.
THEOREM ShortShiftIsExact ==
    ASSUME NEW S, NEW t \in Seq(S), NEW i \in 1 .. Len(t), ShiftIsShort(t, i)
    PROVE  RemoveEntry(t, i) = Without(t, i)
<1>1. ASSUME NEW k \in 1 .. Len(t) - 1
      PROVE  (IF k = i THEN t[i + 1] ELSE t[k]) = (IF k < i THEN t[k] ELSE t[k + 1])
  BY DEF ShiftIsShort
<1> QED
  BY <1>1 DEF RemoveEntry, Without

\* The second half drops the slot whose descriptors are closed and keeps the
\* others, as long as its loop has at most one slot to move.
LEMMA DescriptorShift ==
    ASSUME DescriptorInv, RemoveDeparted \/ ShutdownRemove
    PROVE  SlotInUse' /\ FdsOpen' /\ FdsApart' /\ NoLeak'
<1> DEFINE n == Len(client)
           Old(k) == IF k < idx THEN k ELSE k + 1
<1>t. client \in Seq(Entry) /\ n \in Nat /\ idx \in Nat \ {0}
  BY DEF DescriptorInv, TypeOK, ServerTypeOK
<1>1. pc = "unlink" /\ pc' \in {"scan", "shut"} /\ fds' = fds
  BY DEF RemoveDeparted, ShutdownRemove, UnlinkAndShift
<1>2. idx \in 1 .. n
  BY <1>t, <1>1 DEF DescriptorInv, SlotInUse
<1>3. SlotInUse'
  BY <1>1 DEF SlotInUse
<1>4. clean' => clean /\ ShiftIsShort(client, idx)
  BY DEF RemoveDeparted, ShutdownRemove, UnlinkAndShift
<1>5. Len(client') = n - 1
      /\ (clean' => \A k \in 1 .. n - 1 : OwnFds(client'[k]) = OwnFds(client[Old(k)]))
  <2> DEFINE t == RemoveEntry(client, idx)
  <2>1. t \in Seq(Entry) /\ Len(t) = n - 1
    BY <1>t, <1>2, RemoveEntryType
  <2>2. client' = t \/ client' = ClearFlag(t, idx)
    BY DEF RemoveDeparted, ShutdownRemove
  <2> HIDE DEF t
  <2>3. Len(client') = n - 1
        /\ \A k \in 1 .. n - 1 : OwnFds(client'[k]) = OwnFds(t[k])
    BY <2>1, <2>2, ClearFlagType, ClearFlagFds
  <2>4. clean' => t = Without(client, idx)
    BY <1>t, <1>2, <1>4, ShortShiftIsExact DEF t
  <2>5. clean' => \A k \in 1 .. n - 1 : t[k] = client[Old(k)]
    BY <2>4 DEF Without
  <2> QED
    BY <2>3, <2>5
<1>6. Live = (1 .. n) \ {idx} /\ Live' = 1 .. n - 1
  BY <1>1, <1>5 DEF Live
<1>7. \A k \in 1 .. n - 1 : Old(k) \in Live
  BY <1>t, <1>6
<1>8. \A i \in Live : \E k \in 1 .. n - 1 : Old(k) = i
  <2>1. ASSUME NEW i \in (1 .. n) \ {idx}
        PROVE  \E k \in 1 .. n - 1 : Old(k) = i
    <3>1. CASE i < idx
      BY <1>t, <1>2, <3>1
    <3>2. CASE i > idx
      <4>1. i - 1 \in 1 .. n - 1 /\ Old(i - 1) = i
        BY <1>t, <1>2, <3>2
      <4> QED
        BY <4>1
    <3> QED
      BY <1>t, <3>1, <3>2
  <2> QED
    BY <1>6, <2>1
<1>9. \A j, k \in 1 .. n - 1 : j # k => Old(j) # Old(k)
  BY <1>t
<1> HIDE DEF n, Old
<1>10. FdsOpen'
  BY <1>1, <1>4, <1>5, <1>6, <1>7 DEF DescriptorInv, FdsOpen
<1>11. FdsApart'
  <2>1. ASSUME clean', NEW j \in 1 .. n - 1, NEW k \in 1 .. n - 1, j # k
        PROVE  OwnFds(client'[j]) \cap OwnFds(client'[k]) = {}
    <3>1. Old(j) \in Live /\ Old(k) \in Live /\ Old(j) # Old(k)
      BY <1>7, <1>9, <2>1
    <3>2. OwnFds(client[Old(j)]) \cap OwnFds(client[Old(k)]) = {}
      BY <1>4, <2>1, <3>1 DEF DescriptorInv, FdsApart
    <3> QED
      BY <1>5, <2>1, <3>2
  <2> QED
    BY <1>6, <2>1 DEF FdsApart
<1>12. NoLeak'
  <2>1. ASSUME clean', NEW f \in Fd, fds[f] # None
        PROVE  \E k \in 1 .. n - 1 : f \in OwnFds(client'[k])
    <3>1. PICK i \in Live : f \in OwnFds(client[i])
      BY <1>4, <2>1 DEF DescriptorInv, NoLeak
    <3>2. PICK k \in 1 .. n - 1 : Old(k) = i
      BY <1>8
    <3> QED
      BY <1>5, <2>1, <3>1, <3>2
  <2> QED
    BY <1>1, <1>6, <2>1 DEF NoLeak
<1> QED
  BY <1>3, <1>10, <1>11, <1>12

\* At exit nothing is open; a client process touches nothing of the server's.
LEMMA DescriptorRest ==
    ASSUME DescriptorInv, ServerExit \/ UNCHANGED server
    PROVE  SlotInUse' /\ FdsOpen' /\ FdsApart' /\ NoLeak'
<1>1. CASE ServerExit
  BY <1>1 DEF ServerExit, SlotInUse, FdsOpen, FdsApart, NoLeak, Live
<1>2. CASE UNCHANGED server
  BY <1>2 DEF server, DescriptorInv, SlotInUse, FdsOpen, FdsApart, NoLeak, Live
<1> QED
  BY <1>1, <1>2

\* What a client process does changes no variable of the server: it reaches
\* the server only through the FIFOs.
LEMMA ClientLeavesServer ==
    ASSUME NEW c, ClientStep(c)
    PROVE  UNCHANGED server
BY DEF ClientStep, Progress, Setup, MkfifoToClient, OpenToClient, MkfifoToServer,
       OpenToServer, Mkfifo, OpenOwn, Join, Send, EndOfInput, Depart, Exit, Recv,
       RecvFails, Kill, Release

\* DescriptorInv is inductive.
LEMMA DescriptorStep == DescriptorInv /\ [Next]_vars => DescriptorInv'
<1> SUFFICES ASSUME DescriptorInv, [Next]_vars PROVE DescriptorInv'
  OBVIOUS
<1>1. TypeOK'
  BY TypeStep DEF DescriptorInv
<1>2. UNCHANGED vars => UNCHANGED server
  BY DEF vars
<1>3. SlotInUse' /\ FdsOpen' /\ FdsApart' /\ NoLeak'
  BY <1>2, DescriptorServer, DescriptorJoin, DescriptorClose, DescriptorShift,
     DescriptorRest, ClientLeavesServer DEF Next, ServerStep
<1> QED
  BY <1>1, <1>3 DEF DescriptorInv

\* The slots in use hold descriptors that are open and pairwise distinct, they
\* hold all the server has, and server_remove_client is never called for a slot
\* that is not in use (server_get_client would end the server).
THEOREM DescriptorsCorrect == Spec => []DescriptorInv
BY DescriptorInit, DescriptorStep, PTL DEF Spec

\* The server never has a descriptor open that is not in a slot of its table,
\* whatever the number of clients and descriptors, whichever open() fails and
\* whether or not names are used twice, until a removal has to shift two slots.
THEOREM NoLeakCorrect == Spec => []NoLeak
<1>1. DescriptorInv => NoLeak
  BY DEF DescriptorInv
<1> QED
  BY DescriptorsCorrect, <1>1, PTL
-----------------------------------------------------------------------------
(* A removal keeps the order of the others *)

\* Only server_remove_client makes the table shorter.
LEMMA OnlyRemovalsShorten ==
    ASSUME TypeOK, [Next]_vars, Len(client') < Len(client)
    PROVE  RemoveDeparted \/ ShutdownRemove
<1>t. client \in Seq(Entry)
  BY DEF TypeOK, ServerTypeOK
<1>1. ASSUME client' = client \/ \E k : client' = ClearFlag(client, k)
      PROVE  FALSE
  BY <1>1, <1>t, ClearFlagType
<1>2. CASE UNCHANGED vars \/ \E c \in Clients : ClientStep(c)
  BY <1>1, <1>2, ClientLeavesServer DEF vars, server
<1>3. CASE ServerStart \/ NextRound \/ ShutdownStart \/ SkipJoin \/ SkipClient \/ WriteOne
           \/ JoinDone \/ EndScan \/ ShutdownLoop \/ Signal \/ DepartClient
           \/ ShutdownClose \/ ServerExit
  BY <1>1, <1>3 DEF ServerStart, NextRound, ShutdownStart, SkipJoin, SkipClient, WriteOne,
     JoinDone, EndScan, ShutdownLoop, Signal, DepartClient, ShutdownClose, ServerExit, CloseClient
<1>4. CASE HandleClient \/ MesgDone
  BY <1>1, <1>4 DEF HandleClient, MesgDone
<1>5. CASE CheckSources
  BY <1>5, <1>t DEF CheckSources
<1>6. CASE HandleJoin
  <2>1. client' = client \/ \E e : client' = Append(client, e)
    BY <1>6 DEF HandleJoin, AddClient, AddEntry
  <2>2. \A e : Len(Append(client, e)) = Len(client) + 1
    BY <1>t
  <2> QED
    BY <1>1, <1>t, <2>1, <2>2
<1> QED
  BY <1>2, <1>3, <1>4, <1>5, <1>6 DEF Next, ServerStep

\* Clearing a flag changes no name.
LEMMA NamesCleared ==
    ASSUME NEW t \in Seq(Entry), NEW k
    PROVE  NamesIn(ClearFlag(t, k)) = NamesIn(t)
<1>1. Len(ClearFlag(t, k)) = Len(t)
  BY ClearFlagType
<1>2. ASSUME NEW j \in 1 .. Len(t) PROVE ClearFlag(t, k)[j].name = t[j].name
  <2>1. t[j] \in Entry
    OBVIOUS
  <2> QED
    BY <2>1 DEF ClearFlag, Entry
<1> QED
  BY <1>1, <1>2 DEF NamesIn

\* Removing a slot and taking the names is the same in either order.
LEMMA NamesWithout ==
    ASSUME NEW t \in Seq(Entry), NEW i \in 1 .. Len(t)
    PROVE  NamesIn(Without(t, i)) = Without(NamesIn(t), i)
<1>1. Len(t) \in Nat /\ Len(t) - 1 \in Nat
  OBVIOUS
<1>2. Len(Without(t, i)) = Len(t) - 1 /\ Len(NamesIn(t)) = Len(t)
  BY <1>1 DEF Without, NamesIn
<1>3. ASSUME NEW k \in 1 .. Len(t) - 1
      PROVE  Without(t, i)[k].name = IF k < i THEN NamesIn(t)[k] ELSE NamesIn(t)[k + 1]
  BY <1>1 DEF Without, NamesIn
<1> QED
  BY <1>2, <1>3 DEF NamesIn, Without

\* For every table size: as long as no removal has had to shift two slots,
\* server_remove_client drops the one slot and keeps the others in their order.
THEOREM OrderKept == Spec => ShortShiftPreservesOrder
<1>1. ASSUME DescriptorInv, [Next]_vars, Len(client') < Len(client), clean'
      PROVE  NamesIn(client') = Without(NamesIn(client), idx)
  <2> DEFINE t == RemoveEntry(client, idx)
  <2>1. RemoveDeparted \/ ShutdownRemove
    BY <1>1, OnlyRemovalsShorten DEF DescriptorInv
  <2>2. client \in Seq(Entry) /\ idx \in 1 .. Len(client)
    BY <1>1, <2>1 DEF DescriptorInv, TypeOK, ServerTypeOK, SlotInUse, RemoveDeparted, ShutdownRemove
  <2>3. ShiftIsShort(client, idx)
    BY <1>1, <2>1 DEF RemoveDeparted, ShutdownRemove, UnlinkAndShift
  <2>4. t = Without(client, idx)
    BY <2>2, <2>3, ShortShiftIsExact
  <2>5. t \in Seq(Entry)
    BY <2>2, RemoveEntryType
  <2>6. client' = t \/ client' = ClearFlag(t, idx)
    BY <2>1 DEF RemoveDeparted, ShutdownRemove
  <2> HIDE DEF t
  <2>7. NamesIn(t) = Without(NamesIn(client), idx)
    BY <2>2, <2>4, NamesWithout
  <2>8. NamesIn(ClearFlag(t, idx)) = NamesIn(t)
    BY <2>5, NamesCleared
  <2> QED
    BY <2>6, <2>7, <2>8
<1>2. DescriptorInv /\ [Next]_vars
      => [Len(client') < Len(client) /\ clean' =>
            NamesIn(client') = Without(NamesIn(client), idx)]_vars
  BY <1>1
<1> QED
  BY DescriptorsCorrect, <1>2, PTL DEF Spec, ShortShiftPreservesOrder
=============================================================================
