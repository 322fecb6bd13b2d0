------------------------- MODULE BlatherTableProofs -------------------------
(***************************************************************************)
(* The table of clients, proved for every number of clients, names,        *)
(* descriptors and slots: whose descriptors a slot holds, who has been     *)
(* admitted, and when an admission can fail.                               *)
(***************************************************************************)
EXTENDS BlatherServerProofs, FiniteSetTheorems

-----------------------------------------------------------------------------
(* What each step does to the table *)

\* Two slots that differ in data_ready at most.
SameSlot(e, f) ==
    /\ e.name = f.name
    /\ e.to_client_fd = f.to_client_fd
    /\ e.to_server_fd = f.to_server_fd

\* A step that adds and removes no slot.
SameSlots ==
    /\ Len(client') = Len(client)
    /\ \A i \in 1 .. Len(client) : SameSlot(client'[i], client[i])

\* Where slot k of the shorter table comes from.
Old(k) == IF k < idx THEN k ELSE k + 1

\* server_add_client has stored the slot e for c, and its descriptors were free.
Added(e, c) ==
    /\ e \in Entry
    /\ e.name = NameOf[c]
    /\ ~e.data_ready
    /\ client' = Append(client, e)
    /\ e.to_server_fd # NoFd =>
         /\ e.to_server_fd \in Fd
         /\ link[<<"toServer", NameOf[c]>>] # None
         /\ fds[e.to_server_fd] = None
         /\ fds'[e.to_server_fd] = link[<<"toServer", NameOf[c]>>]
    /\ e.to_client_fd # NoFd =>
         /\ e.to_client_fd \in Fd
         /\ link[<<"toClient", NameOf[c]>>] # None
         /\ fds[e.to_client_fd] = None
         /\ fds'[e.to_client_fd] = link[<<"toClient", NameOf[c]>>]
    /\ \A d \in Fd : d \notin OwnFds(e) => fds'[d] = fds[d]

\* Clearing a flag leaves the rest of every slot alone.
LEMMA ClearFlagSlot ==
    ASSUME NEW t \in Seq(Entry), NEW k, NEW i \in 1 .. Len(t)
    PROVE  SameSlot(ClearFlag(t, k)[i], t[i])
<1>1. t[i] \in Entry
  OBVIOUS
<1> QED
  BY <1>1 DEF ClearFlag, SameSlot, Entry

\* Only an admission and a removal change more of the table than flags.
LEMMA SlotsSame ==
    ASSUME TypeOK, [Next]_vars, ~HandleJoin, ~RemoveDeparted, ~ShutdownRemove
    PROVE  SameSlots
<1>t. client \in Seq(Entry)
  BY DEF TypeOK, ServerTypeOK
<1>1. ASSUME client' = client PROVE SameSlots
  BY <1>1 DEF SameSlots, SameSlot
<1>2. ASSUME NEW k, client' = ClearFlag(client, k) PROVE SameSlots
  BY <1>2, <1>t, ClearFlagType, ClearFlagSlot DEF SameSlots
<1>3. CASE UNCHANGED vars \/ \E c \in Clients : ClientStep(c)
  BY <1>1, <1>3, ClientLeavesServer DEF vars, server
<1>4. CASE ServerStart \/ NextRound \/ ShutdownStart \/ SkipJoin \/ SkipClient \/ WriteOne
           \/ JoinDone \/ EndScan \/ ShutdownLoop \/ Signal \/ DepartClient
           \/ ShutdownClose \/ ServerExit
  BY <1>1, <1>4 DEF ServerStart, NextRound, ShutdownStart, SkipJoin, SkipClient, WriteOne,
     JoinDone, EndScan, ShutdownLoop, Signal, DepartClient, ShutdownClose, ServerExit, CloseClient
<1>5. CASE HandleClient \/ MesgDone
  BY <1>1, <1>2, <1>5 DEF HandleClient, MesgDone
<1>6. CASE CheckSources
  <2>1. Len(client') = Len(client)
    BY <1>6, <1>t DEF CheckSources
  <2>2. ASSUME NEW i \in 1 .. Len(client)
        PROVE  SameSlot(client'[i], client[i])
    <3>1. client[i] \in Entry
      BY <1>t
    <3>2. client'[i] = [client[i] EXCEPT !.data_ready = @ \/ Readable(client[i])]
      BY <1>6 DEF CheckSources
    <3> QED
      BY <3>1, <3>2 DEF SameSlot, Entry
  <2> QED
    BY <2>1, <2>2 DEF SameSlots
<1> QED
  BY <1>3, <1>4, <1>5, <1>6 DEF Next, ServerStep

\* Only an admission, a removal and the exit change the server's descriptors.
LEMMA FdsSame ==
    ASSUME [Next]_vars, ~HandleJoin, ~DepartClient, ~ShutdownClose, ~ServerExit
    PROVE  fds' = fds
<1>1. CASE UNCHANGED vars \/ \E c \in Clients : ClientStep(c)
  BY <1>1, ClientLeavesServer DEF vars, server
<1>2. CASE ServerStart \/ NextRound \/ ShutdownStart \/ CheckSources \/ SkipJoin \/ SkipClient
           \/ HandleClient \/ WriteOne \/ JoinDone \/ MesgDone \/ RemoveDeparted \/ EndScan
           \/ ShutdownLoop \/ ShutdownRemove \/ Signal
  BY <1>2 DEF ServerStart, NextRound, ShutdownStart, CheckSources, SkipJoin, SkipClient,
     HandleClient, WriteOne, JoinDone, MesgDone, RemoveDeparted, EndScan, ShutdownLoop,
     ShutdownRemove, UnlinkAndShift, Signal
<1> QED
  BY <1>1, <1>2 DEF Next, ServerStep

\* What server_remove_client has put out of order stays so.
LEMMA CleanOnce ==
    ASSUME [Next]_vars, clean'
    PROVE  clean
<1>1. CASE UNCHANGED vars \/ \E c \in Clients : ClientStep(c)
  BY <1>1, ClientLeavesServer DEF vars, server
<1>2. CASE ServerStep \/ Signal
  BY <1>2 DEF ServerStep, ServerStart, NextRound, ShutdownStart, CheckSources, SkipJoin,
     SkipClient, HandleJoin, HandleClient, WriteOne, JoinDone, MesgDone, DepartClient,
     RemoveDeparted, EndScan, ShutdownLoop, ShutdownClose, ShutdownRemove, ServerExit,
     CloseClient, UnlinkAndShift, Signal
<1> QED
  BY <1>1, <1>2 DEF Next

\* A removal leaves only slots that were there; with a short shift, all but one
\* and in their order.
LEMMA ShiftSlots ==
    ASSUME DescriptorInv, RemoveDeparted \/ ShutdownRemove
    PROVE  /\ pc = "unlink" /\ pc' \in {"scan", "shut"} /\ fds' = fds
           /\ idx \in 1 .. Len(client)
           /\ Len(client') = Len(client) - 1
           /\ \A k \in 1 .. Len(client') :
                \E j \in 1 .. Len(client) : SameSlot(client'[k], client[j])
           /\ clean' => /\ clean
                        /\ Len(client) - idx <= 1
                        /\ \A k \in 1 .. Len(client') :
                             /\ Old(k) \in (1 .. Len(client)) \ {idx}
                             /\ SameSlot(client'[k], client[Old(k)])
<1> DEFINE n == Len(client)
           t == RemoveEntry(client, idx)
<1>t. client \in Seq(Entry) /\ n \in Nat /\ idx \in Nat \ {0}
  BY DEF DescriptorInv, TypeOK, ServerTypeOK
<1>1. pc = "unlink" /\ pc' \in {"scan", "shut"} /\ fds' = fds
  BY DEF RemoveDeparted, ShutdownRemove, UnlinkAndShift
<1>2. idx \in 1 .. n
  BY <1>t, <1>1 DEF DescriptorInv, SlotInUse
<1>3. t \in Seq(Entry) /\ Len(t) = n - 1
  BY <1>t, <1>2, RemoveEntryType
<1>4. \A k \in 1 .. n - 1 : t[k] = IF k = idx THEN client[idx + 1] ELSE client[k]
  BY DEF RemoveEntry
<1>5. client' = t \/ client' = ClearFlag(t, idx)
  BY DEF RemoveDeparted, ShutdownRemove
<1>6. clean' => clean /\ n - idx <= 1
  BY DEF RemoveDeparted, ShutdownRemove, UnlinkAndShift, ShiftIsShort
<1> HIDE DEF t
<1>7. Len(client') = n - 1 /\ \A k \in 1 .. n - 1 : SameSlot(client'[k], t[k])
  BY <1>3, <1>5, ClearFlagType, ClearFlagSlot DEF SameSlot
<1>8. ASSUME NEW k \in 1 .. n - 1
      PROVE  \E j \in 1 .. n : SameSlot(client'[k], client[j])
  BY <1>t, <1>2, <1>4, <1>7
<1>9. ASSUME clean', NEW k \in 1 .. n - 1
      PROVE  Old(k) \in (1 .. n) \ {idx} /\ t[k] = client[Old(k)]
  BY <1>t, <1>2, <1>4, <1>6, <1>9 DEF Old
<1> QED
  BY <1>1, <1>2, <1>6, <1>7, <1>8, <1>9

\* An admission appends a slot with descriptors that were free, or, with a full
\* table, none.
LEMMA JoinSlots ==
    ASSUME DescriptorInv, HandleJoin
    PROVE  /\ pc = "join" /\ pc' = "bcast" /\ clean' = clean
           /\ joinQ # <<>> /\ Head(joinQ) \in Clients /\ joinQ' = Tail(joinQ)
           /\ \/ Len(client) = MAXCLIENTS /\ UNCHANGED <<client, fds>>
              \/ Len(client) # MAXCLIENTS /\ \E e \in Entry : Added(e, Head(joinQ))
<1> DEFINE c == Head(joinQ)
           xs == <<"toServer", NameOf[c]>>
           xc == <<"toClient", NameOf[c]>>
<1>1. pc = "join" /\ pc' = "bcast" /\ clean' = clean /\ joinQ # <<>> /\ joinQ' = Tail(joinQ)
  BY DEF HandleJoin, StartBroadcast
<1>2. c \in Clients /\ NameOf[c] \in Names
  BY <1>1, ClientsAssumption DEF DescriptorInv, TypeOK, FifoTypeOK
<1>3. ASSUME AddClient(c) PROVE \E e \in Entry : Added(e, c)
  <2>1. PICK s \in OpenResults(fds, xs) :
          \E r \in OpenResults(AfterOpen(fds, xs, s), xc) :
            /\ fds' = AfterOpen(AfterOpen(fds, xs, s), xc, r)
            /\ client' = AddEntry(client,
                 [name |-> NameOf[c], to_client_fd |-> r, to_server_fd |-> s,
                  data_ready |-> FALSE])
    BY <1>3 DEF AddClient
  <2>2. PICK r \in OpenResults(AfterOpen(fds, xs, s), xc) :
          /\ fds' = AfterOpen(AfterOpen(fds, xs, s), xc, r)
          /\ client' = AddEntry(client,
               [name |-> NameOf[c], to_client_fd |-> r, to_server_fd |-> s,
                data_ready |-> FALSE])
    BY <2>1
  <2> DEFINE f1 == AfterOpen(fds, xs, s)
             e == [name |-> NameOf[c], to_client_fd |-> r, to_server_fd |-> s,
                   data_ready |-> FALSE]
  <2>3. s # NoFd => s \in Fd /\ fds[s] = None /\ link[xs] # None
    BY OpenIsFree
  <2>4. r # NoFd => r \in Fd /\ f1[r] = None /\ link[xc] # None
    BY OpenIsFree
  <2>5. \A d \in Fd : f1[d] = IF d = s THEN link[xs] ELSE fds[d]
    BY DEF AfterOpen
  <2>6. \A d \in Fd : fds'[d] = IF d = r THEN link[xc] ELSE f1[d]
    BY <2>2 DEF AfterOpen
  <2>7. r # NoFd => r # s /\ fds[r] = None
    BY <2>3, <2>4, <2>5
  <2>8. \A d \in Fd : d \notin OwnFds(e) => fds'[d] = fds[d]
    BY <2>5, <2>6, LimitsAssumption DEF OwnFds, Fd, NoFd
  <2>9. s \in Fd \cup {NoFd} /\ r \in Fd \cup {NoFd}
    BY OpenResultsType
  <2>10. e \in Entry
    BY <1>2, <2>9, LimitsAssumption DEF Entry, Fd, NoFd
  <2>11. client' = Append(client, e)
    BY <2>2 DEF AddEntry
  <2>12. /\ e.name = NameOf[c] /\ e.to_client_fd = r /\ e.to_server_fd = s
         /\ e.data_ready = FALSE
    OBVIOUS
  <2> HIDE DEF e, f1
  <2>13. Added(e, c)
    BY <2>3, <2>4, <2>5, <2>6, <2>7, <2>8, <2>10, <2>11, <2>12 DEF Added
  <2> QED
    BY <2>10, <2>13
<1> QED
  BY <1>1, <1>2, <1>3 DEF HandleJoin

-----------------------------------------------------------------------------
(* Who has been admitted *)

\* c has not written its join request.
Early(c) == st[c] \in {"new", "mkC", "opC", "mkS", "opS"}

\* Its request is in the join FIFO.
Waiting(c) == \E i \in 1 .. Len(joinQ) : joinQ[i] = c

\* The server has not read a request of c.
NotYet(c) == Early(c) \/ Waiting(c)

\* Each process asks once.
QueueOnce ==
    /\ \A i, j \in 1 .. Len(joinQ) : joinQ[i] = joinQ[j] => i = j
    /\ \A i \in 1 .. Len(joinQ) : ~Early(joinQ[i])

\* A name of one process only is not in the table before that process is
\* admitted, not even by a removal that copies a slot.
NotYetAbsent ==
    \A c \in Clients : Unique(c) /\ NotYet(c) =>
        \A i \in 1 .. Len(client) : client[i].name # NameOf[c]

\* A path under a name of one process only leads to the FIFO this one made.
LinkOwn ==
    \A c \in Clients, d \in Dir :
        Unique(c) => link[<<d, NameOf[c]>>] \in {None, <<d, c>>}

\* A name of one process only is in one slot.
OneSlot ==
    clean =>
        \A c \in Clients : Unique(c) =>
            \A i, j \in 1 .. Len(client) :
                client[i].name = NameOf[c] /\ client[j].name = NameOf[c] => i = j

\* Its descriptors lead to the FIFOs of this process.
SlotsWired ==
    clean =>
        \A c \in Clients : Unique(c) =>
            \A i \in Live : client[i].name = NameOf[c] => Wired(client[i], c)

TableInv ==
    DescriptorInv /\ QueueOnce /\ NotYetAbsent /\ LinkOwn /\ OneSlot /\ SlotsWired

\* What a step may do to the join FIFO.
LEMMA QueueSteps ==
    ASSUME [Next]_vars
    PROVE  \/ joinQ' = joinQ \/ joinQ' = <<>>
           \/ HandleJoin /\ joinQ # <<>> /\ joinQ' = Tail(joinQ)
           \/ \E c \in Clients : Join(c) /\ joinQ' = Append(joinQ, c)
<1>1. CASE UNCHANGED vars
  BY <1>1 DEF vars, fifos
<1>2. CASE ServerStart \/ NextRound \/ ShutdownStart \/ CheckSources \/ SkipJoin \/ SkipClient
           \/ HandleClient \/ WriteOne \/ JoinDone \/ MesgDone \/ DepartClient
           \/ RemoveDeparted \/ EndScan \/ ShutdownLoop \/ ShutdownClose \/ ShutdownRemove
           \/ ServerExit \/ Signal
  BY <1>2 DEF ServerStart, NextRound, ShutdownStart, CheckSources, SkipJoin, SkipClient,
     HandleClient, WriteOne, JoinDone, MesgDone, DepartClient, RemoveDeparted, EndScan,
     ShutdownLoop, ShutdownClose, ShutdownRemove, ServerExit, CloseClient, UnlinkAndShift,
     Signal, fifos
<1>3. CASE HandleJoin
  BY <1>3 DEF HandleJoin
<1>4. ASSUME NEW c \in Clients, ClientStep(c)
      PROVE  joinQ' = joinQ \/ (Join(c) /\ joinQ' = Append(joinQ, c))
  BY <1>4 DEF ClientStep, Progress, Setup, MkfifoToClient, OpenToClient, MkfifoToServer,
     OpenToServer, Mkfifo, OpenOwn, Join, Send, EndOfInput, Depart, Exit, Recv,
     RecvFails, Kill, Release, fifos
<1> QED
  BY <1>1, <1>2, <1>3, <1>4 DEF Next, ServerStep

\* The server changes no process.
LEMMA ServerLeavesProcs ==
    ASSUME ServerStep \/ Signal
    PROVE  UNCHANGED procs
BY DEF ServerStep, ServerStart, NextRound, ShutdownStart, CheckSources, SkipJoin, SkipClient,
   HandleJoin, HandleClient, WriteOne, JoinDone, MesgDone, DepartClient, RemoveDeparted,
   EndScan, ShutdownLoop, ShutdownClose, ShutdownRemove, ServerExit, CloseClient,
   UnlinkAndShift, Signal

\* A process that has asked or ended does not start again.
LEMMA StartedOnce ==
    ASSUME TypeOK, [Next]_vars, NEW c \in Clients, Early(c)'
    PROVE  Early(c) /\ ~Join(c)
<1>1. CASE UNCHANGED vars \/ ServerStep \/ Signal
  <2>1. st' = st
    BY <1>1, ServerLeavesProcs DEF vars, procs
  <2>2. ~Join(c)
    BY <2>1 DEF Join, Advance, TypeOK, ClientTypeOK
  <2> QED
    BY <2>1, <2>2 DEF Early
<1>2. ASSUME NEW k \in Clients, ClientStep(k)
      PROVE  Early(c) /\ ~Join(c)
  <2>1. st \in [Clients -> {"new", "mkC", "opC", "mkS", "opS", "in",
                            "leaving", "left", "exited", "gone"}]
    BY DEF TypeOK, ClientTypeOK
  <2>2. \/ st' = st
        \/ st[k] \in {"new", "mkC", "opC", "mkS"} /\ \E v : st' = [st EXCEPT ![k] = v]
        \/ \E v \in {"in", "leaving", "left", "exited", "gone"} : st' = [st EXCEPT ![k] = v]
    BY <1>2 DEF ClientStep, Progress, Setup, MkfifoToClient, OpenToClient, MkfifoToServer,
     OpenToServer, Mkfifo, OpenOwn, Join, Advance, Send, EndOfInput, Depart, Exit, Recv,
     RecvFails, Kill, Release, procs
  <2>3. ~Join(c)
    BY <2>1 DEF Join, Advance, Early
  <2> QED
    BY <2>1, <2>2, <2>3 DEF Early
<1> QED
  BY <1>1, <1>2 DEF Next

\* The queue stays without repetitions.
LEMMA QueueStep ==
    ASSUME TypeOK, QueueOnce, [Next]_vars
    PROVE  QueueOnce'
<1>t. joinQ \in Seq(Clients)
  BY DEF TypeOK, FifoTypeOK
<1>1. \A c \in Clients : Early(c)' => Early(c)
  BY StartedOnce
<1>2. CASE joinQ' = joinQ \/ joinQ' = <<>>
  BY <1>t, <1>1, <1>2 DEF QueueOnce
<1>3. CASE joinQ # <<>> /\ joinQ' = Tail(joinQ)
  <2>1. Len(joinQ') = Len(joinQ) - 1 /\ \A i \in 1 .. Len(joinQ') :
          i + 1 \in 1 .. Len(joinQ) /\ joinQ'[i] = joinQ[i + 1] /\ joinQ'[i] \in Clients
    BY <1>t, <1>3
  <2> QED
    BY <1>1, <2>1 DEF QueueOnce
<1>4. ASSUME NEW c \in Clients, Join(c), joinQ' = Append(joinQ, c)
      PROVE  QueueOnce'
  <2>1. Early(c) /\ ~Early(c)'
    BY <1>4, StartedOnce DEF Join, Advance, Early
  <2>2. /\ Len(joinQ') = Len(joinQ) + 1 /\ joinQ'[Len(joinQ) + 1] = c
        /\ \A i \in 1 .. Len(joinQ) : joinQ'[i] = joinQ[i] /\ joinQ[i] \in Clients
    BY <1>t, <1>4
  <2>3. \A i \in 1 .. Len(joinQ) : joinQ[i] # c /\ ~Early(joinQ[i])
    BY <2>1 DEF QueueOnce
  <2>4. \A i \in 1 .. Len(joinQ') : i \in 1 .. Len(joinQ) \/ i = Len(joinQ) + 1
    BY <1>t, <2>2
  <2>5. \A i, j \in 1 .. Len(joinQ') : joinQ'[i] = joinQ'[j] => i = j
    BY <2>2, <2>3, <2>4 DEF QueueOnce
  <2>6. \A k \in Clients : (\E i \in 1 .. Len(joinQ') : joinQ'[i] = k) => ~Early(k)'
    BY <1>1, <2>1, <2>2, <2>3, <2>4
  <2>7. \A i \in 1 .. Len(joinQ') : joinQ'[i] \in Clients
    BY <2>2, <2>4
  <2> QED
    BY <2>5, <2>6, <2>7 DEF QueueOnce, Early
<1> QED
  BY QueueSteps, <1>2, <1>3, <1>4

\* Whoever is still to be admitted was so before the step.
LEMMA NotYetLater ==
    ASSUME TypeOK, [Next]_vars, NEW c \in Clients, NotYet(c)'
    PROVE  NotYet(c)
<1>t. joinQ \in Seq(Clients)
  BY DEF TypeOK, FifoTypeOK
<1>1. CASE Early(c)'
  BY <1>1, StartedOnce DEF NotYet
<1>2. CASE Waiting(c)'
  <2>1. CASE joinQ' = joinQ \/ joinQ' = <<>>
    BY <1>2, <2>1 DEF Waiting, NotYet
  <2>2. CASE joinQ # <<>> /\ joinQ' = Tail(joinQ)
    <3>1. \A i \in 1 .. Len(joinQ') : i + 1 \in 1 .. Len(joinQ) /\ joinQ'[i] = joinQ[i + 1]
      BY <1>t, <2>2
    <3> QED
      BY <1>2, <3>1 DEF Waiting, NotYet
  <2>3. ASSUME NEW k \in Clients, Join(k), joinQ' = Append(joinQ, k)
        PROVE  NotYet(c)
    <3>1. Early(k)
      BY <2>3 DEF Join, Advance, Early
    <3>2. \A i \in 1 .. Len(joinQ') : joinQ'[i] = k \/ (i \in 1 .. Len(joinQ) /\ joinQ'[i] = joinQ[i])
      BY <1>t, <2>3
    <3> QED
      BY <1>2, <3>1, <3>2 DEF Waiting, NotYet
  <2> QED
    BY QueueSteps, <2>1, <2>2, <2>3
<1> QED
  BY <1>1, <1>2 DEF NotYet

\* The process whose request is read is not still to be admitted after it.
LEMMA HeadAdmitted ==
    ASSUME TypeOK, QueueOnce, HandleJoin, NEW c, c = Head(joinQ)
    PROVE  NotYet(c) /\ ~NotYet(c)'
<1>t. joinQ \in Seq(Clients)
  BY DEF TypeOK, FifoTypeOK
<1>1. joinQ # <<>> /\ joinQ' = Tail(joinQ) /\ st' = st
  BY DEF HandleJoin, procs
<1>2. 1 \in 1 .. Len(joinQ) /\ c = joinQ[1]
  BY <1>t, <1>1
<1>3. ~Early(c) /\ ~Early(c)'
  BY <1>1, <1>2 DEF QueueOnce, Early
<1>4. \A i \in 1 .. Len(joinQ') : i + 1 \in 1 .. Len(joinQ) /\ i + 1 # 1 /\ joinQ'[i] = joinQ[i + 1]
  BY <1>t, <1>1
<1>5. ~Waiting(c)'
  BY <1>1, <1>2, <1>4 DEF QueueOnce, Waiting
<1> QED
  BY <1>2, <1>3, <1>5 DEF NotYet, Waiting

-----------------------------------------------------------------------------
(* Whose descriptors a slot holds *)

\* The slots in use stay the same ones between additions and removals.
LEMMA LiveSame ==
    ASSUME TypeOK, [Next]_vars, ~HandleJoin, ~DepartClient, ~ShutdownClose,
           ~RemoveDeparted, ~ShutdownRemove, ~ServerExit
    PROVE  Live' = Live
<1>1. Len(client') = Len(client)
  BY SlotsSame DEF SameSlots
<1>2. CASE pc' = pc /\ idx' = idx
  BY <1>1, <1>2 DEF Live
<1>3. CASE pc \notin {"unlink", "done"} /\ pc' \notin {"unlink", "done"}
  BY <1>1, <1>3 DEF Live
<1>4. CASE UNCHANGED vars \/ \E c \in Clients : ClientStep(c)
  BY <1>2, <1>4, ClientLeavesServer DEF vars, server
<1>5. CASE ServerStart \/ NextRound \/ ShutdownStart \/ CheckSources \/ SkipJoin \/ SkipClient
           \/ HandleClient \/ WriteOne \/ JoinDone \/ MesgDone \/ EndScan \/ ShutdownLoop
           \/ Signal
  <2>1. \/ pc' = pc /\ idx' = idx
        \/ pc \notin {"unlink", "done"} /\ pc' \notin {"unlink", "done"}
    BY <1>5 DEF ServerStart, NextRound, ShutdownStart, CheckSources, SkipJoin, SkipClient,
       HandleClient, WriteOne, JoinDone, MesgDone, EndScan, ShutdownLoop, Signal,
       StartBroadcast, EndBroadcast
  <2> QED
    BY <1>2, <1>3, <2>1
<1> QED
  BY <1>4, <1>5 DEF Next, ServerStep

\* A slot in use was in use before the step, with the same descriptors referring
\* to the same FIFOs, unless it has just been added.
LEMMA SlotOrigin ==
    ASSUME DescriptorInv, [Next]_vars, clean', NEW i \in Live'
    PROVE  \/ \E j \in Live : /\ SameSlot(client'[i], client[j])
                              /\ \A f \in OwnFds(client[j]) : f \in Fd /\ fds'[f] = fds[f]
           \/ HandleJoin /\ Added(client'[i], Head(joinQ))
<1>t. TypeOK /\ client \in Seq(Entry) /\ idx \in Nat
  BY DEF DescriptorInv, TypeOK, ServerTypeOK
<1>0. DescriptorInv'
  BY DescriptorStep
<1>1. CASE HandleJoin
  <2>1. pc' = "bcast" /\ pc = "join" /\ clean
    BY <1>1, JoinSlots
  <2>2. Live = 1 .. Len(client) /\ Live' = 1 .. Len(client')
    BY <2>1 DEF Live
  <2>3. CASE UNCHANGED <<client, fds>>
    BY <2>1, <2>2, <2>3 DEF SameSlot, DescriptorInv, FdsOpen
  <2>4. ASSUME NEW e \in Entry, Added(e, Head(joinQ))
        PROVE  \/ \E j \in Live : /\ SameSlot(client'[i], client[j])
                                  /\ \A f \in OwnFds(client[j]) : f \in Fd /\ fds'[f] = fds[f]
               \/ Added(client'[i], Head(joinQ))
    <3>1. client' = Append(client, e)
      BY <2>4 DEF Added
    <3>2. CASE i \in 1 .. Len(client)
      <4>1. client'[i] = client[i] /\ i \in Live
        BY <1>t, <2>2, <3>1, <3>2
      <4>2. \A f \in OwnFds(client[i]) : f \in Fd /\ fds[f] # None
        BY <2>1, <4>1 DEF DescriptorInv, FdsOpen
      <4>3. \A f \in OwnFds(client[i]) : f \notin OwnFds(e)
        BY <2>4, <4>2 DEF Added, OwnFds
      <4>4. \A f \in OwnFds(client[i]) : fds'[f] = fds[f]
        BY <2>4, <4>2, <4>3 DEF Added
      <4> QED
        BY <4>1, <4>2, <4>4 DEF SameSlot
    <3>3. CASE i \notin 1 .. Len(client)
      <4>1. client'[i] = e
        BY <1>t, <2>2, <3>1, <3>3
      <4> QED
        BY <2>4, <4>1
    <3> QED
      BY <3>2, <3>3
  <2> QED
    BY <1>1, <2>3, <2>4, JoinSlots
<1>2. CASE DepartClient \/ ShutdownClose
  <2>1. /\ pc \in {"bcast", "shut"} /\ pc' = "unlink" /\ idx' = idx /\ clean
        /\ fds' = CloseBoth(fds, client[idx]) /\ client' = client
    BY <1>2 DEF DepartClient, ShutdownClose, CloseClient, EndBroadcast
  <2>2. idx \in Live /\ i \in Live /\ i # idx
    <3>1. idx \in 1 .. Len(client)
      BY <1>2, <1>t DEF DepartClient, ShutdownClose, EndBroadcast, DescriptorInv, SlotInUse,
         TypeOK, ServerTypeOK
    <3> QED
      BY <2>1, <3>1 DEF Live
  <2>3. \A f \in OwnFds(client[i]) : f \in Fd
    BY <2>1, <2>2 DEF DescriptorInv, FdsOpen
  <2>4. OwnFds(client[i]) \cap OwnFds(client[idx]) = {}
    BY <2>1, <2>2 DEF DescriptorInv, FdsApart
  <2>5. \A f \in OwnFds(client[i]) : fds'[f] = fds[f]
    BY <2>1, <2>3, <2>4, LimitsAssumption DEF CloseBoth, OwnFds, Fd, NoFd
  <2> QED
    BY <2>1, <2>2, <2>3, <2>5 DEF SameSlot
<1>3. CASE RemoveDeparted \/ ShutdownRemove
  <2>1. /\ pc = "unlink" /\ pc' \in {"scan", "shut"} /\ fds' = fds /\ clean
        /\ \A k \in 1 .. Len(client') :
             Old(k) \in (1 .. Len(client)) \ {idx} /\ SameSlot(client'[k], client[Old(k)])
    BY <1>3, ShiftSlots
  <2>2. Live = (1 .. Len(client)) \ {idx} /\ Live' = 1 .. Len(client')
    BY <2>1 DEF Live
  <2>3. Old(i) \in Live /\ SameSlot(client'[i], client[Old(i)])
    BY <2>1, <2>2
  <2> QED
    BY <2>1, <2>3 DEF DescriptorInv, FdsOpen
<1>4. CASE ServerExit
  BY <1>4 DEF ServerExit, Live
<1>5. CASE ~HandleJoin /\ ~DepartClient /\ ~ShutdownClose /\ ~RemoveDeparted
           /\ ~ShutdownRemove /\ ~ServerExit
  <2>1. Live' = Live /\ SameSlots /\ fds' = fds
    BY <1>5, <1>t, LiveSame, SlotsSame, FdsSame
  <2>2. i \in 1 .. Len(client)
    BY <2>1 DEF Live
  <2>3. clean
    BY CleanOnce
  <2> QED
    BY <2>1, <2>2, <2>3 DEF SameSlots, DescriptorInv, FdsOpen
<1> QED
  BY <1>1, <1>2, <1>3, <1>4, <1>5

\* What a step may do to the paths of the FIFOs.
LEMMA LinkSteps ==
    ASSUME [Next]_vars
    PROVE  \/ link' = link
           \/ /\ DepartClient \/ ShutdownClose
              /\ link' = [link EXCEPT ![<<"toClient", client[idx].name>>] = None]
           \/ /\ RemoveDeparted \/ ShutdownRemove
              /\ link' = [link EXCEPT ![<<"toServer", client[idx].name>>] = None]
           \/ \E c \in Clients, d \in Dir :
                /\ link[<<d, NameOf[c]>>] = None
                /\ link' = [link EXCEPT ![<<d, NameOf[c]>>] = <<d, c>>]
<1>1. CASE UNCHANGED vars
  BY <1>1 DEF vars, fifos
<1>2. CASE ServerStart \/ NextRound \/ ShutdownStart \/ CheckSources \/ SkipJoin \/ SkipClient
           \/ HandleJoin \/ HandleClient \/ WriteOne \/ JoinDone \/ MesgDone \/ EndScan
           \/ ShutdownLoop \/ ServerExit \/ Signal
  BY <1>2 DEF ServerStart, NextRound, ShutdownStart, CheckSources, SkipJoin, SkipClient,
     HandleJoin, HandleClient, WriteOne, JoinDone, MesgDone, EndScan, ShutdownLoop,
     ServerExit, Signal, fifos
<1>3. CASE DepartClient \/ ShutdownClose
  BY <1>3 DEF DepartClient, ShutdownClose, CloseClient
<1>4. CASE RemoveDeparted \/ ShutdownRemove
  BY <1>4 DEF RemoveDeparted, ShutdownRemove, UnlinkAndShift
<1>5. ASSUME NEW c \in Clients, NEW d \in Dir, Mkfifo(c, d)
      PROVE  \/ link' = link
             \/ /\ link[<<d, NameOf[c]>>] = None
                /\ link' = [link EXCEPT ![<<d, NameOf[c]>>] = <<d, c>>]
  BY <1>5 DEF Mkfifo
<1>6. ASSUME NEW c \in Clients, ClientStep(c)
      PROVE  link' = link \/ \E d \in Dir : Mkfifo(c, d)
  BY <1>6 DEF ClientStep, Progress, Setup, MkfifoToClient, OpenToClient, MkfifoToServer,
     OpenToServer, OpenOwn, Join, Send, EndOfInput, Depart, Exit, Recv,
     RecvFails, Kill, Release, fifos, Dir
<1> QED
  BY <1>1, <1>2, <1>3, <1>4, <1>5, <1>6 DEF Next, ServerStep

\* Only a process of that name puts a FIFO under a name.
LEMMA LinkOwnStep ==
    ASSUME TypeOK, LinkOwn, [Next]_vars
    PROVE  LinkOwn'
<1>t. link \in [Path -> Pipe \cup {None}]
  BY DEF TypeOK, FifoTypeOK
<1>1. SUFFICES ASSUME NEW c \in Clients, NEW d \in Dir, Unique(c)
               PROVE  link'[<<d, NameOf[c]>>] \in {None, <<d, c>>}
  BY DEF LinkOwn, Unique
<1>2. <<d, NameOf[c]>> \in Path /\ link[<<d, NameOf[c]>>] \in {None, <<d, c>>}
  BY <1>1, ClientsAssumption DEF LinkOwn, Path
<1>3. ASSUME NEW x, link' = [link EXCEPT ![x] = None]
      PROVE  link'[<<d, NameOf[c]>>] \in {None, <<d, c>>}
  BY <1>t, <1>2, <1>3
<1>4. ASSUME NEW k \in Clients, NEW e \in Dir, link' = [link EXCEPT ![<<e, NameOf[k]>>] = <<e, k>>]
      PROVE  link'[<<d, NameOf[c]>>] \in {None, <<d, c>>}
  BY <1>t, <1>1, <1>2, <1>4 DEF Unique
<1> QED
  BY LinkSteps, <1>2, <1>3, <1>4

\* A name enters the table with the process that is admitted.
LEMMA NotYetAbsentStep ==
    ASSUME DescriptorInv, QueueOnce, NotYetAbsent, [Next]_vars
    PROVE  NotYetAbsent'
<1>t. TypeOK /\ client \in Seq(Entry)
  BY DEF DescriptorInv, TypeOK, ServerTypeOK
<1>1. SUFFICES ASSUME NEW c \in Clients, Unique(c), NotYet(c)', NEW i \in 1 .. Len(client')
               PROVE  client'[i].name # NameOf[c]
  BY DEF NotYetAbsent, Unique
<1>2. \A j \in 1 .. Len(client) : client[j].name # NameOf[c]
  BY <1>1, <1>t, NotYetLater DEF NotYetAbsent
<1>3. CASE HandleJoin
  <2>1. CASE UNCHANGED <<client, fds>>
    BY <1>1, <1>2, <2>1
  <2>2. ASSUME NEW e \in Entry, Added(e, Head(joinQ))
        PROVE  client'[i].name # NameOf[c]
    <3>1. client' = Append(client, e) /\ e.name = NameOf[Head(joinQ)]
      BY <2>2 DEF Added
    <3>2. (i \in 1 .. Len(client) /\ client'[i] = client[i]) \/ client'[i] = e
      BY <1>1, <1>t, <3>1
    <3>3. ASSUME c = Head(joinQ) PROVE FALSE
      <4>1. QueueOnce /\ NotYet(c)'
        BY <1>1
      <4>2. ~NotYet(c)'
        BY <1>3, <1>t, <3>3, <4>1, HeadAdmitted
      <4> QED
        BY <4>1, <4>2
    <3>4. NameOf[Head(joinQ)] # NameOf[c]
      BY <1>1, <1>3, <3>3, JoinSlots DEF Unique
    <3> QED
      BY <1>2, <3>1, <3>2, <3>4
  <2> QED
    BY <1>3, <2>1, <2>2, JoinSlots
<1>4. CASE RemoveDeparted \/ ShutdownRemove
  BY <1>1, <1>2, <1>4, ShiftSlots DEF SameSlot
<1>5. CASE ~HandleJoin /\ ~RemoveDeparted /\ ~ShutdownRemove
  BY <1>1, <1>2, <1>5, <1>t, SlotsSame DEF SameSlots, SameSlot
<1> QED
  BY <1>3, <1>4, <1>5

\* An admitted process had no slot, and a short shift doubles none.
LEMMA OneSlotStep ==
    ASSUME DescriptorInv, QueueOnce, NotYetAbsent, OneSlot, [Next]_vars
    PROVE  OneSlot'
<1>t. TypeOK /\ client \in Seq(Entry)
  BY DEF DescriptorInv, TypeOK, ServerTypeOK
<1>1. SUFFICES ASSUME clean', NEW c \in Clients, Unique(c),
                      NEW i \in 1 .. Len(client'), NEW j \in 1 .. Len(client'),
                      client'[i].name = NameOf[c], client'[j].name = NameOf[c]
               PROVE  i = j
  BY DEF OneSlot, Unique
<1>2. CASE HandleJoin
  <2>1. clean
    BY <1>1, <1>2, JoinSlots
  <2>2. CASE UNCHANGED <<client, fds>>
    BY <1>1, <2>1, <2>2 DEF OneSlot
  <2>3. ASSUME NEW e \in Entry, Added(e, Head(joinQ))
        PROVE  i = j
    <3>1. client' = Append(client, e) /\ e.name = NameOf[Head(joinQ)]
      BY <2>3 DEF Added
    <3>2. /\ (i \in 1 .. Len(client) /\ client'[i] = client[i]) \/ (i = Len(client) + 1 /\ client'[i] = e)
          /\ (j \in 1 .. Len(client) /\ client'[j] = client[j]) \/ (j = Len(client) + 1 /\ client'[j] = e)
      BY <1>1, <1>t, <3>1
    <3>3. CASE Head(joinQ) = c
      <4>1. NotYet(c)
        BY <1>2, <1>t, <3>3, HeadAdmitted
      <4> QED
        BY <1>1, <3>2, <4>1 DEF NotYetAbsent
    <3>4. CASE Head(joinQ) # c
      <4>1. e.name # NameOf[c]
        BY <1>1, <1>2, <3>1, <3>4, JoinSlots DEF Unique
      <4> QED
        BY <1>1, <2>1, <3>2, <4>1 DEF OneSlot
    <3> QED
      BY <3>3, <3>4
  <2> QED
    BY <1>2, <2>2, <2>3, JoinSlots
<1>3. CASE RemoveDeparted \/ ShutdownRemove
  <2>1. /\ clean /\ idx \in Nat
        /\ \A k \in 1 .. Len(client') :
             Old(k) \in 1 .. Len(client) /\ client'[k].name = client[Old(k)].name
    BY <1>1, <1>3, ShiftSlots DEF SameSlot
  <2>2. Old(i) = Old(j)
    BY <1>1, <2>1 DEF OneSlot
  <2> QED
    BY <2>1, <2>2 DEF Old
<1>4. CASE ~HandleJoin /\ ~RemoveDeparted /\ ~ShutdownRemove
  <2>1. Len(client') = Len(client) /\ \A k \in 1 .. Len(client) : client'[k].name = client[k].name
    BY <1>4, <1>t, SlotsSame DEF SameSlots, SameSlot
  <2>2. clean
    BY <1>1, CleanOnce
  <2> QED
    BY <1>1, <2>1, <2>2 DEF OneSlot
<1> QED
  BY <1>2, <1>3, <1>4

\* The descriptors of a slot lead where they led; a new slot's lead to what its
\* process has put under its name.
LEMMA SlotsWiredStep ==
    ASSUME TableInv, [Next]_vars
    PROVE  SlotsWired'
<1>t. DescriptorInv /\ TypeOK /\ LinkOwn
  BY DEF TableInv, DescriptorInv
<1>1. SUFFICES ASSUME clean', NEW c \in Clients, Unique(c), NEW i \in Live',
                      client'[i].name = NameOf[c]
               PROVE  Wired(client[i], c)'
  BY DEF SlotsWired, Unique
<1>2. SUFFICES /\ client'[i].to_client_fd # NoFd =>
                    client'[i].to_client_fd \in Fd
                    /\ fds'[client'[i].to_client_fd] = <<"toClient", c>>
               /\ client'[i].to_server_fd # NoFd =>
                    client'[i].to_server_fd \in Fd
                    /\ fds'[client'[i].to_server_fd] = <<"toServer", c>>
  BY DEF Wired, PipeAt
<1>3. ASSUME NEW j \in Live, SameSlot(client'[i], client[j]),
             \A f \in OwnFds(client[j]) : f \in Fd /\ fds'[f] = fds[f]
      PROVE  /\ client'[i].to_client_fd # NoFd =>
                  client'[i].to_client_fd \in Fd
                  /\ fds'[client'[i].to_client_fd] = <<"toClient", c>>
             /\ client'[i].to_server_fd # NoFd =>
                  client'[i].to_server_fd \in Fd
                  /\ fds'[client'[i].to_server_fd] = <<"toServer", c>>
  <2>1. clean
    BY <1>1, CleanOnce
  <2>2. Wired(client[j], c)
    BY <1>1, <1>3, <2>1 DEF TableInv, SlotsWired, SameSlot
  <2> QED
    BY <1>3, <2>2 DEF Wired, PipeAt, SameSlot, OwnFds
<1>4. ASSUME HandleJoin, Added(client'[i], Head(joinQ))
      PROVE  /\ client'[i].to_client_fd # NoFd =>
                  client'[i].to_client_fd \in Fd
                  /\ fds'[client'[i].to_client_fd] = <<"toClient", c>>
             /\ client'[i].to_server_fd # NoFd =>
                  client'[i].to_server_fd \in Fd
                  /\ fds'[client'[i].to_server_fd] = <<"toServer", c>>
  <2>1. NameOf[Head(joinQ)] = NameOf[c]
    BY <1>1, <1>4 DEF Added
  <2>2. \A d \in Dir : link[<<d, NameOf[c]>>] \in {None, <<d, c>>}
    BY <1>1, <1>t DEF LinkOwn
  <2> QED
    BY <1>4, <2>1, <2>2 DEF Added, Dir
<1> QED
  BY <1>1, <1>3, <1>4, <1>t, SlotOrigin

\* Initially the table is empty and no path is there.
LEMMA TableInit == Init => TableInv
<1> SUFFICES ASSUME Init PROVE TableInv
  OBVIOUS
<1>1. DescriptorInv
  BY DescriptorInit
<1>2. QueueOnce /\ NotYetAbsent /\ OneSlot /\ SlotsWired
  BY DEF Init, QueueOnce, NotYetAbsent, OneSlot, SlotsWired, Live
<1>3. LinkOwn
  BY ClientsAssumption DEF Init, LinkOwn, Path
<1> QED
  BY <1>1, <1>2, <1>3 DEF TableInv

\* TableInv is inductive.
LEMMA TableStep == TableInv /\ [Next]_vars => TableInv'
<1> SUFFICES ASSUME TableInv, [Next]_vars PROVE TableInv'
  OBVIOUS
<1>1. DescriptorInv /\ TypeOK /\ QueueOnce /\ NotYetAbsent /\ LinkOwn /\ OneSlot
  BY DEF TableInv, DescriptorInv
<1>2. DescriptorInv'
  BY <1>1, DescriptorStep
<1>3. QueueOnce'
  BY <1>1, QueueStep
<1>4. NotYetAbsent'
  BY <1>1, NotYetAbsentStep
<1>5. LinkOwn'
  BY <1>1, LinkOwnStep
<1>6. OneSlot'
  BY <1>1, OneSlotStep
<1>7. SlotsWired'
  BY SlotsWiredStep
<1> QED
  BY <1>2, <1>3, <1>4, <1>5, <1>6, <1>7 DEF TableInv

\* The table stays consistent with the processes: whoever is admitted is
\* admitted once, and its slot leads to its own FIFOs.
THEOREM TableCorrect == Spec => []TableInv
BY TableInit, TableStep, PTL DEF Spec

\* However many clients join, leave, share names or are killed: until a removal
\* has to shift two slots, a name of one process only has one slot, and its
\* descriptors are open and lead to this process's FIFOs.
THEOREM TableExactCorrect == Spec => []TableExact
<1>1. TableInv => TableExact
  BY DEF TableInv, TableExact, OneSlot, SlotsWired
<1> QED
  BY TableCorrect, <1>1, PTL

-----------------------------------------------------------------------------
(* A newcomer is turned away by a full table only *)

\* A broadcast is under way because it has just been entered, or was before;
\* then neither the table nor the message changes.
LEMMA BroadcastSteps ==
    ASSUME [Next]_vars, pc' = "bcast"
    PROVE  \/ HandleJoin /\ mesg' = [kind |-> "JOINED", from |-> Head(joinQ), n |-> 0]
           \/ ShutdownStart /\ mesg' = NoMesg
           \/ HandleClient /\ pc = "scan" /\ mesg'.kind \in {"MESG", "DEPARTED"}
           \/ /\ pc = "bcast" /\ UNCHANGED <<client, idx, mesg, fds, clean>>
              /\ next' = next \/ (WriteOne /\ next' = next + 1)
<1>1. CASE UNCHANGED vars \/ \E c \in Clients : ClientStep(c)
  BY <1>1, ClientLeavesServer DEF vars, server
<1>2. CASE HandleJoin
  BY <1>2 DEF HandleJoin, StartBroadcast
<1>3. CASE ShutdownStart
  BY <1>3 DEF ShutdownStart, StartBroadcast
<1>4. CASE HandleClient
  BY <1>4 DEF HandleClient, StartBroadcast
<1>5. CASE WriteOne \/ Signal
  BY <1>5 DEF WriteOne, Signal
<1>6. CASE ServerStart \/ NextRound \/ CheckSources \/ SkipJoin \/ SkipClient \/ JoinDone
           \/ MesgDone \/ DepartClient \/ RemoveDeparted \/ EndScan \/ ShutdownLoop
           \/ ShutdownClose \/ ShutdownRemove \/ ServerExit
  BY <1>6 DEF ServerStart, NextRound, CheckSources, SkipJoin, SkipClient, JoinDone,
     MesgDone, DepartClient, RemoveDeparted, EndScan, ShutdownLoop, ShutdownClose,
     ShutdownRemove, ServerExit, CloseClient
<1> QED
  BY <1>1, <1>2, <1>3, <1>4, <1>5, <1>6 DEF Next, ServerStep

\* TurnedAwayOnlyWhenFull is inductive beside DescriptorInv.
LEMMA TurnedAwayStep ==
    ASSUME DescriptorInv, TurnedAwayOnlyWhenFull, [Next]_vars
    PROVE  TurnedAwayOnlyWhenFull'
<1>t. TypeOK /\ client \in Seq(Entry) /\ Len(client) \in Nat /\ next \in Nat \ {0}
  BY DEF DescriptorInv, TypeOK, ServerTypeOK
<1>1. Len(client') <= MAXCLIENTS
  <2>1. Len(client) <= MAXCLIENTS /\ MAXCLIENTS \in Nat
    BY LimitsAssumption DEF TurnedAwayOnlyWhenFull
  <2>2. CASE HandleJoin
    <3>1. CASE UNCHANGED <<client, fds>>
      BY <2>1, <3>1
    <3>2. CASE Len(client) # MAXCLIENTS /\ \E e \in Entry : Added(e, Head(joinQ))
      BY <1>t, <2>1, <3>2 DEF Added
    <3> QED
      BY <2>2, <3>1, <3>2, JoinSlots
  <2>3. CASE RemoveDeparted \/ ShutdownRemove
    BY <1>t, <2>1, <2>3, ShiftSlots
  <2>4. CASE ~HandleJoin /\ ~RemoveDeparted /\ ~ShutdownRemove
    BY <1>t, <2>1, <2>4, SlotsSame DEF SameSlots
  <2> QED
    BY <2>2, <2>3, <2>4
<1>2. ASSUME pc' = "bcast", mesg'.kind = "JOINED", next' = 1
      PROVE  \/ \E i \in 1 .. Len(client') : client'[i].name = NameOf[mesg'.from]
             \/ Len(client') = MAXCLIENTS
  <2>1. CASE HandleJoin /\ mesg' = [kind |-> "JOINED", from |-> Head(joinQ), n |-> 0]
    <3>1. mesg'.from = Head(joinQ)
      BY <2>1
    <3>2. CASE Len(client) = MAXCLIENTS /\ UNCHANGED <<client, fds>>
      BY <3>2
    <3>3. ASSUME NEW e \in Entry, Added(e, Head(joinQ))
          PROVE  \E i \in 1 .. Len(client') : client'[i].name = NameOf[mesg'.from]
      <4>1. client' = Append(client, e) /\ e.name = NameOf[Head(joinQ)]
        BY <3>3 DEF Added
      <4>2. Len(client) + 1 \in 1 .. Len(client') /\ client'[Len(client) + 1] = e
        BY <1>t, <4>1
      <4> QED
        BY <3>1, <4>1, <4>2
    <3> QED
      BY <2>1, <3>2, <3>3, JoinSlots
  <2>2. CASE pc = "bcast" /\ UNCHANGED <<client, idx, mesg, fds, clean>> /\ next' = next
    BY <1>2, <2>2 DEF TurnedAwayOnlyWhenFull, InTable
  <2> QED
    BY <1>2, <1>t, <2>1, <2>2, BroadcastSteps DEF NoMesg
<1> QED
  BY <1>1, <1>2 DEF TurnedAwayOnlyWhenFull, InTable

\* The table never holds more than MAXCLIENTS clients, and a client is announced
\* without a slot only when all are taken, for every table size and whoever
\* joins and leaves in between.
THEOREM TurnedAwayCorrect == Spec => []TurnedAwayOnlyWhenFull
<1>1. Init => TurnedAwayOnlyWhenFull
  BY LimitsAssumption DEF Init, TurnedAwayOnlyWhenFull
<1>2. DescriptorInv /\ TurnedAwayOnlyWhenFull /\ [Next]_vars => TurnedAwayOnlyWhenFull'
  BY TurnedAwayStep
<1> QED
  BY DescriptorsCorrect, <1>1, <1>2, PTL DEF Spec
=============================================================================
