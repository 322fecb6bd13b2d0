--------------------------- MODULE BlatherServer ---------------------------
(***************************************************************************)
(* The blather chat server (project-2: bl_server.c, server_funcs.c), the   *)
(* FIFOs it shares with its clients, and the client processes as far as    *)
(* the server can tell them apart (the order of their mkfifo, open, write  *)
(* and exit calls, bl_client.c).  The server is one sequential thread; an  *)
(* action ends where the next system call may block or where a client      *)
(* process can get between two calls with an effect the server sees.       *)
(*                                                                         *)
(* A FIFO is an inode (Pipe) that a path may name (link), that descriptors *)
(* may refer to (fds of the server, hand of a client) and whose content    *)
(* (buf) lasts only while some descriptor refers to it.  Messages are      *)
(* smaller than PIPE_BUF: each read and write moves exactly one.           *)
(*                                                                         *)
(* A "slip" is a plausible mistake in the definition after it, which some  *)
(* property has to notice; no slip is used by Next.                        *)
(***************************************************************************)
EXTENDS Integers, Sequences, FiniteSets, ClientTable

CONSTANTS
    Clients,     \* runs of bl_client
    Names,       \* user names, argv[2] of bl_client
    NameOf,      \* the name each run of bl_client was given
    MAXCLIENTS,  \* slots of server->client
    MaxFd,       \* largest descriptor the server may have (RLIMIT_NOFILE)
    PipeCap,     \* messages a FIFO holds before a write blocks
    MaxSend,     \* bound: lines each user types
    Killable,    \* clients that may be killed
    None

ASSUME ClientsAssumption ==
    NameOf \in [Clients -> Names]
ASSUME LimitsAssumption ==
    /\ MAXCLIENTS \in Nat \ {0}
    /\ MaxFd \in Nat
    /\ PipeCap \in Nat \ {0}
    /\ MaxSend \in Nat

Dir  == {"toClient", "toServer"}
Pipe == Dir \X Clients     \* the inode that a client's mkfifo would create
Path == Dir \X Names       \* <server><user>toClient.fifo, ...toServer.fifo

ASSUME NoneAssumption == None \notin Pipe

Fd   == 4 .. MaxFd         \* 0-2 are the standard streams, 3 is join_fd
NoFd == -1                 \* what a failed open returns

Mesg == [kind : {"MESG", "JOINED", "DEPARTED", "SHUTDOWN"},
         from : Clients \cup {None}, n : Nat]

Entry == [name : Names, to_client_fd : Int, to_server_fd : Int,
          data_ready : BOOLEAN]

VARIABLES
    \* the server
    pc,          \* where the server is
    KEEP_GOING,
    join_ready,
    client,      \* server->client[0 .. n_clients-1]
    idx,         \* index of the loops over client in main and server_shutdown; else 1
    next,        \* index of the loop in server_broadcast; else 1
    mesg,        \* the message server_broadcast is writing
    fds,         \* the server's descriptors: what each open one refers to
    \* the file system and the FIFOs
    joinFile,    \* the path <server>.fifo
    joinQ,       \* join requests in the live join FIFO
    link,        \* which inode a client FIFO's path names
    buf,         \* content of each inode
    \* the client processes
    st,
    hand,        \* the inodes their two descriptors refer to
    sent,        \* lines typed so far
    \* history
    clean        \* no removal so far had two or more later slots

server == <<pc, KEEP_GOING, join_ready, client, idx, next, mesg, fds, clean>>
fifos  == <<joinFile, joinQ, link, buf>>
procs  == <<st, hand, sent>>
vars   == <<server, fifos, procs>>

\* The BL_SHUTDOWN message; also the value of mesg when there is none.
NoMesg == [kind |-> "SHUTDOWN", from |-> None, n |-> 0]

Init ==
    /\ pc = "start"
    /\ KEEP_GOING = TRUE
    /\ join_ready = FALSE
    /\ client = <<>>
    /\ idx = 1
    /\ next = 1
    /\ mesg = NoMesg
    /\ fds = [f \in Fd |-> None]
    /\ joinFile \in {"absent", "stale"}     \* stale: left by an earlier server
    /\ joinQ = <<>>
    /\ link = [x \in Path |-> None]
    /\ buf = [p \in Pipe |-> <<>>]
    /\ st = [c \in Clients |-> "new"]
    /\ hand = [p \in Pipe |-> None]
    /\ sent = [c \in Clients |-> 0]
    /\ clean = TRUE

-----------------------------------------------------------------------------
(* FIFOs and descriptors *)

Opened(p, f, h) == (\E d \in Fd : f[d] = p) \/ (\E k \in Pipe : h[k] = p)

\* A FIFO that no process has open any more loses its content.
Kept(b, f, h) == [p \in Pipe |-> IF Opened(p, f, h) THEN b[p] ELSE <<>>]

\* What open(path, O_RDWR) may return to a server with descriptors f: the
\* lowest free one; -1 when the path or a free descriptor is missing.
OpenResults(f, x) ==
    IF link[x] # None /\ \E d \in Fd : f[d] = None
    THEN {d \in Fd : f[d] = None /\ \A e \in Fd : f[e] = None => d <= e}
    ELSE {NoFd}

AfterOpen(f, x, r) == [d \in Fd |-> IF d = r THEN link[x] ELSE f[d]]

\* Slip: the second close() is missing.
CloseOnlyToClient(f, e) == [d \in Fd |-> IF d = e.to_client_fd THEN None ELSE f[d]]

CloseBoth(f, e) ==
    [d \in Fd |-> IF d \in {e.to_client_fd, e.to_server_fd} THEN None ELSE f[d]]

\* The FIFO a descriptor of the server refers to; None for -1 and for a
\* descriptor that is no longer open.
PipeAt(fd) == IF fd \in Fd THEN fds[fd] ELSE None

Readable(e) == PipeAt(e.to_server_fd) # None /\ buf[PipeAt(e.to_server_fd)] # <<>>

\* poll() reports POLLNVAL for a closed descriptor, and ignores -1.
Invalid(e)  == e.to_server_fd # NoFd /\ PipeAt(e.to_server_fd) = None

InTable(c) == \E i \in 1 .. Len(client) : client[i].name = NameOf[c]

-----------------------------------------------------------------------------
(* The server *)

\* server_start: the join FIFO is made afresh.
ServerStart ==
    /\ pc = "start"
    /\ pc' = "loop"
    /\ joinFile' = "live"
    /\ joinQ' = <<>>
    /\ join_ready' = FALSE
    /\ UNCHANGED <<KEEP_GOING, client, idx, next, mesg, fds, clean, link, buf, procs>>

\* Slip: the loop of server_broadcast starts at the second slot.
StartBroadcastLate(m) == pc' = "bcast" /\ mesg' = m /\ next' = 2

\* server_broadcast is entered with a message: the loop starts at the first slot.
StartBroadcast(m) ==
    /\ pc' = "bcast"
    /\ mesg' = m
    /\ next' = 1

\* Slip: the loop of server_broadcast ends before the last slot.
EndBroadcastEarly == pc = "bcast" /\ next >= Len(client) /\ next' = 1

\* Its locals are gone when it has returned.
EndBroadcast ==
    /\ pc = "bcast"
    /\ next > Len(client)
    /\ next' = 1

\* Slip: KEEP_GOING is not looked at.
NextRoundAlways ==
    /\ pc = "loop"
    /\ pc' = "poll"
    /\ UNCHANGED <<KEEP_GOING, join_ready, client, idx, next, mesg, fds, clean, fifos, procs>>

\* while(KEEP_GOING)
NextRound ==
    /\ pc = "loop"
    /\ KEEP_GOING
    /\ pc' = "poll"
    /\ UNCHANGED <<KEEP_GOING, join_ready, client, idx, next, mesg, fds, clean, fifos, procs>>

\* Slip: the clients are not told.
ShutdownStartSilent ==
    /\ pc = "loop"
    /\ ~KEEP_GOING
    /\ pc' = "shut"
    /\ joinFile' = "stale"
    /\ joinQ' = <<>>
    /\ UNCHANGED <<KEEP_GOING, join_ready, client, idx, next, mesg, fds, clean, link, buf, procs>>

\* server_shutdown up to the broadcast.  unlink() is given the server's name
\* without ".fifo": the join FIFO loses its reader and stays on disk.
ShutdownStart ==
    /\ pc = "loop"
    /\ ~KEEP_GOING
    /\ StartBroadcast(NoMesg)
    /\ joinFile' = "stale"
    /\ joinQ' = <<>>
    /\ UNCHANGED <<KEEP_GOING, join_ready, client, idx, fds, clean, link, buf, procs>>

\* sig_handle.  A signal interrupts poll() once the server is in it (ret is -1
\* and no flag is set); one that arrives between the test of KEEP_GOING and
\* poll() leaves the server at "poll".
Signal ==
    /\ pc # "done"
    /\ KEEP_GOING \/ pc = "poll"
    /\ KEEP_GOING' = FALSE
    /\ \/ UNCHANGED pc
       \/ pc = "poll" /\ pc' = "join"
    /\ UNCHANGED <<join_ready, client, idx, next, mesg, fds, clean, fifos, procs>>

\* server_check_sources with a poll set that watches the join FIFO or not and
\* the clients in the slots I, and marks the clients in the slots M(I).
PollWith(watchJoin, I, Marked(_)) ==
    /\ pc = "poll"
    /\ (watchJoin /\ joinQ # <<>>) \/ \E i \in I : Readable(client[i]) \/ Invalid(client[i])
    /\ pc' = "join"
    /\ join_ready' = (join_ready \/ (watchJoin /\ joinQ # <<>>))
    /\ client' = [i \in 1 .. Len(client) |->
                    [client[i] EXCEPT !.data_ready = @ \/ Marked(i)]]
    /\ UNCHANGED <<KEEP_GOING, idx, next, mesg, fds, clean, fifos, procs>>

\* Slips: every client is marked; the last client is not in the poll set; the
\* join FIFO is not in it while there is no client.
CheckSourcesMarksAll ==
    PollWith(TRUE, 1 .. Len(client), LAMBDA i : TRUE)
CheckSourcesNotLast ==
    PollWith(TRUE, 1 .. Len(client) - 1, LAMBDA i : i < Len(client) /\ Readable(client[i]))
CheckSourcesNoJoin ==
    PollWith(client # <<>>, 1 .. Len(client), LAMBDA i : Readable(client[i]))

\* server_check_sources when poll() returns ready sources.
CheckSources ==
    /\ pc = "poll"
    /\ \/ joinQ # <<>>
       \/ \E i \in 1 .. Len(client) : Readable(client[i]) \/ Invalid(client[i])
    /\ pc' = "join"
    /\ join_ready' = (join_ready \/ joinQ # <<>>)
    /\ client' = [i \in 1 .. Len(client) |->
                    [client[i] EXCEPT !.data_ready = @ \/ Readable(client[i])]]
    /\ UNCHANGED <<KEEP_GOING, idx, next, mesg, fds, clean, fifos, procs>>

\* main goes on to its loop over the clients without a join request.
SkipJoin ==
    /\ pc = "join"
    /\ ~join_ready
    /\ pc' = "scan"
    /\ UNCHANGED <<KEEP_GOING, join_ready, client, idx, next, mesg, fds, clean, fifos, procs>>

\* Slips: the two descriptors are stored the wrong way round; a failed open()
\* makes it return without closing the other descriptor.
AddClientSwapped(c) ==
    \E s \in OpenResults(fds, <<"toServer", NameOf[c]>>) :
    \E r \in OpenResults(AfterOpen(fds, <<"toServer", NameOf[c]>>, s), <<"toClient", NameOf[c]>>) :
        /\ fds' = AfterOpen(AfterOpen(fds, <<"toServer", NameOf[c]>>, s), <<"toClient", NameOf[c]>>, r)
        /\ client' = AddEntry(client, [name |-> NameOf[c], to_client_fd |-> s,
                                       to_server_fd |-> r, data_ready |-> FALSE])
AddClientOrReturn(c) ==
    \E s \in OpenResults(fds, <<"toServer", NameOf[c]>>) :
    \E r \in OpenResults(AfterOpen(fds, <<"toServer", NameOf[c]>>, s), <<"toClient", NameOf[c]>>) :
        /\ fds' = AfterOpen(AfterOpen(fds, <<"toServer", NameOf[c]>>, s), <<"toClient", NameOf[c]>>, r)
        /\ client' = IF NoFd \in {s, r} THEN client
                     ELSE AddEntry(client, [name |-> NameOf[c], to_client_fd |-> r,
                                            to_server_fd |-> s, data_ready |-> FALSE])

\* server_add_client when there is room: an open() that fails goes unnoticed.
AddClient(c) ==
    LET toServer == <<"toServer", NameOf[c]>>
        toClient == <<"toClient", NameOf[c]>>
    IN  \E s \in OpenResults(fds, toServer) :
        \E r \in OpenResults(AfterOpen(fds, toServer, s), toClient) :
            /\ fds' = AfterOpen(AfterOpen(fds, toServer, s), toClient, r)
            /\ client' = AddEntry(client,
                 [name |-> NameOf[c], to_client_fd |-> r, to_server_fd |-> s,
                  data_ready |-> FALSE])

\* server_handle_join up to its broadcast.  server_add_client's result is
\* ignored: JOINED is sent whether or not the client was added.
HandleJoin ==
    /\ pc = "join"
    /\ join_ready
    /\ joinQ # <<>>
    /\ joinQ' = Tail(joinQ)
    /\ \/ Len(client) # MAXCLIENTS /\ AddClient(Head(joinQ))
       \/ Len(client) = MAXCLIENTS /\ UNCHANGED <<client, fds>>
    /\ StartBroadcast([kind |-> "JOINED", from |-> Head(joinQ), n |-> 0])
    /\ UNCHANGED <<KEEP_GOING, join_ready, idx, clean, joinFile, link, buf, procs>>

\* main's loop skips a client that is not ready.
SkipClient ==
    /\ pc = "scan"
    /\ idx <= Len(client)
    /\ ~client[idx].data_ready
    /\ idx' = idx + 1
    /\ UNCHANGED <<pc, KEEP_GOING, join_ready, client, next, mesg, fds, clean, fifos, procs>>

\* server_handle_client: read one message, and broadcast it if it is a MESG or
\* DEPARTED.  The read of an empty FIFO blocks, as the server itself holds it
\* open for writing.  A closed descriptor fails the read; kind is then 0.
HandleClient ==
    /\ pc = "scan"
    /\ idx <= Len(client)
    /\ client[idx].data_ready
    /\ LET p    == PipeAt(client[idx].to_server_fd)
           Skip == /\ client' = ClearFlag(client, idx)
                   /\ idx' = idx + 1
                   /\ UNCHANGED <<pc, mesg, next>>
       IN  \/ p = None /\ Skip /\ UNCHANGED buf
           \/ /\ p # None
              /\ buf[p] # <<>>
              /\ buf' = [buf EXCEPT ![p] = Tail(@)]
              /\ IF Head(buf[p]).kind \in {"MESG", "DEPARTED"}
                 THEN StartBroadcast(Head(buf[p])) /\ UNCHANGED <<client, idx>>
                 ELSE Skip
    /\ UNCHANGED <<KEEP_GOING, join_ready, fds, clean, joinFile, joinQ, link, procs>>

\* Slip: a write that works is taken for a short one and repeated.
WriteOneAgain ==
    /\ pc = "bcast"
    /\ next <= Len(client)
    /\ LET p == PipeAt(client[next].to_client_fd)
       IN  \/ p = None /\ UNCHANGED buf /\ next' = next + 1
           \/ /\ p # None
              /\ Len(buf[p]) < PipeCap
              /\ buf' = [buf EXCEPT ![p] = Append(@, mesg)]
              /\ UNCHANGED next
    /\ UNCHANGED <<pc, KEEP_GOING, join_ready, client, idx, mesg, fds, clean,
                   joinFile, joinQ, link, procs>>

\* One write of server_broadcast.  It fails on a closed or missing descriptor,
\* and blocks on a full FIFO: the server's own descriptor keeps a reader alive.
WriteOne ==
    /\ pc = "bcast"
    /\ next <= Len(client)
    /\ LET p == PipeAt(client[next].to_client_fd)
       IN  \/ p = None /\ UNCHANGED buf
           \/ /\ p # None
              /\ Len(buf[p]) < PipeCap
              /\ buf' = [buf EXCEPT ![p] = Append(@, mesg)]
    /\ next' = next + 1
    /\ UNCHANGED <<pc, KEEP_GOING, join_ready, client, idx, mesg, fds, clean,
                   joinFile, joinQ, link, procs>>

\* The end of server_handle_join.
JoinDone ==
    /\ EndBroadcast
    /\ mesg.kind = "JOINED"
    /\ mesg' = NoMesg
    /\ join_ready' = FALSE
    /\ pc' = "scan"
    /\ UNCHANGED <<KEEP_GOING, client, idx, fds, clean, fifos, procs>>

\* The end of server_handle_client for a MESG, and i++ of main's loop.
MesgDone ==
    /\ EndBroadcast
    /\ mesg.kind = "MESG"
    /\ mesg' = NoMesg
    /\ pc' = "scan"
    /\ client' = ClearFlag(client, idx)
    /\ idx' = idx + 1
    /\ UNCHANGED <<KEEP_GOING, join_ready, fds, clean, fifos, procs>>

\* Slip: the slots are shifted before the descriptors are closed.
CloseClientTooLate ==
    LET e == client[IF idx < Len(client) THEN idx + 1 ELSE idx]
    IN  /\ pc' = "unlink"
        /\ fds' = CloseBoth(fds, e)
        /\ buf' = Kept(buf, CloseBoth(fds, e), hand)
        /\ link' = [link EXCEPT ![<<"toClient", client[idx].name>>] = None]
        /\ UNCHANGED <<KEEP_GOING, join_ready, client, idx, mesg, clean,
                       joinFile, joinQ, procs>>

\* The first half of server_remove_client: both descriptors are closed and the
\* toClient path is removed.  A process that rejoins may get between the two
\* unlink() calls.
CloseClient ==
    /\ pc' = "unlink"
    /\ fds' = CloseBoth(fds, client[idx])
    /\ buf' = Kept(buf, CloseBoth(fds, client[idx]), hand)
    /\ link' = [link EXCEPT ![<<"toClient", client[idx].name>>] = None]
    /\ UNCHANGED <<KEEP_GOING, join_ready, client, idx, mesg, clean,
                   joinFile, joinQ, procs>>

DepartClient ==
    /\ EndBroadcast
    /\ mesg.kind = "DEPARTED"
    /\ CloseClient

\* Slip: after a removal the loop index goes back once too often.
UnlinkAndStepBack ==
    /\ link' = [link EXCEPT ![<<"toServer", client[idx].name>>] = None]
    /\ clean' = (clean /\ ShiftIsShort(client, idx))
    /\ idx' = idx - 1
    /\ UNCHANGED <<KEEP_GOING, join_ready, next, fds, joinFile, joinQ, buf, procs>>

\* The second half: the toServer path goes and the array is shifted.
UnlinkAndShift ==
    /\ link' = [link EXCEPT ![<<"toServer", client[idx].name>>] = None]
    /\ clean' = (clean /\ ShiftIsShort(client, idx))
    /\ idx' = idx + 1
    /\ UNCHANGED <<KEEP_GOING, join_ready, next, fds, joinFile, joinQ, buf, procs>>

\* Then server_handle_client clears the flag of slot idx, by now another
\* client's, and main's i++ steps over that client.
RemoveDeparted ==
    /\ pc = "unlink"
    /\ mesg.kind = "DEPARTED"
    /\ mesg' = NoMesg
    /\ pc' = "scan"
    /\ client' = ClearFlag(RemoveEntry(client, idx), idx)
    /\ UnlinkAndShift

\* main's loop over the clients ends.
EndScan ==
    /\ pc = "scan"
    /\ idx > Len(client)
    /\ pc' = "loop"
    /\ idx' = 1
    /\ UNCHANGED <<KEEP_GOING, join_ready, client, next, mesg, fds, clean, fifos, procs>>

\* server_shutdown's loop for (i = 0; i < n_clients; i++): i grows while
\* n_clients shrinks.
ShutdownLoop ==
    /\ EndBroadcast
    /\ mesg.kind = "SHUTDOWN"
    /\ pc' = "shut"
    /\ UNCHANGED <<KEEP_GOING, join_ready, client, idx, mesg, fds, clean, fifos, procs>>

ShutdownClose ==
    /\ pc = "shut"
    /\ idx <= Len(client)
    /\ UNCHANGED next
    /\ CloseClient

ShutdownRemove ==
    /\ pc = "unlink"
    /\ mesg.kind = "SHUTDOWN"
    /\ UNCHANGED mesg
    /\ pc' = "shut"
    /\ client' = RemoveEntry(client, idx)
    /\ UnlinkAndShift

\* main returns; the kernel closes what server_shutdown left open.
ServerExit ==
    /\ pc = "shut"
    /\ idx > Len(client)
    /\ pc' = "done"
    /\ fds' = [f \in Fd |-> None]
    /\ buf' = Kept(buf, [f \in Fd |-> None], hand)
    /\ UNCHANGED <<KEEP_GOING, join_ready, client, idx, next, mesg, clean,
                   joinFile, joinQ, link, procs>>

ServerStep ==
    \/ ServerStart \/ NextRound \/ ShutdownStart \/ CheckSources
    \/ SkipJoin \/ HandleJoin \/ SkipClient \/ HandleClient
    \/ WriteOne \/ JoinDone \/ MesgDone \/ DepartClient \/ RemoveDeparted
    \/ EndScan \/ ShutdownLoop \/ ShutdownClose \/ ShutdownRemove \/ ServerExit

-----------------------------------------------------------------------------
(* The client processes: main and the two threads of bl_client.c *)

\* mkfifo keeps a FIFO that is already there.
Mkfifo(c, d) ==
    LET x == <<d, NameOf[c]>>
    IN  /\ link' = IF link[x] = None THEN [link EXCEPT ![x] = <<d, c>>] ELSE link
        /\ UNCHANGED <<server, joinFile, joinQ, buf, hand, sent>>

\* open(path, O_RDWR): fails when the path is gone again.
OpenOwn(c, d) ==
    /\ hand' = [hand EXCEPT ![<<d, c>>] = link[<<d, NameOf[c]>>]]
    /\ UNCHANGED <<server, fifos, sent>>

Advance(c, from, to) == st[c] = from /\ st' = [st EXCEPT ![c] = to]

MkfifoToClient(c) == Advance(c, "new", "mkC") /\ Mkfifo(c, "toClient")
OpenToClient(c)   == Advance(c, "mkC", "opC") /\ OpenOwn(c, "toClient")
MkfifoToServer(c) == Advance(c, "opC", "mkS") /\ Mkfifo(c, "toServer")
OpenToServer(c)   == Advance(c, "mkS", "opS") /\ OpenOwn(c, "toServer")

\* Slip: the join request is written before the toServer FIFO is opened.
JoinTooEarly(c) ==
    /\ Advance(c, "opC", "in")
    /\ joinQ' = IF joinFile = "live" THEN Append(joinQ, c) ELSE joinQ
    /\ UNCHANGED <<server, joinFile, link, buf, hand, sent>>

\* The join request is lost when no server reads the FIFO of that name.
Join(c) ==
    /\ Advance(c, "opS", "in")
    /\ joinQ' = IF joinFile = "live" THEN Append(joinQ, c) ELSE joinQ
    /\ UNCHANGED <<server, joinFile, link, buf, hand, sent>>

\* write(to_server_fd, m): fails without a descriptor, blocks on a full FIFO.
WriteToServer(c, m) ==
    LET p == hand[<<"toServer", c>>]
    IN  \/ p = None /\ UNCHANGED buf
        \/ /\ p # None
           /\ Len(buf[p]) < PipeCap
           /\ buf' = [buf EXCEPT ![p] = Append(@, m)]

\* user_worker sends a line.
Send(c) ==
    /\ st[c] = "in"
    /\ sent[c] < MaxSend
    /\ WriteToServer(c, [kind |-> "MESG", from |-> c, n |-> sent[c] + 1])
    /\ sent' = [sent EXCEPT ![c] = @ + 1]
    /\ UNCHANGED <<server, joinFile, joinQ, link, st, hand>>

\* End of input: user_worker first cancels the background thread ...
EndOfInput(c) ==
    /\ Advance(c, "in", "leaving")
    /\ UNCHANGED <<server, fifos, hand, sent>>

\* ... and then writes DEPARTED.
Depart(c) ==
    /\ Advance(c, "leaving", "left")
    /\ WriteToServer(c, [kind |-> "DEPARTED", from |-> c, n |-> 0])
    /\ UNCHANGED <<server, joinFile, joinQ, link, hand, sent>>

\* The process ends and drops its descriptors.
Release(c, b) ==
    LET h == [p \in Pipe |-> IF p[2] = c THEN None ELSE hand[p]]
    IN  /\ hand' = h
        /\ buf' = Kept(b, fds, h)
        /\ UNCHANGED <<server, joinFile, joinQ, link, sent>>

Exit(c) == Advance(c, "left", "exited") /\ Release(c, buf)

\* background_worker reads one message; SHUTDOWN ends the client.
Recv(c) ==
    LET p == hand[<<"toClient", c>>]
        b == [buf EXCEPT ![p] = Tail(@)]
    IN  /\ st[c] = "in"
        /\ p # None
        /\ buf[p] # <<>>
        /\ IF Head(buf[p]).kind = "SHUTDOWN"
           THEN Advance(c, "in", "gone") /\ Release(c, b)
           ELSE /\ buf' = b
                /\ UNCHANGED <<server, joinFile, joinQ, link, procs>>

\* background_worker's read fails when the FIFO could not be opened.
RecvFails(c) ==
    /\ hand[<<"toClient", c>>] = None
    /\ Advance(c, "in", "gone")
    /\ Release(c, buf)

\* The process is killed, or its terminal goes away.
Kill(c) ==
    /\ c \in Killable
    /\ st[c] \notin {"new", "exited", "gone"}
    /\ st' = [st EXCEPT ![c] = "gone"]
    /\ Release(c, buf)

\* The calls of main up to the threads, once the process runs.
Setup(c) ==
    \/ OpenToClient(c) \/ MkfifoToServer(c) \/ OpenToServer(c) \/ Join(c)

\* What a client's threads do without their user: at most one of these steps
\* is possible at a time.
Progress(c) ==
    Setup(c) \/ Depart(c) \/ Exit(c) \/ Recv(c) \/ RecvFails(c)

ClientStep(c) ==
    MkfifoToClient(c) \/ Send(c) \/ EndOfInput(c) \/ Progress(c) \/ Kill(c)

Next == ServerStep \/ Signal \/ \E c \in Clients : ClientStep(c)

Spec == Init /\ [][Next]_vars

\* The server and the running clients get the processor; users need not type,
\* nobody needs to start a client, to send a signal or to kill a process.
Fairness == WF_vars(ServerStep) /\ \A c \in Clients : WF_vars(Progress(c))

FairSpec == Spec /\ Fairness
=============================================================================
