------------------------- MODULE BlatherProperties -------------------------
(***************************************************************************)
(* What the blather server should do: the properties of BlatherServer.     *)
(***************************************************************************)
EXTENDS BlatherServer

-----------------------------------------------------------------------------
(* Types *)

ServerTypeOK ==
    /\ pc \in {"start", "loop", "poll", "join", "scan", "bcast", "unlink", "shut", "done"}
    /\ KEEP_GOING \in BOOLEAN
    /\ join_ready \in BOOLEAN
    /\ client \in Seq(Entry)
    /\ idx \in Nat \ {0}
    /\ next \in Nat \ {0}
    /\ mesg \in Mesg
    /\ fds \in [Fd -> Pipe \cup {None}]
    /\ clean \in BOOLEAN

FifoTypeOK ==
    /\ joinFile \in {"absent", "stale", "live"}
    /\ joinQ \in Seq(Clients)
    /\ link \in [Path -> Pipe \cup {None}]
    /\ buf \in [Pipe -> Seq(Mesg)]

ClientTypeOK ==
    /\ st \in [Clients -> {"new", "mkC", "opC", "mkS", "opS", "in",
                           "leaving", "left", "exited", "gone"}]
    /\ hand \in [Pipe -> Pipe \cup {None}]
    /\ sent \in [Clients -> Nat]

\* Every variable keeps to the values the C types and the calls allow.
TypeOK == ServerTypeOK /\ FifoTypeOK /\ ClientTypeOK

-----------------------------------------------------------------------------
(* The table of clients and the descriptors *)

\* Several properties hold until server_remove_client first shifts two or more
\* slots, in runs where no two processes share a user name.  Live are the slots
\* in use: a removal closes its slot's descriptors before the slot goes.
Exact == clean /\ \A c, d \in Clients : NameOf[c] = NameOf[d] => c = d
Live  == IF pc = "done" THEN {}
         ELSE (1 .. Len(client)) \ (IF pc = "unlink" THEN {idx} ELSE {})

Unique(c) == \A d \in Clients : NameOf[d] = NameOf[c] => d = c

Wired(e, c) ==
    /\ e.to_client_fd # NoFd => PipeAt(e.to_client_fd) = <<"toClient", c>>
    /\ e.to_server_fd # NoFd => PipeAt(e.to_server_fd) = <<"toServer", c>>

\* A client whose name nobody else uses has one slot, and the two descriptors in
\* it are open and lead to this client's own FIFOs, unless its open() failed:
\* what server_broadcast and server_handle_client take for granted through
\* every add and remove, whatever users of shared names do to each other.
TableExact ==
    clean =>
        \A c \in Clients : Unique(c) =>
            /\ \A i, j \in 1 .. Len(client) :
                    client[i].name = NameOf[c] /\ client[j].name = NameOf[c] => i = j
            /\ \A i \in Live : client[i].name = NameOf[c] => Wired(client[i], c)

OwnFds(e) == {e.to_client_fd, e.to_server_fd} \ {NoFd}

\* The server leaks no descriptor: each one it has open is in a slot, also when
\* an open() fails or a name is used twice (server_remove_client closes both
\* before the slot goes).
NoLeak ==
    clean =>
        \A f \in Fd : fds[f] # None =>
            \E i \in Live : f \in OwnFds(client[i])

\* What NoLeak rests on (DescriptorInv is inductive): a removal only ever works
\* on a slot in use; the descriptors in the slots are open; and no two slots
\* have one in common, so that closing one client's leaves the others' alone.
SlotInUse ==
    (pc = "unlink" \/ (pc = "bcast" /\ mesg.kind = "DEPARTED")) => idx <= Len(client)

FdsOpen ==
    clean =>
        \A i \in Live : \A f \in OwnFds(client[i]) : f \in Fd /\ fds[f] # None

FdsApart ==
    clean =>
        \A i, j \in Live : i # j => OwnFds(client[i]) \cap OwnFds(client[j]) = {}

DescriptorInv == TypeOK /\ SlotInUse /\ FdsOpen /\ FdsApart /\ NoLeak

\* data_ready says that there is a message to be read (server_funcs.c:199).
DataReadyIsTrue ==
    pc = "scan" =>
        \A i \in idx .. Len(client) : client[i].data_ready => Readable(client[i])

\* The server reads only where poll() promised a message that is still there:
\* no read of server_handle_client can block, whatever was handled since.
ReadNeverBlocks == Exact => DataReadyIsTrue

\* A client that is running when it is announced is wired, both ways, to the
\* FIFOs it has itself open (its mkfifo and open calls all precede its request).
JoinerIsWired ==
    pc = "bcast" /\ mesg.kind = "JOINED" /\ st[mesg.from] = "in" =>
        \E i \in 1 .. Len(client) :
            /\ client[i].name = NameOf[mesg.from]
            /\ PipeAt(client[i].to_client_fd) = hand[<<"toClient", mesg.from>>]
            /\ PipeAt(client[i].to_server_fd) = hand[<<"toServer", mesg.from>>]
            /\ \A d \in Dir : hand[<<d, mesg.from>>] # None

\* server_remove_client drops one slot and keeps the others, in their order
\* (comment at server_funcs.c:88).
NamesIn(t) == [i \in 1 .. Len(t) |-> t[i].name]
ShiftPreservesOrder ==
    [][Len(client') < Len(client) => NamesIn(client') = Without(NamesIn(client), idx)]_vars

\* The same where at most one slot follows: then the loop does shift right.
ShortShiftPreservesOrder ==
    [][Len(client') < Len(client) /\ clean' =>
        NamesIn(client') = Without(NamesIn(client), idx)]_vars

\* The running server drops no client that is still in the chat: the slot that
\* goes is that of a client that has written its DEPARTED.
NoEviction ==
    [][Exact' /\ mesg.kind # "SHUTDOWN" =>
        \A c \in Clients : InTable(c) /\ ~InTable(c)' => st[c] \notin {"in", "leaving"}]_vars

\* A newcomer is turned away by a full table only, and the table never holds
\* more than its slots (server_funcs.c:55); it is announced either way.
TurnedAwayOnlyWhenFull ==
    /\ Len(client) <= MAXCLIENTS
    /\ pc = "bcast" /\ mesg.kind = "JOINED" /\ next = 1 =>
        InTable(mesg.from) \/ Len(client) = MAXCLIENTS

-----------------------------------------------------------------------------
(* The chat room that the users see *)

\* server_shutdown has been entered.
Closing ==
    \/ pc \in {"shut", "done"}
    \/ pc \in {"bcast", "unlink"} /\ mesg.kind = "SHUTDOWN"

\* c's slot is still to be written in the broadcast under way.
Pending(c) ==
    pc = "bcast" /\ \E i \in next .. Len(client) : client[i].name = NameOf[c]

Room == INSTANCE ChatRoom WITH
    room    <- IF pc = "start" THEN "new" ELSE IF Closing THEN "over" ELSE "open",
    lobby   <- joinQ,
    members <- IF Closing THEN {}
               ELSE {c \in Clients : \E i \in Live : client[i].name = NameOf[c]},
    parting <- IF pc = "bcast" /\ mesg.kind = "DEPARTED" THEN {mesg.from} ELSE {},
    said    <- [c \in Clients |-> buf[<<"toServer", c>>]],
    due     <- [c \in Clients |-> IF Pending(c) THEN Append(buf[<<"toClient", c>>], mesg)
                                                ELSE buf[<<"toClient", c>>]],
    alive   <- [c \in Clients |-> st[c] \notin {"exited", "gone"}]

\* The server implements the chat room: every message taken from a member is
\* due to all members at once and in one order, none is lost, doubled or read
\* from the wrong FIFO, whatever the interleaving of the writes of
\* server_broadcast with reads, joins and departures.
ImplementsRoom == Room!Init /\ [][Exact' => [Room!Next]_(Room!vars)]_vars

-----------------------------------------------------------------------------
(* Liveness, under FairSpec *)

\* The server is in the write to a full FIFO whose client reads no more: it has
\* been killed, has ended, or has cancelled its reader to leave.
StuckOnReader ==
    /\ pc = "bcast" /\ next <= Len(client)
    /\ LET p == PipeAt(client[next].to_client_fd)
       IN  p # None /\ Len(buf[p]) = PipeCap /\ st[p[2]] # "in"

\* The loop of main comes round again and again (bl_server.c:10), unless one write
\* blocks for good, and that only on a client that reads no more: no read blocks
\* for ever, and no write to a client that is in the chat.
NeverWedged == []<>(pc \in {"loop", "poll", "done"}) \/ <>[]StuckOnReader

\* A join request that has reached the FIFO is granted unless the server stops or
\* is stuck.
JoinServed ==
    \A c \in Clients :
        (\E i \in 1 .. Len(joinQ) : joinQ[i] = c)
          ~> (InTable(c) \/ ~KEEP_GOING \/ StuckOnReader)

\* What a member has written is taken up, unless the server stops or is stuck.
TakenUp ==
    \A c \in Clients :
        (InTable(c) /\ buf[<<"toServer", c>>] # <<>>)
          ~> (buf[<<"toServer", c>>] = <<>> \/ ~KEEP_GOING \/ StuckOnReader)

\* A broadcast reaches the end of the table, and each member that stays in the
\* chat reads all that it was sent, unless the server is stuck.
Delivered ==
    \A c \in Clients :
        (st[c] = "in" /\ Pending(c))
          ~> \/ st[c] # "in" \/ StuckOnReader
             \/ ~Pending(c) /\ buf[<<"toClient", c>>] = <<>>

\* A signal stops the server wherever it comes: also one between the test of
\* KEEP_GOING and poll() takes effect as soon as anything is written to the
\* server; only if nothing ever is does the server stay in poll() for good.
SignalStops == []KEEP_GOING \/ <>(pc = "done") \/ <>[](pc = "poll") \/ <>[]StuckOnReader

\* SHUTDOWN ends every client that is in the table when the server stops, unless
\* the server is stuck.
MembersAreTold ==
    \A c \in Clients :
        (Closing /\ InTable(c) /\ st[c] = "in") ~> (st[c] # "in" \/ StuckOnReader)

-----------------------------------------------------------------------------
(* Promises of tests and comments that the code does not keep *)

\* test_blather.org:41: a departure is noted: a client in the table that has
\* left has a DEPARTED under way.
DepartureIsNoted ==
    \A c \in Clients :
        InTable(c) /\ st[c] = "exited" /\ pc # "done" =>
            \/ buf[<<"toServer", c>>] # <<>>
            \/ pc \in {"bcast", "unlink"} /\ mesg.kind \in {"DEPARTED", "SHUTDOWN"}
            \/ Closing

\* server_funcs.c:44: server_shutdown removes all clients.
AllRemoved == pc = "done" => client = <<>>
=============================================================================
