------------------------- MODULE BlatherJoinProofs -------------------------
(***************************************************************************)
(* Admission, proved for every number of clients, slots and descriptors    *)
(* that is large enough: the calls that a client makes before its request  *)
(* and those of server_add_client meet in the same two FIFOs, and no       *)
(* open() of the server fails.                                             *)
(***************************************************************************)
EXTENDS BlatherTableProofs

\* No two processes share a user name.
Distinct == \A c, d \in Clients : NameOf[c] = NameOf[d] => c = d

\* A slot and two descriptors for every process that is ever started
\* (blather.h: MAXCLIENTS is 256; the usual limit is 1024 descriptors).
Enough ==
    /\ IsFiniteSet(Clients)
    /\ Cardinality(Clients) <= MAXCLIENTS
    /\ 2 * Cardinality(Clients) <= MaxFd - 3

-----------------------------------------------------------------------------
(* The FIFOs of a client before and after its request *)

\* c has made its toClient FIFO, its toServer FIFO, and is not admitted yet.
NeedsToClient(c) == st[c] \in {"mkC", "opC", "mkS", "opS"} \/ Waiting(c)
NeedsToServer(c) == st[c] \in {"mkS", "opS"} \/ Waiting(c)

\* What such a client has made is still under its name.
Linked ==
    \A c \in Clients : Unique(c) =>
        /\ NeedsToClient(c) => link[<<"toClient", NameOf[c]>>] = <<"toClient", c>>
        /\ NeedsToServer(c) => link[<<"toServer", NameOf[c]>>] = <<"toServer", c>>

\* c holds its own FIFOs from its open() calls to its end.
Held ==
    \A c \in Clients : Unique(c) =>
        /\ hand[<<"toClient", c>>] =
             IF st[c] \in {"opC", "mkS", "opS", "in", "leaving", "left"}
             THEN <<"toClient", c>> ELSE None
        /\ hand[<<"toServer", c>>] =
             IF st[c] \in {"opS", "in", "leaving", "left"}
             THEN <<"toServer", c>> ELSE None

\* A step of the system is a step of c or leaves c alone.
LEMMA ProcSteps ==
    ASSUME TypeOK, [Next]_vars, NEW c \in Clients
    PROVE  \/ ClientStep(c)
           \/ /\ st'[c] = st[c]
              /\ sent'[c] = sent[c]
              /\ \A d \in Dir : hand'[<<d, c>>] = hand[<<d, c>>]
<1>t. /\ DOMAIN st = Clients /\ DOMAIN sent = Clients /\ hand \in [Pipe -> Pipe \cup {None}]
      /\ st = [k \in Clients |-> st[k]] /\ sent = [k \in Clients |-> sent[k]]
  BY DEF TypeOK, ClientTypeOK
<1>1. CASE UNCHANGED vars \/ ServerStep \/ Signal
  BY <1>1, ServerLeavesProcs DEF vars, procs
<1>2. ASSUME NEW k \in Clients, k # c, ClientStep(k)
      PROVE  /\ st'[c] = st[c]
             /\ sent'[c] = sent[c]
             /\ \A d \in Dir : hand'[<<d, c>>] = hand[<<d, c>>]
  <2>1. st' = st \/ \E v : st' = [st EXCEPT ![k] = v]
    BY <1>2 DEF ClientStep, Progress, Setup, MkfifoToClient, OpenToClient, MkfifoToServer,
     OpenToServer, Mkfifo, OpenOwn, Join, Advance, Send, EndOfInput, Depart, Exit, Recv,
     RecvFails, Kill, Release, procs
  <2>2. sent' = sent \/ \E v : sent' = [sent EXCEPT ![k] = v]
    BY <1>2 DEF ClientStep, Progress, Setup, MkfifoToClient, OpenToClient, MkfifoToServer,
     OpenToServer, Mkfifo, OpenOwn, Join, Advance, Send, EndOfInput, Depart, Exit, Recv,
     RecvFails, Kill, Release, procs
  <2>3. \/ hand' = hand
        \/ \E d \in Dir : \E v : hand' = [hand EXCEPT ![<<d, k>>] = v]
        \/ hand' = [p \in Pipe |-> IF p[2] = k THEN None ELSE hand[p]]
    BY <1>2 DEF ClientStep, Progress, Setup, MkfifoToClient, OpenToClient, MkfifoToServer,
     OpenToServer, Mkfifo, OpenOwn, Join, Advance, Send, EndOfInput, Depart, Exit, Recv,
     RecvFails, Kill, Release, procs, Dir
  <2>4. \A d \in Dir : <<d, c>> \in Pipe
    BY DEF Pipe
  <2>5. st'[c] = st[c]
    BY <1>t, <1>2, <2>1
  <2>6. sent'[c] = sent[c]
    BY <1>t, <1>2, <2>2
  <2>7. \A d \in Dir : hand'[<<d, c>>] = hand[<<d, c>>]
    BY <1>t, <1>2, <2>3, <2>4
  <2> QED
    BY <2>5, <2>6, <2>7
<1> QED
  BY <1>1, <1>2 DEF Next

\* Who waits after a step waited before it or has just asked.
LEMMA WaitingSteps ==
    ASSUME TypeOK, [Next]_vars, NEW c \in Clients, Waiting(c)'
    PROVE  Waiting(c) \/ Join(c)
<1>t. joinQ \in Seq(Clients)
  BY DEF TypeOK, FifoTypeOK
<1>1. CASE joinQ' = joinQ \/ joinQ' = <<>>
  BY <1>1 DEF Waiting
<1>2. CASE joinQ # <<>> /\ joinQ' = Tail(joinQ)
  <2>1. \A i \in 1 .. Len(joinQ') : i + 1 \in 1 .. Len(joinQ) /\ joinQ'[i] = joinQ[i + 1]
    BY <1>t, <1>2
  <2> QED
    BY <2>1 DEF Waiting
<1>3. ASSUME NEW k \in Clients, Join(k), joinQ' = Append(joinQ, k)
      PROVE  Waiting(c) \/ Join(c)
  <2>1. \A i \in 1 .. Len(joinQ') :
          joinQ'[i] = k \/ (i \in 1 .. Len(joinQ) /\ joinQ'[i] = joinQ[i])
    BY <1>t, <1>3
  <2> QED
    BY <1>3, <2>1 DEF Waiting
<1> QED
  BY QueueSteps, <1>1, <1>2, <1>3

\* c comes to need a FIFO by making it.
LEMMA NeedSteps ==
    ASSUME TypeOK, [Next]_vars, NEW c \in Clients
    PROVE  /\ NeedsToClient(c)' => NeedsToClient(c) \/ MkfifoToClient(c)
           /\ NeedsToServer(c)' => NeedsToServer(c) \/ MkfifoToServer(c)
<1>t. st \in [Clients -> {"new", "mkC", "opC", "mkS", "opS", "in",
                          "leaving", "left", "exited", "gone"}]
  BY DEF TypeOK, ClientTypeOK
<1>1. CASE st'[c] = st[c]
  BY <1>1, <1>t, WaitingSteps DEF NeedsToClient, NeedsToServer, Join, Advance
<1>2. CASE ClientStep(c)
  <2>1. \/ st' = st \/ MkfifoToClient(c) \/ MkfifoToServer(c)
        \/ Advance(c, "mkC", "opC") \/ Advance(c, "mkS", "opS")
        \/ \E v \in {"in", "leaving", "left", "exited", "gone"} : st' = [st EXCEPT ![c] = v]
    BY <1>2 DEF ClientStep, Progress, Setup, OpenToClient, OpenToServer, OpenOwn, Join,
       Advance, Send, EndOfInput, Depart, Exit, Recv, RecvFails, Kill, Release, procs
  <2>2. Join(c) => st[c] = "opS"
    BY DEF Join, Advance
  <2>3. Waiting(c)' => Waiting(c) \/ st[c] = "opS"
    BY <2>2, WaitingSteps
  <2>4. CASE st' = st
    BY <2>3, <2>4 DEF NeedsToClient, NeedsToServer
  <2>5. CASE MkfifoToClient(c)
    BY <1>t, <2>3, <2>5 DEF NeedsToClient, NeedsToServer, MkfifoToClient, Advance
  <2>6. CASE MkfifoToServer(c)
    BY <1>t, <2>3, <2>6 DEF NeedsToClient, NeedsToServer, MkfifoToServer, Advance
  <2>7. CASE Advance(c, "mkC", "opC") \/ Advance(c, "mkS", "opS")
    BY <1>t, <2>3, <2>7 DEF NeedsToClient, NeedsToServer, Advance
  <2>8. CASE \E v \in {"in", "leaving", "left", "exited", "gone"} : st' = [st EXCEPT ![c] = v]
    BY <1>t, <2>3, <2>8 DEF NeedsToClient, NeedsToServer
  <2> QED
    BY <2>1, <2>4, <2>5, <2>6, <2>7, <2>8
<1> QED
  BY <1>1, <1>2, ProcSteps

\* Nobody removes what a client that is still to be admitted has made: removals
\* are of names in the table.
LEMMA LinkKept ==
    ASSUME TableInv, [Next]_vars, NEW c \in Clients, Unique(c), NotYet(c), NEW d \in Dir,
           link[<<d, NameOf[c]>>] = <<d, c>>
    PROVE  link'[<<d, NameOf[c]>>] = <<d, c>>
<1>t. /\ TypeOK /\ DescriptorInv /\ link \in [Path -> Pipe \cup {None}]
      /\ <<d, NameOf[c]>> \in Path /\ <<d, c>> # None
  BY ClientsAssumption, NoneAssumption DEF TableInv, DescriptorInv, TypeOK, FifoTypeOK, Path, Pipe
<1>1. \A i \in 1 .. Len(client) : client[i].name # NameOf[c]
  BY DEF TableInv, NotYetAbsent
<1>2. ASSUME DepartClient \/ ShutdownClose \/ RemoveDeparted \/ ShutdownRemove
      PROVE  client[idx].name # NameOf[c]
  <2>1. idx \in 1 .. Len(client)
    BY <1>2, <1>t DEF DepartClient, ShutdownClose, RemoveDeparted, ShutdownRemove, EndBroadcast,
       DescriptorInv, SlotInUse, TypeOK, ServerTypeOK
  <2> QED
    BY <1>1, <2>1
<1>3. ASSUME NEW x, x # <<d, NameOf[c]>>, NEW v, link' = [link EXCEPT ![x] = v]
      PROVE  link'[<<d, NameOf[c]>>] = <<d, c>>
  BY <1>t, <1>3
<1>4. CASE DepartClient \/ ShutdownClose \/ RemoveDeparted \/ ShutdownRemove
  <2>1. \A e : <<e, client[idx].name>> # <<d, NameOf[c]>>
    BY <1>2, <1>4
  <2> QED
    BY <1>3, <2>1, LinkSteps, <1>t
<1>5. ASSUME NEW k \in Clients, NEW e \in Dir, link[<<e, NameOf[k]>>] = None,
             link' = [link EXCEPT ![<<e, NameOf[k]>>] = <<e, k>>]
      PROVE  link'[<<d, NameOf[c]>>] = <<d, c>>
  <2>1. <<e, NameOf[k]>> # <<d, NameOf[c]>>
    BY <1>5, <1>t
  <2> QED
    BY <1>3, <1>5, <2>1
<1> QED
  BY <1>4, <1>5, LinkSteps

\* mkfifo makes the FIFO or finds the client's own.
LEMMA MkfifoOwn ==
    ASSUME TypeOK, LinkOwn, NEW c \in Clients, Unique(c), NEW d \in Dir, Mkfifo(c, d)
    PROVE  link'[<<d, NameOf[c]>>] = <<d, c>>
<1>1. link \in [Path -> Pipe \cup {None}] /\ <<d, NameOf[c]>> \in Path
  BY ClientsAssumption DEF TypeOK, FifoTypeOK, Path
<1>2. link[<<d, NameOf[c]>>] \in {None, <<d, c>>}
  BY DEF LinkOwn
<1> QED
  BY <1>1, <1>2 DEF Mkfifo

\* Linked is kept by every step.
LEMMA LinkedStep ==
    ASSUME TableInv, Linked, [Next]_vars
    PROVE  Linked'
<1>t. TypeOK /\ LinkOwn
  BY DEF TableInv, DescriptorInv
<1>1. SUFFICES ASSUME NEW c \in Clients, Unique(c)
               PROVE  /\ NeedsToClient(c)' => link'[<<"toClient", NameOf[c]>>] = <<"toClient", c>>
                      /\ NeedsToServer(c)' => link'[<<"toServer", NameOf[c]>>] = <<"toServer", c>>
  BY DEF Linked, Unique
<1>2. "toClient" \in Dir /\ "toServer" \in Dir
  BY DEF Dir
<1>3. NeedsToClient(c) \/ NeedsToServer(c) => NotYet(c)
  BY DEF NeedsToClient, NeedsToServer, NotYet, Early
<1>4. /\ MkfifoToClient(c) => Mkfifo(c, "toClient")
      /\ MkfifoToServer(c) => Mkfifo(c, "toServer")
  BY DEF MkfifoToClient, MkfifoToServer
<1>5. NeedsToClient(c)' => link'[<<"toClient", NameOf[c]>>] = <<"toClient", c>>
  <2>1. CASE NeedsToClient(c)
    BY <1>1, <1>2, <1>3, <2>1, LinkKept DEF Linked
  <2>2. CASE MkfifoToClient(c)
    BY <1>t, <1>1, <1>2, <1>4, <2>2, MkfifoOwn
  <2> QED
    BY <1>t, <2>1, <2>2, NeedSteps
<1>6. NeedsToServer(c)' => link'[<<"toServer", NameOf[c]>>] = <<"toServer", c>>
  <2>1. CASE NeedsToServer(c)
    BY <1>1, <1>2, <1>3, <2>1, LinkKept DEF Linked
  <2>2. CASE MkfifoToServer(c)
    BY <1>t, <1>1, <1>2, <1>4, <2>2, MkfifoOwn
  <2> QED
    BY <1>t, <2>1, <2>2, NeedSteps
<1> QED
  BY <1>5, <1>6

\* Held is kept: an open() of a client finds the FIFO it has just made.
LEMMA HeldStep ==
    ASSUME TableInv, Linked, Held, [Next]_vars
    PROVE  Held'
<1>t. /\ TypeOK
      /\ st \in [Clients -> {"new", "mkC", "opC", "mkS", "opS", "in",
                             "leaving", "left", "exited", "gone"}]
      /\ hand \in [Pipe -> Pipe \cup {None}]
  BY DEF TableInv, DescriptorInv, TypeOK, ClientTypeOK
<1> DEFINE ToClientOf(v, c) == IF v \in {"opC", "mkS", "opS", "in", "leaving", "left"}
                               THEN <<"toClient", c>> ELSE None
           ToServerOf(v, c) == IF v \in {"opS", "in", "leaving", "left"}
                               THEN <<"toServer", c>> ELSE None
<1>1. SUFFICES ASSUME NEW c \in Clients, Unique(c)
               PROVE  /\ hand'[<<"toClient", c>>] = ToClientOf(st'[c], c)
                      /\ hand'[<<"toServer", c>>] = ToServerOf(st'[c], c)
  BY DEF Held, Unique
<1>2. /\ hand[<<"toClient", c>>] = ToClientOf(st[c], c)
      /\ hand[<<"toServer", c>>] = ToServerOf(st[c], c)
  BY <1>1 DEF Held
<1>3. /\ "toClient" \in Dir /\ "toServer" \in Dir
      /\ <<"toClient", c>> \in Pipe /\ <<"toServer", c>> \in Pipe
      /\ <<"toClient", c>> # <<"toServer", c>>
  BY DEF Dir, Pipe
<1>4. CASE st'[c] = st[c] /\ \A d \in Dir : hand'[<<d, c>>] = hand[<<d, c>>]
  BY <1>2, <1>3, <1>4
<1>5. CASE MkfifoToClient(c) \/ MkfifoToServer(c) \/ Join(c) \/ Send(c) \/ EndOfInput(c)
           \/ Depart(c)
  <2>1. hand' = hand
    BY <1>5 DEF MkfifoToClient, MkfifoToServer, Mkfifo, Join, Send, EndOfInput, Depart
  <2>2. \/ st'[c] = st[c]
        \/ st[c] = "new" /\ st'[c] = "mkC"
        \/ st[c] = "opC" /\ st'[c] = "mkS"
        \/ st[c] = "opS" /\ st'[c] = "in"
        \/ st[c] = "in" /\ st'[c] = "leaving"
        \/ st[c] = "leaving" /\ st'[c] = "left"
    BY <1>5, <1>t DEF MkfifoToClient, MkfifoToServer, Join, Send, EndOfInput, Depart, Advance
  <2> QED
    BY <1>2, <2>1, <2>2
<1>6. CASE OpenToClient(c)
  <2>1. st[c] = "mkC" /\ st'[c] = "opC"
    BY <1>6, <1>t DEF OpenToClient, Advance
  <2>2. link[<<"toClient", NameOf[c]>>] = <<"toClient", c>>
    BY <1>1, <2>1 DEF Linked, NeedsToClient
  <2>3. hand' = [hand EXCEPT ![<<"toClient", c>>] = link[<<"toClient", NameOf[c]>>]]
    BY <1>6 DEF OpenToClient, OpenOwn
  <2> QED
    BY <1>t, <1>2, <1>3, <2>1, <2>2, <2>3
<1>7. CASE OpenToServer(c)
  <2>1. st[c] = "mkS" /\ st'[c] = "opS"
    BY <1>7, <1>t DEF OpenToServer, Advance
  <2>2. link[<<"toServer", NameOf[c]>>] = <<"toServer", c>>
    BY <1>1, <2>1 DEF Linked, NeedsToServer
  <2>3. hand' = [hand EXCEPT ![<<"toServer", c>>] = link[<<"toServer", NameOf[c]>>]]
    BY <1>7 DEF OpenToServer, OpenOwn
  <2> QED
    BY <1>t, <1>2, <1>3, <2>1, <2>2, <2>3
<1>8. ASSUME st'[c] \in {"exited", "gone"}, NEW b, Release(c, b)
      PROVE  /\ hand'[<<"toClient", c>>] = ToClientOf(st'[c], c)
             /\ hand'[<<"toServer", c>>] = ToServerOf(st'[c], c)
  <2>1. hand' = [p \in Pipe |-> IF p[2] = c THEN None ELSE hand[p]]
    BY <1>8 DEF Release
  <2> QED
    BY <1>3, <1>8, <2>1
<1>9. CASE Exit(c) \/ Recv(c) \/ RecvFails(c) \/ Kill(c)
  <2>1. \/ st'[c] \in {"exited", "gone"} /\ \E b : Release(c, b)
        \/ UNCHANGED procs
    BY <1>9, <1>t DEF Exit, Recv, RecvFails, Kill, Advance
  <2> QED
    BY <1>4, <1>8, <2>1 DEF procs
<1> QED
  BY <1>t, <1>4, <1>5, <1>6, <1>7, <1>9, ProcSteps DEF ClientStep, Progress, Setup

-----------------------------------------------------------------------------
(* There is room for everyone who is still to be admitted *)

Unadmitted == {c \in Clients : NotYet(c)}
InUse      == {f \in Fd : fds[f] # None}

\* Each admission takes one slot and at most two descriptors, whatever removals
\* leave behind.
Fits ==
    IsFiniteSet(Clients) =>
        /\ Len(client) + Cardinality(Unadmitted) <= Cardinality(Clients)
        /\ Cardinality(InUse) + 2 * Cardinality(Unadmitted) <= 2 * Cardinality(Clients)

\* The server's descriptors are finitely many.
LEMMA FdFinite == IsFiniteSet(Fd) /\ Cardinality(Fd) \in Nat /\ Cardinality(Fd) >= MaxFd - 3
<1>1. 4 \in Int /\ MaxFd \in Int
  BY LimitsAssumption
<1>2. IsFiniteSet(4 .. MaxFd)
      /\ Cardinality(4 .. MaxFd) = IF 4 > MaxFd THEN 0 ELSE MaxFd - 4 + 1
  BY <1>1, FS_Interval
<1> QED
  BY <1>1, <1>2 DEF Fd

\* So are those in use.
LEMMA InUseFinite == IsFiniteSet(InUse) /\ Cardinality(InUse) \in Nat
<1>1. InUse \in SUBSET Fd
  BY DEF InUse
<1>2. IsFiniteSet(InUse)
  BY <1>1, FdFinite, FS_Subset
<1> QED
  BY <1>2, FS_CardinalityType

\* One more element makes a set at most one larger, ...
LEMMA OneMore ==
    ASSUME NEW T, IsFiniteSet(T), NEW x
    PROVE  /\ IsFiniteSet(T \cup {x})
           /\ Cardinality(T) \in Nat /\ Cardinality(T \cup {x}) \in Nat
           /\ Cardinality(T \cup {x}) <= Cardinality(T) + 1
BY FS_AddElement, FS_CardinalityType

\* ... and two at most two.
LEMMA TwoMore ==
    ASSUME NEW S, NEW T, IsFiniteSet(T), NEW x, NEW y, S \subseteq (T \cup {x}) \cup {y}
    PROVE  /\ IsFiniteSet(S) /\ Cardinality(S) \in Nat
           /\ Cardinality(S) <= Cardinality(T) + 2
<1> DEFINE U == T \cup {x}
           V == U \cup {y}
<1>1. IsFiniteSet(U) /\ Cardinality(T) \in Nat /\ Cardinality(U) \in Nat
      /\ Cardinality(U) <= Cardinality(T) + 1
  BY OneMore
<1> S \subseteq V
  OBVIOUS
<1> HIDE DEF U
<1>2. IsFiniteSet(V) /\ Cardinality(V) \in Nat /\ Cardinality(V) <= Cardinality(U) + 1
  BY <1>1, OneMore
<1> HIDE DEF V
<1>3. IsFiniteSet(S) /\ Cardinality(S) <= Cardinality(V)
  BY <1>2, FS_Subset
<1>4. Cardinality(S) \in Nat
  BY <1>3, FS_CardinalityType
<1> QED
  BY <1>1, <1>2, <1>3, <1>4

\* Fits holds initially.
LEMMA FitsInit == Init => Fits
<1> SUFFICES ASSUME Init, IsFiniteSet(Clients)
             PROVE  /\ Len(client) + Cardinality(Unadmitted) <= Cardinality(Clients)
                    /\ Cardinality(InUse) + 2 * Cardinality(Unadmitted) <= 2 * Cardinality(Clients)
  BY DEF Fits
<1>1. Unadmitted = Clients /\ InUse = {} /\ Len(client) = 0
  BY DEF Init, Unadmitted, NotYet, Early, InUse
<1>2. Cardinality(Clients) \in Nat /\ Cardinality({}) = 0
  BY FS_CardinalityType, FS_EmptySet
<1> QED
  BY <1>1, <1>2

\* ... and is kept by every step.
LEMMA FitsStep ==
    ASSUME TableInv, Fits, [Next]_vars
    PROVE  Fits'
<1>t. /\ TypeOK /\ DescriptorInv /\ QueueOnce
      /\ client \in Seq(Entry) /\ Len(client) \in Nat
      /\ fds \in [Fd -> Pipe \cup {None}]
  BY DEF TableInv, DescriptorInv, TypeOK, ServerTypeOK
<1>0. DescriptorInv'
  BY <1>t, DescriptorStep
<1>1. SUFFICES ASSUME IsFiniteSet(Clients)
               PROVE  /\ Len(client') + Cardinality(Unadmitted') <= Cardinality(Clients)
                      /\ Cardinality(InUse') + 2 * Cardinality(Unadmitted')
                           <= 2 * Cardinality(Clients)
  BY DEF Fits
<1>2. Unadmitted' \subseteq Unadmitted /\ Unadmitted \in SUBSET Clients
  BY <1>t, NotYetLater DEF Unadmitted
<1>3. /\ IsFiniteSet(Unadmitted) /\ IsFiniteSet(Unadmitted')
      /\ Cardinality(Unadmitted') <= Cardinality(Unadmitted)
      /\ Cardinality(Unadmitted) \in Nat /\ Cardinality(Unadmitted') \in Nat
      /\ Cardinality(Clients) \in Nat
  <2>1. IsFiniteSet(Unadmitted)
    BY <1>1, <1>2, FS_Subset
  <2>2. IsFiniteSet(Unadmitted') /\ Cardinality(Unadmitted') <= Cardinality(Unadmitted)
    BY <1>2, <2>1, FS_Subset
  <2> QED
    BY <1>1, <2>1, <2>2, FS_CardinalityType
<1>4. /\ Len(client) + Cardinality(Unadmitted) <= Cardinality(Clients)
      /\ Cardinality(InUse) + 2 * Cardinality(Unadmitted) <= 2 * Cardinality(Clients)
  BY <1>1 DEF Fits
<1>5. IsFiniteSet(InUse) /\ Cardinality(InUse) \in Nat
  BY InUseFinite
<1>6. CASE Len(client') \in Nat /\ Len(client') <= Len(client) /\ InUse' \subseteq InUse
  <2>1. Cardinality(InUse') <= Cardinality(InUse) /\ IsFiniteSet(InUse')
    BY <1>5, <1>6, FS_Subset
  <2>2. Cardinality(InUse') \in Nat
    BY <2>1, FS_CardinalityType
  <2> QED
    BY <1>t, <1>3, <1>4, <1>5, <1>6, <2>1, <2>2
<1>7. ASSUME HandleJoin, NEW e \in Entry, Added(e, Head(joinQ))
      PROVE  /\ Len(client') + Cardinality(Unadmitted') <= Cardinality(Clients)
             /\ Cardinality(InUse') + 2 * Cardinality(Unadmitted') <= 2 * Cardinality(Clients)
  <2> DEFINE c == Head(joinQ)
  <2>1. c \in Clients /\ NotYet(c)
    BY <1>7, <1>t, JoinSlots, HeadAdmitted
  <2>2. c \in Unadmitted
    BY <2>1 DEF Unadmitted
  <2>3. PICK k : k = c
    OBVIOUS
  <2>4. k \notin Unadmitted'
    BY <1>7, <1>t, <2>3, HeadAdmitted DEF Unadmitted
  <2>5. Unadmitted' \subseteq Unadmitted \ {k} /\ k \in Unadmitted
    BY <1>2, <2>2, <2>3, <2>4
  <2>6. IsFiniteSet(Unadmitted \ {k}) /\ Cardinality(Unadmitted \ {k}) = Cardinality(Unadmitted) - 1
    BY <1>3, <2>5, FS_RemoveElement
  <2>7. Cardinality(Unadmitted') <= Cardinality(Unadmitted) - 1
    BY <2>5, <2>6, FS_Subset
  <2>8. Len(client') = Len(client) + 1
    BY <1>7, <1>t DEF Added
  <2>9. InUse' \subseteq (InUse \cup {e.to_client_fd}) \cup {e.to_server_fd}
    BY <1>7 DEF Added, InUse, OwnFds
  <2>10. Cardinality(InUse') \in Nat /\ Cardinality(InUse') <= Cardinality(InUse) + 2
    BY <1>5, <2>9, TwoMore
  <2> QED
    BY <1>t, <1>3, <1>4, <1>5, <2>7, <2>8, <2>10
<1>8. CASE HandleJoin /\ UNCHANGED <<client, fds>>
  BY <1>t, <1>6, <1>8 DEF InUse
<1>9. CASE DepartClient \/ ShutdownClose \/ ServerExit
  <2>1. client' = client
    BY <1>9 DEF DepartClient, ShutdownClose, ServerExit, CloseClient
  <2>2. \A f \in Fd : fds'[f] \in {fds[f], None}
    BY <1>9 DEF DepartClient, ShutdownClose, ServerExit, CloseClient, CloseBoth
  <2> QED
    BY <1>t, <1>6, <2>1, <2>2 DEF InUse
<1>10. CASE RemoveDeparted \/ ShutdownRemove
  <2>1. Len(client') = Len(client) - 1 /\ idx \in 1 .. Len(client) /\ fds' = fds
    BY <1>t, <1>10, ShiftSlots
  <2> QED
    BY <1>t, <1>6, <2>1 DEF InUse
<1>11. CASE ~HandleJoin /\ ~DepartClient /\ ~ShutdownClose /\ ~ServerExit
            /\ ~RemoveDeparted /\ ~ShutdownRemove
  <2>1. Len(client') = Len(client) /\ fds' = fds
    BY <1>11, <1>t, SlotsSame, FdsSame DEF SameSlots
  <2> QED
    BY <1>t, <1>6, <2>1 DEF InUse
<1>12. CASE HandleJoin
  BY <1>7, <1>8, <1>12, <1>t, JoinSlots
<1> QED
  BY <1>9, <1>10, <1>11, <1>12

-----------------------------------------------------------------------------
(* Whoever is announced has a slot that works *)

\* Both open() calls of every slot have succeeded.
SlotsFull ==
    \A i \in 1 .. Len(client) :
        client[i].to_client_fd # NoFd /\ client[i].to_server_fd # NoFd

\* A slot that serves c.
Serves(e, c) ==
    /\ e.name = NameOf[c]
    /\ PipeAt(e.to_client_fd) = <<"toClient", c>>
    /\ PipeAt(e.to_server_fd) = <<"toServer", c>>

\* While c is announced, a slot serves it.
Announced ==
    pc = "bcast" /\ mesg.kind = "JOINED" =>
        /\ mesg.from \in Clients
        /\ \E i \in 1 .. Len(client) : Serves(client[i], mesg.from)

JoinInv ==
    /\ TableInv
    /\ Linked
    /\ Held
    /\ Fits
    /\ Distinct /\ Enough => SlotsFull /\ Announced

\* With enough slots and descriptors, one more client finds a slot and two free
\* descriptors.
LEMMA RoomForOneMore ==
    ASSUME TypeOK, Fits, Enough, NEW c \in Clients, NotYet(c)
    PROVE  /\ Len(client) # MAXCLIENTS
           /\ \A s : \E d \in Fd : d # s /\ fds[d] = None
<1>1. Unadmitted \in SUBSET Clients /\ c \in Unadmitted
  BY DEF Unadmitted
<1>2. IsFiniteSet(Unadmitted) /\ Cardinality(Unadmitted) \in Nat /\ Cardinality(Clients) \in Nat
  BY <1>1, FS_Subset, FS_CardinalityType DEF Enough
<1>3. Cardinality(Unadmitted) # 0
  BY <1>1, <1>2, FS_EmptySet
<1>4. /\ Len(client) + Cardinality(Unadmitted) <= Cardinality(Clients)
      /\ Cardinality(InUse) + 2 * Cardinality(Unadmitted) <= 2 * Cardinality(Clients)
      /\ Cardinality(Clients) <= MAXCLIENTS
      /\ 2 * Cardinality(Clients) <= MaxFd - 3
  BY DEF Fits, Enough
<1>5. Len(client) \in Nat /\ MAXCLIENTS \in Nat /\ MaxFd \in Nat
  BY LimitsAssumption DEF TypeOK, ServerTypeOK
<1>6. Len(client) # MAXCLIENTS
  BY <1>2, <1>3, <1>4, <1>5
<1>7. ASSUME NEW s, \A d \in Fd : d # s => fds[d] # None
      PROVE  FALSE
  <2>1. Fd \subseteq InUse \cup {s}
    BY <1>7 DEF InUse
  <2>2. IsFiniteSet(InUse \cup {s}) /\ Cardinality(InUse) \in Nat
        /\ Cardinality(InUse \cup {s}) \in Nat
        /\ Cardinality(InUse \cup {s}) <= Cardinality(InUse) + 1
    BY InUseFinite, OneMore
  <2>3. Cardinality(Fd) <= Cardinality(InUse \cup {s})
    BY <2>1, <2>2, FS_Subset
  <2> QED
    BY <1>2, <1>3, <1>4, <1>5, <2>2, <2>3, FdFinite
<1> QED
  BY <1>6, <1>7

\* open() of a path that is there succeeds while a descriptor is free.
LEMMA OpenSucceeds ==
    ASSUME NEW f, NEW x, link[x] # None, NEW d \in Fd, f[d] = None, NEW r \in OpenResults(f, x)
    PROVE  r \in Fd /\ r # NoFd
BY LimitsAssumption DEF OpenResults, Fd, NoFd

\* server_add_client then gets both descriptors.
LEMMA AddOpensBoth ==
    ASSUME TypeOK, NEW c \in Clients, AddClient(c),
           link[<<"toServer", NameOf[c]>>] # None, link[<<"toClient", NameOf[c]>>] # None,
           \A s : \E d \in Fd : d # s /\ fds[d] = None,
           NEW e, client' = Append(client, e)
    PROVE  e.to_client_fd # NoFd /\ e.to_server_fd # NoFd
<1> DEFINE xs == <<"toServer", NameOf[c]>>
           xc == <<"toClient", NameOf[c]>>
<1>1. PICK s \in OpenResults(fds, xs) :
        \E r \in OpenResults(AfterOpen(fds, xs, s), xc) :
          client' = AddEntry(client,
               [name |-> NameOf[c], to_client_fd |-> r, to_server_fd |-> s,
                data_ready |-> FALSE])
  BY DEF AddClient
<1>2. PICK r \in OpenResults(AfterOpen(fds, xs, s), xc) :
        client' = AddEntry(client,
             [name |-> NameOf[c], to_client_fd |-> r, to_server_fd |-> s,
              data_ready |-> FALSE])
  BY <1>1
<1> DEFINE f1 == AfterOpen(fds, xs, s)
<1>3. s # NoFd
  BY OpenSucceeds
<1>4. PICK d \in Fd : d # s /\ fds[d] = None
  OBVIOUS
<1>5. f1[d] = None
  BY <1>4 DEF AfterOpen
<1>6. r # NoFd
  <2>1. r \in OpenResults(f1, xc) /\ link[xc] # None
    OBVIOUS
  <2> HIDE DEF f1, xc
  <2> QED
    BY <1>5, <2>1, OpenSucceeds
<1>7. client \in Seq(Entry)
  BY DEF TypeOK, ServerTypeOK
<1>8. e = [name |-> NameOf[c], to_client_fd |-> r, to_server_fd |-> s, data_ready |-> FALSE]
  <2> DEFINE w == [name |-> NameOf[c], to_client_fd |-> r, to_server_fd |-> s,
                   data_ready |-> FALSE]
  <2>1. client' = Append(client, w)
    BY <1>2 DEF AddEntry
  <2> HIDE DEF w
  <2>2. Append(client, w)[Len(client) + 1] = w /\ Append(client, e)[Len(client) + 1] = e
    BY <1>7
  <2>3. e = w
    BY <2>1, <2>2
  <2> QED
    BY <2>3 DEF w
<1> QED
  BY <1>3, <1>6, <1>8

\* With room for everyone, an admission gives the process a slot that serves it.
LEMMA AdmissionServes ==
    ASSUME JoinInv, Distinct, Enough, [Next]_vars, HandleJoin,
           NEW c \in Clients, c = Head(joinQ)
    PROVE  /\ \E e \in Entry : Added(e, c)
           /\ Len(client') = Len(client) + 1
           /\ \A i \in 1 .. Len(client) : client'[i] = client[i]
           /\ client'[Len(client) + 1].to_client_fd # NoFd
           /\ client'[Len(client) + 1].to_server_fd # NoFd
           /\ Serves(client[Len(client)], c)'
<1>t. /\ TableInv /\ DescriptorInv /\ TypeOK /\ QueueOnce /\ Fits /\ Linked
      /\ client \in Seq(Entry) /\ joinQ \in Seq(Clients)
  BY DEF JoinInv, TableInv, DescriptorInv, TypeOK, ServerTypeOK, FifoTypeOK
<1>1. NotYet(c)
  BY <1>t, HeadAdmitted
<1>2. Len(client) # MAXCLIENTS /\ \A s : \E d \in Fd : d # s /\ fds[d] = None
  BY <1>t, <1>1, RoomForOneMore
<1>3. AddClient(c)
  BY <1>2 DEF HandleJoin
<1>4. Unique(c)
  BY DEF Distinct, Unique
<1>5. Waiting(c)
  BY <1>t, JoinSlots DEF Waiting
<1>6. /\ link[<<"toClient", NameOf[c]>>] = <<"toClient", c>>
      /\ link[<<"toServer", NameOf[c]>>] = <<"toServer", c>>
  BY <1>t, <1>4, <1>5 DEF Linked, NeedsToClient, NeedsToServer
<1>7. <<"toClient", c>> # None /\ <<"toServer", c>> # None
  BY NoneAssumption DEF Pipe, Dir
<1>8. PICK e \in Entry : Added(e, c)
  BY <1>t, <1>2, JoinSlots
<1>9. client' = Append(client, e)
  BY <1>8 DEF Added
<1>10. e.to_client_fd # NoFd /\ e.to_server_fd # NoFd
  BY <1>t, <1>2, <1>3, <1>6, <1>7, <1>9, AddOpensBoth
<1>11. /\ Len(client') = Len(client) + 1 /\ client'[Len(client) + 1] = e
       /\ \A i \in 1 .. Len(client) : client'[i] = client[i]
  BY <1>t, <1>9
<1>12. /\ e.name = NameOf[c]
       /\ e.to_client_fd \in Fd /\ fds'[e.to_client_fd] = <<"toClient", c>>
       /\ e.to_server_fd \in Fd /\ fds'[e.to_server_fd] = <<"toServer", c>>
  BY <1>6, <1>8, <1>10 DEF Added
<1>13. Serves(client[Len(client)], c)'
  BY <1>11, <1>12 DEF Serves, PipeAt
<1> QED
  BY <1>8, <1>10, <1>11, <1>13

\* SlotsFull and Announced are kept by every step.
LEMMA AnnouncedStep ==
    ASSUME JoinInv, Distinct, Enough, [Next]_vars
    PROVE  SlotsFull' /\ Announced'
<1>t. /\ TableInv /\ DescriptorInv /\ TypeOK /\ SlotsFull /\ Announced
      /\ client \in Seq(Entry) /\ Len(client) \in Nat
  BY DEF JoinInv, TableInv, DescriptorInv, TypeOK, ServerTypeOK
<1>1. CASE HandleJoin
  <2> DEFINE c == Head(joinQ)
  <2>1. c \in Clients
    BY <1>1, <1>t, JoinSlots
  <2>2. /\ \E e \in Entry : Added(e, c)
        /\ Len(client') = Len(client) + 1
        /\ \A i \in 1 .. Len(client) : client'[i] = client[i]
        /\ client'[Len(client) + 1].to_client_fd # NoFd
        /\ client'[Len(client) + 1].to_server_fd # NoFd
    BY <1>1, <2>1, AdmissionServes
  <2>3. ASSUME NEW k \in Clients, k = c PROVE Serves(client[Len(client)], k)'
    BY <1>1, <2>3, AdmissionServes
  <2>4. /\ client'[Len(client) + 1].name = NameOf[c]
        /\ PipeAt(client[Len(client)].to_client_fd)' = <<"toClient", c>>
        /\ PipeAt(client[Len(client)].to_server_fd)' = <<"toServer", c>>
    BY <2>1, <2>2, <2>3 DEF Serves
  <2>5. SlotsFull'
    <3>1. ASSUME NEW i \in 1 .. Len(client')
          PROVE  client'[i].to_client_fd # NoFd /\ client'[i].to_server_fd # NoFd
      <4>1. i \in 1 .. Len(client) \/ i = Len(client) + 1
        BY <1>t, <2>2
      <4> QED
        BY <1>t, <2>1, <2>2, <2>4, <4>1 DEF SlotsFull
    <3> QED
      BY <3>1 DEF SlotsFull
  <2>6. mesg' = [kind |-> "JOINED", from |-> c, n |-> 0]
    BY <1>1 DEF HandleJoin, StartBroadcast
  <2>7. Len(client') \in 1 .. Len(client')
    BY <1>t, <2>2
  <2>8. Serves(client[Len(client)], mesg.from)'
    BY <2>2, <2>4, <2>6 DEF Serves
  <2>9. Announced'
    BY <2>1, <2>6, <2>7, <2>8 DEF Announced
  <2> QED
    BY <2>5, <2>9
<1>2. CASE ~HandleJoin
  <2>1. SlotsFull'
    <3>1. CASE RemoveDeparted \/ ShutdownRemove
      <4>1. \A k \in 1 .. Len(client') :
              \E j \in 1 .. Len(client) : SameSlot(client'[k], client[j])
        BY <1>t, <3>1, ShiftSlots
      <4> QED
        BY <1>t, <4>1 DEF SlotsFull, SameSlot
    <3>2. CASE ~RemoveDeparted /\ ~ShutdownRemove
      <4>1. SameSlots
        BY <1>t, <1>2, <3>2, SlotsSame
      <4> QED
        BY <1>t, <4>1 DEF SlotsFull, SameSlots, SameSlot
    <3> QED
      BY <3>1, <3>2
  <2>2. Announced'
    <3>1. SUFFICES ASSUME pc' = "bcast", mesg'.kind = "JOINED"
                   PROVE  /\ mesg'.from \in Clients
                          /\ \E i \in 1 .. Len(client') : Serves(client[i], mesg.from)'
      BY DEF Announced
    <3>2. pc = "bcast" /\ client' = client /\ mesg' = mesg /\ fds' = fds
      BY <1>2, <3>1, BroadcastSteps DEF NoMesg
    <3>3. PICK i \in 1 .. Len(client) : Serves(client[i], mesg.from)
      BY <1>t, <3>1, <3>2 DEF Announced
    <3>4. mesg.from \in Clients
      BY <1>t, <3>1, <3>2 DEF Announced
    <3> QED
      BY <3>2, <3>3, <3>4 DEF Serves, PipeAt
  <2> QED
    BY <2>1, <2>2
<1> QED
  BY <1>1, <1>2

\* Initially nobody has made a FIFO or been admitted.
LEMMA JoinInit == Init => JoinInv
<1> SUFFICES ASSUME Init PROVE JoinInv
  OBVIOUS
<1>1. TableInv /\ Fits
  BY TableInit, FitsInit
<1>2. Linked
  BY DEF Init, Linked, NeedsToClient, NeedsToServer, Waiting
<1>3. Held
  BY DEF Init, Held, Pipe, Dir
<1>4. SlotsFull /\ Announced
  BY DEF Init, SlotsFull, Announced
<1> QED
  BY <1>1, <1>2, <1>3, <1>4 DEF JoinInv

\* JoinInv is inductive.
LEMMA JoinStep == JoinInv /\ [Next]_vars => JoinInv'
<1> SUFFICES ASSUME JoinInv, [Next]_vars PROVE JoinInv'
  OBVIOUS
<1>1. TableInv /\ Linked /\ Held /\ Fits
  BY DEF JoinInv
<1>2. TableInv' /\ Linked' /\ Held' /\ Fits'
  BY <1>1, TableStep, LinkedStep, HeldStep, FitsStep
<1>3. Distinct /\ Enough => SlotsFull' /\ Announced'
  BY AnnouncedStep
<1>4. (Distinct /\ Enough)' => Distinct /\ Enough
  BY DEF Distinct, Enough
<1> QED
  BY <1>2, <1>3, <1>4 DEF JoinInv

\* Every client is admitted to the FIFOs it has itself made, opened and still
\* holds, whatever the other processes and the removals do meanwhile.
THEOREM JoinCorrect == Spec => []JoinInv
BY JoinInit, JoinStep, PTL DEF Spec

\* When there are slots and descriptors for all who ever join under names of
\* their own, a running client that is announced is wired to its own FIFOs, both
\* ways.
THEOREM JoinerIsWiredCorrect ==
    ASSUME Distinct, Enough
    PROVE  Spec => []JoinerIsWired
<1>1. JoinInv => JoinerIsWired
  <2> SUFFICES ASSUME JoinInv, pc = "bcast", mesg.kind = "JOINED", st[mesg.from] = "in"
               PROVE  \E i \in 1 .. Len(client) :
                        /\ client[i].name = NameOf[mesg.from]
                        /\ PipeAt(client[i].to_client_fd) = hand[<<"toClient", mesg.from>>]
                        /\ PipeAt(client[i].to_server_fd) = hand[<<"toServer", mesg.from>>]
                        /\ \A d \in Dir : hand[<<d, mesg.from>>] # None
    BY DEF JoinerIsWired
  <2>1. PICK i \in 1 .. Len(client) : Serves(client[i], mesg.from)
    BY DEF JoinInv, Announced
  <2>2. mesg.from \in Clients
    BY DEF JoinInv, Announced
  <2>3. Unique(mesg.from)
    BY <2>2 DEF Distinct, Unique
  <2>4. /\ hand[<<"toClient", mesg.from>>] = <<"toClient", mesg.from>>
        /\ hand[<<"toServer", mesg.from>>] = <<"toServer", mesg.from>>
    BY <2>2, <2>3 DEF JoinInv, Held
  <2>5. \A d \in Dir : <<d, mesg.from>> # None
    BY <2>2, NoneAssumption DEF Pipe
  <2> QED
    BY <2>1, <2>4, <2>5 DEF Serves, Dir
<1> QED
  BY JoinCorrect, <1>1, PTL
=============================================================================
