------------------------- MODULE BlatherClientProofs -------------------------
(***************************************************************************)
(* Proofs about BlatherClient for every alphabet, size of the line buffer, *)
(* length of messages and capacity of the FIFO.                            *)
(***************************************************************************)
EXTENDS ClientProperties, TLAPS, WellFoundedInduction

-----------------------------------------------------------------------------
(* Strings *)

\* A set of numbers that is not empty has a least element.
LEMMA LeastOf ==
    ASSUME NEW T, T \subseteq Nat, T # {}
    PROVE  \E n \in T : \A m \in T : n <= m
<1>1. PICK n \in T : \A m \in T : ~ (<<m, n>> \in OpToRel(<, Nat))
  BY NatLessThanWellFounded, WFMin, Zenon
<1>2. \A m \in T : ~ (m < n)
  BY <1>1 DEF OpToRel
<1> QED
  BY <1>2

\* A buffer that ends in '\0' holds a string, and its text is made of letters.
LEMMA StringInBuf ==
    ASSUME EditorTypeOK, buf[MAXLINE - 1] = Nul
    PROVE  /\ StrLen \in Index
           /\ buf[StrLen] = Nul
           /\ \A i \in 0 .. StrLen - 1 : buf[i] # Nul
           /\ TypedText \in Seq(Letters)
<1> DEFINE T == {n \in Index : buf[n] = Nul}
<1>1. MAXLINE - 1 \in T
  BY SizeAssumption DEF Index
<1>2. T \subseteq Nat
  BY DEF Index
<1>3. PICK n \in T : \A m \in T : n <= m
  BY <1>1, <1>2, LeastOf
<1>4. n \in Index /\ buf[n] = Nul /\ \A i \in 0 .. n - 1 : buf[i] # Nul
  BY <1>3, SizeAssumption DEF Index
<1>5. /\ StrLen \in Index
      /\ buf[StrLen] = Nul
      /\ \A i \in 0 .. StrLen - 1 : buf[i] # Nul
  BY <1>4 DEF StrLen
<1>6. \A i \in 1 .. StrLen : buf[i - 1] \in Letters
  BY <1>5, SizeAssumption DEF EditorTypeOK, Index
<1>7. TypedText \in Seq(Letters)
  BY <1>5, <1>6 DEF TypedText, Index
<1> QED
  BY <1>5, <1>7

-----------------------------------------------------------------------------
(* Types, and reads that stay inside buf *)

\* Where iprintf may stop: what ReadsStayInBuf says besides what follows.
EndsInBuf ==
    /\ buf[MAXLINE - 1] = Nul
    /\ \A t \in Printers : Len(out[t]) <= MAXLINE - 1

\* The inductive invariant of this section.
ClientInv == ClientTypeOK /\ EndsInBuf

\* Whatever is still to be copied ends before the buffer does.
LEMMA InvReads == ClientInv => ReadsStayInBuf
<1> SUFFICES ASSUME ClientInv, NEW t \in Printers, pc[t] = "copy"
             PROVE  \E i \in Len(out[t]) .. MAXLINE - 1 : buf[i] = Nul
  BY DEF ClientInv, EndsInBuf, ReadsStayInBuf
<1>1. Len(out[t]) \in Nat /\ Len(out[t]) <= MAXLINE - 1 /\ buf[MAXLINE - 1] = Nul
  BY DEF ClientInv, EndsInBuf, ClientTypeOK, ThreadTypeOK
<1> QED
  BY <1>1, SizeAssumption

\* It holds initially.
LEMMA InvInit == Init => ClientInv
<1> SUFFICES ASSUME Init PROVE ClientInv
  OBVIOUS
<1> USE SizeAssumption, CapAssumption
<1>1. EditorTypeOK
  BY DEF Init, InitSimpio, EditorTypeOK, Index, KeySet
<1>2. ThreadTypeOK
  <2>1. /\ pc \in [Threads -> MainAt \cup UserAt \cup BgAt]
        /\ pc["main"] \in MainAt /\ pc["user"] \in UserAt /\ pc["bg"] \in BgAt
    BY DEF Init, Threads, Printers, MainAt, UserAt, BgAt
  <2>2. <<>> \in Seq(Letters)
    OBVIOUS
  <2>3. out \in [Printers -> Seq(Letters)] /\ screen \in Seq(KeySet)
    BY <2>2 DEF Init, InitSimpio
  <2> QED
    BY <2>1, <2>3 DEF Init, ThreadTypeOK
<1>3. ServerTypeOK
  BY DEF Init, ServerTypeOK
<1>4. FlagTypeOK
  BY Zenon DEF Init, InitSimpio, FlagTypeOK
<1>5. EndsInBuf
  BY DEF Init, InitSimpio, EndsInBuf, Index
<1> QED
  BY <1>1, <1>2, <1>3, <1>4, <1>5 DEF ClientInv, ClientTypeOK

\* Every step leaves the flags Boolean.
LEMMA FlagStep == FlagTypeOK /\ [Next]_vars => FlagTypeOK'
<1> SUFFICES ASSUME FlagTypeOK, [Next]_vars PROVE FlagTypeOK'
  OBVIOUS
<1> USE DEF FlagTypeOK, simpio, server, keys, hearing
<1>b. /\ BgPrints \in BOOLEAN
      /\ \A k : Ends(k) \in BOOLEAN
      /\ (pc["user"] \in {"nul", "echo", "erase"}) \in BOOLEAN
  BY DEF BgPrints, Ends
<1>r. \A x \in BOOLEAN : (raced \/ x) \in BOOLEAN
  OBVIOUS
<1>1. CASE Main
  BY <1>1, Zenon DEF Main, Setup, simpio_reset, CreateUser, CreateBackground,
     JoinUser, JoinBackground
<1>2. CASE User
  <2>1. CASE Reset
    BY <2>1, <1>b, Zenon DEF Reset, simpio_reset
  <2>2. CASE MarkEnd
    BY <2>2, <1>b, <1>r, Zenon DEF MarkEnd, Terminate, Edit
  <2>3. CASE Echo
    BY <2>3, <1>b, <1>r, Zenon DEF Echo, Edit
  <2>4. CASE Copy("user") \/ UserPrint \/ Send \/ CancelBackground \/ Depart \/ ObeyCancel("user")
    BY <2>4, Zenon DEF Copy, UserPrint, Send, CancelBackground, Depart, ObeyCancel, Written, Lost
  <2> QED
    BY <1>2, <2>1, <2>2, <2>3, <2>4 DEF User
<1>3. CASE Background
  BY <1>3, Zenon DEF Background, Copy, BgPrint, ReadFails, CancelUser, ObeyCancel
<1>4. CASE GetChar
  <2>1. PICK k \in KeySet :
          /\ end_of_input' = Ends(k)
          /\ \/ line_ready' = TRUE \/ UNCHANGED line_ready
          /\ \/ Edit \/ UNCHANGED raced
    BY <1>4, Zenon DEF GetChar, Complete, Erase, Store
  <2> QED
    BY <1>4, <2>1, <1>b, <1>r, Zenon DEF GetChar, Edit
<1>5. CASE Read \/ Drain
  BY <1>5, <1>b, <1>r, Zenon DEF Read, Drain
<1>6. CASE UNCHANGED vars
  BY <1>6, Zenon DEF vars
<1> QED
  BY <1>1, <1>2, <1>3, <1>4, <1>5, <1>6 DEF Next

\* The steps that store nothing in buf and copy nothing of it preserve the rest.
LEMMA InvElsewhere ==
    ASSUME ClientInv, [Next]_vars, UNCHANGED <<simpio, keys>>,
           ThreadTypeOK', ServerTypeOK',
           \A t \in Printers : out'[t] = out[t] \/ out'[t] = <<>>
    PROVE  ClientInv'
<1>1. EditorTypeOK'
  BY DEF ClientInv, ClientTypeOK, EditorTypeOK, simpio, keys
<1>2. EndsInBuf'
  BY SizeAssumption DEF ClientInv, EndsInBuf, simpio
<1> QED
  BY <1>1, <1>2, FlagStep DEF ClientInv, ClientTypeOK

\* The steps of main.
LEMMA InvMain ==
    ASSUME ClientInv, Main
    PROVE  ClientInv'
<1> USE DEF ClientInv, ClientTypeOK, Run, Go
<1>n. [Next]_vars
  BY DEF Next
<1>1. CASE Setup
  <2>1. EditorTypeOK'
    BY <1>1, SizeAssumption DEF Setup, simpio_reset, EditorTypeOK, Index, keys
  <2>2. ThreadTypeOK'
    BY <1>1 DEF Setup, ThreadTypeOK, Threads, MainAt, UserAt, BgAt
  <2>3. ServerTypeOK'
    BY <1>1 DEF Setup, ServerTypeOK, server
  <2>4. EndsInBuf'
    BY <1>1, SizeAssumption DEF Setup, simpio_reset, EndsInBuf, EditorTypeOK, Index
  <2> QED
    BY <1>n, <2>1, <2>2, <2>3, <2>4, FlagStep
<1>2. CASE CreateUser \/ CreateBackground \/ JoinUser \/ JoinBackground
  <2>1. ThreadTypeOK'
    BY <1>2 DEF CreateUser, CreateBackground, JoinUser, JoinBackground, ThreadTypeOK,
       Threads, Printers, MainAt, UserAt, BgAt
  <2>2. ServerTypeOK'
    BY <1>2 DEF CreateUser, CreateBackground, JoinUser, JoinBackground, ServerTypeOK,
       server, hearing
  <2>3. UNCHANGED <<simpio, keys, out>>
    BY <1>2 DEF CreateUser, CreateBackground, JoinUser, JoinBackground
  <2> QED
    BY <1>n, <2>1, <2>2, <2>3, InvElsewhere
<1> QED
  BY <1>1, <1>2 DEF Main

\* A byte that iprintf copies is text, and it is not the last one of buf.
LEMMA InvCopy ==
    ASSUME ClientInv, NEW t \in Printers, Copy(t)
    PROVE  ClientInv'
<1> USE DEF ClientInv, ClientTypeOK
<1>n. [Next]_vars
  BY DEF Next, User, Background, Printers
<1>1. CASE UNCHANGED out
  <2>1. UNCHANGED <<simpio, keys>>
    BY DEF Copy
  <2>2. ThreadTypeOK'
    BY <1>1 DEF Copy, Go, ThreadTypeOK, Threads, Printers, MainAt, UserAt, BgAt
  <2>3. ServerTypeOK'
    BY DEF Copy, ServerTypeOK, server, hearing
  <2> QED
    BY <1>1, <1>n, <2>1, <2>2, <2>3, InvElsewhere
<1>2. CASE out' # out
  <2> DEFINE c == buf[Len(out[t])]
  <2>1. c # Nul /\ out' = [out EXCEPT ![t] = Append(@, c)] /\ UNCHANGED pc
    BY <1>2 DEF Copy
  <2>2. Len(out[t]) \in Nat /\ Len(out[t]) < MAXLINE - 1
    BY <2>1, SizeAssumption DEF EndsInBuf, ThreadTypeOK
  <2>3. c \in Letters
    BY <2>1, <2>2, SizeAssumption DEF EditorTypeOK, Index
  <2>4. out' \in [Printers -> Seq(Letters)] /\ \A s \in Printers : Len(out'[s]) <= MAXLINE - 1
    <3> HIDE DEF c
    <3>1. Append(out[t], c) \in Seq(Letters) /\ Len(Append(out[t], c)) = Len(out[t]) + 1
      BY <2>3 DEF ThreadTypeOK
    <3> QED
      BY <2>1, <2>2, <3>1, SizeAssumption DEF ThreadTypeOK, EndsInBuf
  <2>5. EditorTypeOK' /\ ServerTypeOK'
    BY DEF Copy, EditorTypeOK, ServerTypeOK, simpio, server, keys, hearing
  <2>6. ThreadTypeOK' /\ EndsInBuf'
    BY <2>1, <2>4 DEF Copy, ThreadTypeOK, EndsInBuf, simpio
  <2> QED
    BY <1>n, <2>5, <2>6, FlagStep
<1> QED
  BY <1>1, <1>2

\* The prompt or the message is shown, and the copy is done with.
LEMMA InvShow ==
    ASSUME ClientInv, UserPrint \/ BgPrint
    PROVE  ClientInv'
<1> USE DEF ClientInv, ClientTypeOK
<1>n. [Next]_vars
  BY DEF Next, User, Background
<1>1. UNCHANGED <<simpio, keys>> /\ ServerTypeOK'
  BY DEF UserPrint, BgPrint, ServerTypeOK, server, hearing
<1>2. PICK t \in Printers : Show(t)
  BY DEF UserPrint, BgPrint, Printers
<1>3. screen' \in Seq(KeySet) /\ out' \in [Printers -> Seq(Letters)]
  BY <1>2 DEF Show, ThreadTypeOK, KeySet
<1>4. ThreadTypeOK'
  BY <1>3 DEF UserPrint, BgPrint, Go, ThreadTypeOK, Threads, Printers, MainAt, UserAt, BgAt
<1>5. \A s \in Printers : out'[s] = out[s] \/ out'[s] = <<>>
  BY <1>2 DEF Show, ThreadTypeOK
<1> QED
  BY <1>n, <1>1, <1>4, <1>5, InvElsewhere

\* The stores of the user thread: the last byte of buf stays '\0'.
LEMMA InvEdit ==
    ASSUME ClientInv, Reset \/ GetChar \/ MarkEnd
    PROVE  ClientInv'
<1> USE DEF ClientInv, ClientTypeOK
<1> USE SizeAssumption
<1>n. [Next]_vars
  BY DEF Next, User
<1>1. ServerTypeOK'
  BY DEF Reset, GetChar, MarkEnd, ServerTypeOK, server, hearing
<1>2. ThreadTypeOK'
  <2>1. screen' = screen /\ out' = out /\ cancelled' = cancelled
    BY DEF Reset, GetChar, MarkEnd
  <2>2. \/ UNCHANGED pc
        \/ \E p \in {"copy", "send", "erase", "nul", "getc", "echo"} : Go("user", p)
    BY DEF Reset, GetChar, MarkEnd
  <2> QED
    BY <2>1, <2>2 DEF Go, ThreadTypeOK, Threads, Printers, MainAt, UserAt, BgAt
<1>3. EditorTypeOK' /\ buf'[MAXLINE - 1] = Nul
  <2>1. CASE Reset
    BY <2>1 DEF Reset, simpio_reset, EditorTypeOK, EndsInBuf, Index, keys
  <2>2. CASE MarkEnd
    BY <2>2 DEF MarkEnd, Terminate, EditorTypeOK, EndsInBuf, Index, keys
  <2>3. CASE GetChar
    <3>1. PICK k \in KeySet :
            /\ key' = k
            /\ typed' = Append(typed, k)
            /\ \/ Complete
               \/ Erases(k) /\ Erase
               \/ Adds(k) /\ Store(k)
               \/ UNCHANGED <<buf, pos>>
      BY <2>3 DEF GetChar
    <3>2. key' \in KeySet /\ typed' \in Seq(KeySet)
      BY <3>1 DEF EditorTypeOK
    <3>3. buf' \in [Index -> Letters \cup {Nul}] /\ pos' \in Index /\ buf'[MAXLINE - 1] = Nul
      <4>1. CASE Complete
        BY <4>1 DEF Complete, EditorTypeOK, EndsInBuf, Index
      <4>2. CASE Erases(k) /\ Erase
        BY <4>2 DEF Erases, Erase, EditorTypeOK, EndsInBuf, Index
      <4>3. CASE Adds(k) /\ Store(k)
        BY <4>3 DEF Adds, Store, EditorTypeOK, EndsInBuf, Index
      <4>4. CASE UNCHANGED <<buf, pos>>
        BY <4>4 DEF EditorTypeOK, EndsInBuf
      <4> QED
        BY <3>1, <4>1, <4>2, <4>3, <4>4
    <3> QED
      BY <3>2, <3>3 DEF EditorTypeOK
  <2> QED
    BY <2>1, <2>2, <2>3
<1>4. EndsInBuf'
  BY <1>3 DEF Reset, GetChar, MarkEnd, EndsInBuf
<1> QED
  BY <1>n, <1>1, <1>2, <1>3, <1>4, FlagStep

\* The other steps of the threads, and the server's.
LEMMA InvRest ==
    ASSUME ClientInv,
           \/ Echo \/ Send \/ CancelBackground \/ Depart \/ Read \/ ReadFails \/ CancelUser
           \/ Drain \/ \E t \in Printers : ObeyCancel(t)
    PROVE  ClientInv'
<1> USE DEF ClientInv, ClientTypeOK
<1>n. [Next]_vars
  BY DEF Next, User, Background, Printers
<1>1. UNCHANGED <<simpio, keys, out>>
  BY DEF Echo, Send, CancelBackground, Depart, Read, ReadFails, CancelUser, Drain, ObeyCancel
<1>2. ServerTypeOK'
  <2>1. CASE Send
    <3>1. TypedText \in Seq(Letters)
      BY StringInBuf DEF EndsInBuf
    <3>2. said' \in Seq(Seq(Letters))
      <4>1. Append(said, TypedText) \in Seq(Seq(Letters)) /\ said \in Seq(Seq(Letters))
        BY <3>1 DEF ServerTypeOK
      <4>2. said' = Append(said, TypedText) \/ said' = said
        BY <2>1 DEF Send, Lost, server
      <4> QED
        BY <4>1, <4>2
    <3> QED
      BY <2>1, <3>2, CapAssumption DEF Send, Written, Lost, server, ServerTypeOK, hearing
  <2>2. CASE Depart \/ Drain
    BY <2>2, CapAssumption DEF Depart, Written, Lost, server, Drain, ServerTypeOK, hearing
  <2>3. CASE Read
    BY <2>3 DEF Read, ServerTypeOK, server
  <2>4. CASE \/ Echo \/ CancelBackground \/ ReadFails \/ CancelUser
             \/ \E t \in Printers : ObeyCancel(t)
    BY <2>4 DEF Echo, CancelBackground, ReadFails, CancelUser, ObeyCancel, ServerTypeOK,
       server, hearing
  <2> QED
    BY <2>1, <2>2, <2>3, <2>4
<1>3. ThreadTypeOK'
  <2> USE DEF Threads, Printers, MainAt, UserAt, BgAt
  <2>1. CASE Echo
    <3>1. screen \in Seq(KeySet) /\ key \in KeySet
      BY DEF ThreadTypeOK, EditorTypeOK
    <3>2. Append(screen, key) \in Seq(KeySet) /\ (screen # <<>> => Front(screen) \in Seq(KeySet))
      BY <3>1 DEF Front
    <3> QED
      BY <2>1, <3>1, <3>2 DEF Echo, Go, ThreadTypeOK
  <2>2. CASE Send \/ Depart \/ Read \/ ReadFails \/ Drain
    BY <2>2 DEF Send, Depart, Read, ReadFails, Drain, Go, ThreadTypeOK
  <2>3. CASE CancelBackground \/ CancelUser
    BY <2>3 DEF CancelBackground, CancelUser, Cancel, Go, ThreadTypeOK
  <2>4. CASE \E t \in Printers : ObeyCancel(t)
    BY <2>4 DEF ObeyCancel, Go, ThreadTypeOK
  <2> QED
    BY <2>1, <2>2, <2>3, <2>4
<1> QED
  BY <1>n, <1>1, <1>2, <1>3, InvElsewhere

\* Every step preserves the invariant.
LEMMA InvStep == ClientInv /\ [Next]_vars => ClientInv'
<1> SUFFICES ASSUME ClientInv, [Next]_vars PROVE ClientInv'
  OBVIOUS
<1>1. CASE UNCHANGED vars
  BY <1>1, FlagStep DEF vars, ClientInv, ClientTypeOK, EditorTypeOK, ThreadTypeOK,
     ServerTypeOK, EndsInBuf, simpio, server, keys, hearing
<1>2. CASE Main
  BY <1>2, InvMain
<1>3. CASE User
  BY <1>3, InvEdit, InvCopy, InvShow, InvRest DEF User, Printers
<1>4. CASE Background
  BY <1>4, InvCopy, InvShow, InvRest DEF Background, Printers
<1>5. CASE GetChar \/ Read \/ Drain
  BY <1>5, InvEdit, InvRest
<1> QED
  BY <1>1, <1>2, <1>3, <1>4, <1>5 DEF Next

\* The inductive invariant holds in every behaviour.
THEOREM InvCorrect == Spec => []ClientInv
BY InvInit, InvStep, PTL DEF Spec

\* Type correctness: pos stays inside buf and no line is anything but text, for
\* every size of the buffer and whatever the threads interleave.
THEOREM ClientTypeCorrect == Spec => []ClientTypeOK
<1>1. ClientInv => ClientTypeOK
  BY DEF ClientInv
<1> QED
  BY <1>1, InvCorrect, PTL

\* The "%s" of iprintf never runs past buf, though it reads it without a lock
\* between any two stores of simpio_get_char.
THEOREM ReadsStayCorrect == Spec => []ReadsStayInBuf
BY InvCorrect, InvReads, PTL

-----------------------------------------------------------------------------
(* Who ends the client, and when *)

\* No thread runs before main creates it; the user thread is cancelled only after
\* SHUTDOWN or because nothing can be read; otherwise its last act is DEPARTED, or
\* the attempt to write it.
CancelInv ==
    /\ pc["main"] \in {"setup", "create"} => pc["user"] = "none"
    /\ pc["main"] \in {"setup", "create", "create2"} => pc["bg"] = "none"
    /\ pc["main"] = "setup" => cancelled = {}
    /\ pc["bg"] \in {"none", "read"} => ~told
    /\ pc["bg"] = "cancel" => told \/ ~opened
    /\ "user" \in cancelled => told \/ ~opened
    /\ pc["user"] \in {"cancel", "depart"} => end_of_input
    /\ pc["user"] = "over" => departed \/ "user" \in cancelled \/ (~linked /\ end_of_input)
    /\ pc["main"] \in {"join2", "ended"} => pc["user"] = "over"
    /\ departed => pc["user"] = "over"

\* It is inductive.
LEMMA CancelStep == ClientInv /\ CancelInv /\ [Next]_vars => CancelInv'
<1> SUFFICES ASSUME ThreadTypeOK, CancelInv, [Next]_vars PROVE CancelInv'
  BY DEF ClientInv, ClientTypeOK
<1> USE DEF CancelInv, Run, Call, Alive, Go, ThreadTypeOK, Threads, Printers
<1>1. CASE Main
  <2>1. CASE Setup
    BY <2>1 DEF Setup, server
  <2>2. CASE CreateUser \/ CreateBackground \/ JoinUser \/ JoinBackground
    BY <2>2 DEF CreateUser, CreateBackground, JoinUser, JoinBackground, simpio, server, hearing
  <2> QED
    BY <1>1, <2>1, <2>2 DEF Main
<1>2. CASE User
  <2>1. CASE Reset \/ Copy("user") \/ UserPrint \/ MarkEnd \/ Echo
    BY <2>1 DEF Reset, Copy, UserPrint, MarkEnd, Terminate, Echo, simpio, server, hearing
  <2>2. CASE Send
    BY <2>2 DEF Send, Lost, simpio, server, hearing
  <2>3. CASE CancelBackground
    BY <2>3 DEF CancelBackground, Cancel, simpio, server, hearing
  <2>4. CASE Depart
    BY <2>4 DEF Depart, Written, Lost, simpio, server, hearing
  <2>5. CASE ObeyCancel("user")
    BY <2>5 DEF ObeyCancel, ObeysAt, simpio, server, hearing
  <2> QED
    BY <1>2, <2>1, <2>2, <2>3, <2>4, <2>5 DEF User
<1>3. CASE Background
  <2>1. CASE Copy("bg") \/ BgPrint \/ ReadFails
    BY <2>1 DEF Copy, BgPrint, ReadFails, simpio, server, hearing
  <2>2. CASE CancelUser
    BY <2>2 DEF CancelUser, Cancel, simpio, server, hearing
  <2>3. CASE ObeyCancel("bg")
    BY <2>3 DEF ObeyCancel, ObeysAt, simpio, server, hearing
  <2> QED
    BY <1>3, <2>1, <2>2, <2>3 DEF Background
<1>4. CASE GetChar
  <2>1. UNCHANGED pc \/ \E p \in {"copy", "send", "erase", "nul", "getc"} : Go("user", p)
    BY <1>4 DEF GetChar
  <2> QED
    BY <1>4, <2>1 DEF GetChar, server, hearing
<1>5. CASE Read
  BY <1>5 DEF Read, simpio, server
<1>6. CASE Drain
  BY <1>6 DEF Drain, simpio, hearing
<1>7. CASE UNCHANGED vars
  BY <1>7 DEF vars, simpio, server, hearing
<1> QED
  BY <1>1, <1>2, <1>3, <1>4, <1>5, <1>6, <1>7 DEF Next

\* It holds initially, hence always.
LEMMA CancelCorrect == Spec => [](ClientInv /\ CancelInv)
<1>1. Init => CancelInv
  BY DEF Init, CancelInv, Threads, Printers
<1> QED
  BY <1>1, InvInit, InvStep, CancelStep, PTL DEF Spec

\* main returns only after DEPARTED has been written or SHUTDOWN read, in whatever
\* order the threads cancel each other, unless one of the two open() calls failed: a
\* client that could open both FIFOs never ends silently (bl_client.c:36-41, 77),
\* and one without a FIFO to write to ends silently only at the end of its input.
EndsForAReason ==
    pc["main"] = "ended" => departed \/ told \/ ~opened \/ (~linked /\ end_of_input)
THEOREM EndJustified == Spec => []EndsForAReason
<1>1. CancelInv => EndsForAReason
  BY DEF CancelInv, EndsForAReason
<1> QED
  BY <1>1, CancelCorrect, PTL

\* DEPARTED is the last thing the client writes, and it is written once.
DepartedIsLast == [][departed => UNCHANGED <<said, departed>>]_vars
THEOREM DepartedLast == Spec => DepartedIsLast
<1>1. ASSUME CancelInv, [Next]_vars, departed
      PROVE  UNCHANGED <<said, departed>>
  <2>1. pc["user"] = "over"
    BY <1>1 DEF CancelInv
  <2>2. ~Setup \/ UNCHANGED server
    BY DEF Setup
  <2> QED
    BY <1>1, <2>1, <2>2 DEF Next, Main, User, Background, vars, server, Setup, CreateUser,
       CreateBackground, JoinUser, JoinBackground, Reset, Copy, UserPrint, MarkEnd, Echo,
       Send, CancelBackground, Depart, Lost, ObeyCancel, BgPrint, ReadFails, CancelUser, GetChar,
       Read, Drain, Run, Call
<1> QED
  BY <1>1, CancelCorrect, PTL DEF Spec, DepartedIsLast

-----------------------------------------------------------------------------
(* What the terminal shows *)

\* The first n bytes of buf are shown by, or copied to, s from its start.
ShowsTo(s, n) == \A i \in 1 .. n : s[i] = buf[i - 1]

\* The string in buf ends at pos, but for the moment between two stores.
StringInv ==
    /\ \A i \in 0 .. pos - 1 : buf[i] # Nul
    /\ pc["user"] # "nul" => buf[pos] = Nul

\* The user thread prints its prompt over an empty line.
PromptInv ==
    /\ pc["user"] \in {"copy", "write"} /\ ~end_of_input => pos = 0 /\ out["user"] = <<>>
    /\ pc["user"] \in {"none", "reset", "getc", "nul", "echo", "erase", "send"} =>
         out["user"] = <<>>

\* What the background thread has copied, while no edit overlaps its print.
BgInv ==
    /\ pc["bg"] \in {"none", "read"} => out["bg"] = <<>>
    /\ ~raced /\ BgPrints =>
        /\ pc["user"] \notin {"nul", "echo", "erase"}
        /\ Len(out["bg"]) <= pos /\ ShowsTo(out["bg"], Len(out["bg"]))
        /\ pc["bg"] = "write" => Len(out["bg"]) = pos

\* The screen at the prompt, and while a key is being echoed.
ScreenInv ==
    ~raced =>
        /\ pc["user"] = "getc" => Len(screen) = pos /\ ShowsTo(screen, pos)
        /\ pc["user"] \in {"nul", "echo"} =>
             pos > 0 /\ Len(screen) = pos - 1 /\ ShowsTo(screen, pos - 1) /\ buf[pos - 1] = key
        /\ pc["user"] = "erase" => Len(screen) = pos + 1 /\ ShowsTo(screen, pos)

EchoInv == StringInv /\ PromptInv /\ BgInv /\ ScreenInv

\* It says what EchoExact says.
LEMMA EchoInvExact == ClientInv /\ EchoInv => EchoExact
<1> SUFFICES ASSUME ClientInv, EchoInv, AtPrompt, ~raced PROVE screen = TypedText
  BY DEF EchoExact
<1>1. EditorTypeOK /\ screen \in Seq(KeySet) /\ buf[MAXLINE - 1] = Nul
  BY DEF ClientInv, ClientTypeOK, ThreadTypeOK, EndsInBuf
<1>2. pos = StrLen
  <2>1. /\ StrLen \in Index /\ buf[StrLen] = Nul
        /\ \A i \in 0 .. StrLen - 1 : buf[i] # Nul
    BY <1>1, StringInBuf
  <2>2. pos \in Index /\ buf[pos] = Nul /\ \A i \in 0 .. pos - 1 : buf[i] # Nul
    BY <1>1 DEF EchoInv, StringInv, AtPrompt, EditorTypeOK
  <2> QED
    BY <2>1, <2>2, SizeAssumption DEF Index
<1>3. Len(screen) = pos /\ \A i \in 1 .. pos : screen[i] = buf[i - 1]
  BY DEF EchoInv, ScreenInv, ShowsTo, AtPrompt
<1>4. TypedText \in Seq(Letters) /\ Len(TypedText) = pos /\ \A i \in 1 .. pos : TypedText[i] = buf[i - 1]
  <2>1. TypedText \in Seq(Letters)
    BY <1>1, StringInBuf
  <2>2. pos \in Nat
    BY <1>1, SizeAssumption DEF EditorTypeOK, Index
  <2> QED
    BY <1>2, <2>1, <2>2 DEF TypedText
<1> QED
  BY <1>1, <1>3, <1>4

\* It holds initially.
LEMMA EchoInit == Init => EchoInv
BY SizeAssumption DEF Init, InitSimpio, EchoInv, StringInv, PromptInv, BgInv, ScreenInv,
   BgPrints, Threads, Printers, Index

\* Steps that change neither the editor nor what is shown or copied, and take no
\* thread to a place of which EchoInv says something new.
LEMMA EchoElsewhere ==
    ASSUME ClientInv, EchoInv, UNCHANGED <<simpio, keys, screen, out, raced>>,
           pc'["user"] = pc["user"] \/ pc'["user"] \in {"cancel", "depart", "over"}
             \/ (pc'["user"] \in {"reset"} /\ pc["user"] \in {"none", "send"} /\ out["user"] = <<>>)
             \/ (pc'["user"] = "copy" /\ end_of_input),
           pc["user"] # "nul" \/ pc'["user"] = "nul",
           pc'["bg"] = pc["bg"] \/ pc'["bg"] \in {"cancel", "over"}
             \/ (pc'["bg"] = "read" /\ out["bg"] = <<>>)
    PROVE  EchoInv'
<1> USE DEF EchoInv, simpio, keys
<1>1. StringInv'
  BY DEF StringInv
<1>2. PromptInv'
  BY DEF PromptInv
<1>3. BgInv'
  BY DEF BgInv, BgPrints, ShowsTo
<1>4. ScreenInv'
  BY DEF ScreenInv, ShowsTo
<1> QED
  BY <1>1, <1>2, <1>3, <1>4

\* The steps of main, and those of the threads that neither edit nor print.
LEMMA EchoQuiet ==
    ASSUME ClientInv, CancelInv, EchoInv,
           \/ Main \/ Send \/ CancelBackground \/ Depart \/ ReadFails \/ CancelUser \/ Drain
           \/ \E t \in Printers : ObeyCancel(t)
    PROVE  EchoInv'
<1> USE DEF Run, Call, Go, Threads, Printers
<1>t. ThreadTypeOK
  BY DEF ClientInv, ClientTypeOK
<1>1. CASE Setup
  <2>1. pc["user"] = "none" /\ pc["bg"] = "none" /\ pc'["user"] = "none" /\ pc'["bg"] = "none"
    BY <1>1, <1>t DEF Setup, CancelInv, ThreadTypeOK
  <2>2. UNCHANGED <<screen, out, raced>> /\ pos' = 0 /\ buf' = [buf EXCEPT ![0] = Nul]
    BY <1>1 DEF Setup, simpio_reset
  <2>3. buf'[0] = Nul
    BY <2>2, SizeAssumption DEF ClientInv, ClientTypeOK, EditorTypeOK, Index
  <2> QED
    BY <2>1, <2>2, <2>3 DEF EchoInv, StringInv, PromptInv, BgInv, ScreenInv, BgPrints
<1>2. CASE CreateUser \/ CreateBackground \/ JoinUser \/ JoinBackground
  <2>1. UNCHANGED <<simpio, keys, screen, out, raced>>
    BY <1>2 DEF CreateUser, CreateBackground, JoinUser, JoinBackground
  <2>2. CASE CreateUser
    BY <1>t, <2>1, <2>2, EchoElsewhere DEF CreateUser, CancelInv, EchoInv, PromptInv, ThreadTypeOK
  <2>3. CASE CreateBackground
    BY <1>t, <2>1, <2>3, EchoElsewhere DEF CreateBackground, CancelInv, EchoInv, BgInv, ThreadTypeOK
  <2>4. CASE JoinUser \/ JoinBackground
    BY <1>t, <2>1, <2>4, EchoElsewhere DEF JoinUser, JoinBackground, ThreadTypeOK
  <2> QED
    BY <1>2, <2>2, <2>3, <2>4
<1>3. CASE Send
  BY <1>3, <1>t, EchoElsewhere DEF Send, EchoInv, PromptInv, ThreadTypeOK
<1>4. CASE CancelBackground \/ CancelUser
  BY <1>4, <1>t, EchoElsewhere DEF CancelBackground, CancelUser, Cancel, ThreadTypeOK
<1>5. CASE Depart \/ ReadFails \/ Drain
  <2>1. CASE Depart
    BY <2>1, <1>t, EchoElsewhere DEF Depart, ThreadTypeOK
  <2>2. CASE ReadFails
    BY <2>2, <1>t, EchoElsewhere DEF ReadFails, ThreadTypeOK
  <2>3. CASE Drain
    <3>1. UNCHANGED <<simpio, keys, screen, out, raced>> /\ pc' = pc
      BY <2>3 DEF Drain
    <3>2. pc'["user"] = pc["user"] /\ pc'["bg"] = pc["bg"]
      BY <3>1
    <3> QED
      BY <3>1, <3>2, EchoElsewhere
  <2> QED
    BY <1>5, <2>1, <2>2, <2>3
<1>6. CASE \E t \in Printers : ObeyCancel(t)
  <2>1. UNCHANGED <<simpio, keys, screen, out, raced>>
    BY <1>6 DEF ObeyCancel
  <2>2. CASE ObeyCancel("user")
    <3>1. pc["user"] # "nul"
      BY <2>2 DEF ObeyCancel, ObeysAt
    <3>2. pc'["user"] = "over" /\ pc'["bg"] = pc["bg"]
      BY <2>2, <1>t DEF ObeyCancel, ThreadTypeOK
    <3> QED
      BY <2>1, <3>1, <3>2, EchoElsewhere
  <2>3. CASE ObeyCancel("bg")
    <3>1. pc'["bg"] = "over" /\ pc'["user"] = pc["user"]
      BY <2>3, <1>t DEF ObeyCancel, ThreadTypeOK
    <3> QED
      BY <2>1, <3>1, EchoElsewhere
  <2> QED
    BY <1>6, <2>2, <2>3
<1> QED
  BY <1>1, <1>2, <1>3, <1>4, <1>5, <1>6 DEF Main

\* A byte that iprintf copies is the next byte of the string, and it stops at pos.
LEMMA EchoCopy ==
    ASSUME ClientInv, ClientInv', EchoInv, NEW t \in Printers, Copy(t)
    PROVE  EchoInv'
<1>t. /\ ThreadTypeOK /\ EditorTypeOK
      /\ \A s \in Printers : Len(out[s]) \in Nat
  BY DEF ClientInv, ClientTypeOK, ThreadTypeOK
<1>u. UNCHANGED <<simpio, keys, screen, raced>> /\ pc[t] = "copy"
  BY DEF Copy, Run
<1>1. CASE UNCHANGED out
  <2>1. buf[Len(out[t])] = Nul /\ Go(t, "write")
    <3>1. ASSUME out' = [out EXCEPT ![t] = Append(@, buf[Len(out[t])])] PROVE FALSE
      <4>1. out'[t] = Append(out[t], buf[Len(out[t])]) /\ Len(out'[t]) = Len(out[t]) + 1
        BY <1>t, <3>1 DEF ThreadTypeOK
      <4> QED
        BY <1>1, <1>t, <4>1
    <3> QED
      BY <3>1 DEF Copy
  <2>2. StringInv'
    BY <1>u, <2>1, <1>t DEF EchoInv, StringInv, Go, simpio, ThreadTypeOK, Threads, Printers
  <2>3. PromptInv'
    BY <1>1, <1>u, <2>1, <1>t DEF EchoInv, PromptInv, Go, simpio, ThreadTypeOK, Threads, Printers
  <2>4. BgInv'
    <3>1. CASE t = "bg" /\ ~raced
      <4>1. pos \in Nat /\ Len(out["bg"]) \in Nat /\ Len(out["bg"]) <= pos /\ buf[Len(out["bg"])] = Nul
        BY <1>t, <1>u, <2>1, <3>1, SizeAssumption DEF EchoInv, BgInv, BgPrints, EditorTypeOK, Index, Printers
      <4>2. Len(out["bg"]) = pos
        BY <4>1 DEF EchoInv, StringInv
      <4> QED
        BY <1>1, <1>u, <1>t, <2>1, <3>1, <4>2 DEF EchoInv, BgInv, BgPrints, ShowsTo, Go, simpio,
           ThreadTypeOK, Threads, Printers
    <3>2. CASE t = "user" \/ raced
      BY <1>1, <1>u, <1>t, <2>1, <3>2 DEF EchoInv, BgInv, BgPrints, ShowsTo, Go, simpio,
         ThreadTypeOK, Threads, Printers
    <3> QED
      BY <3>1, <3>2 DEF Printers
  <2>5. ScreenInv'
    BY <1>u, <2>1, <1>t DEF EchoInv, ScreenInv, ShowsTo, Go, simpio, keys, ThreadTypeOK, Threads, Printers
  <2> QED
    BY <2>2, <2>3, <2>4, <2>5 DEF EchoInv
<1>2. CASE out' # out
  <2> DEFINE n == Len(out[t])
             c == buf[n]
  <2>1. c # Nul /\ out' = [out EXCEPT ![t] = Append(@, c)] /\ UNCHANGED pc
    BY <1>2 DEF Copy
  <2>2. StringInv'
    BY <1>u, <2>1 DEF EchoInv, StringInv, simpio
  <2>3. PromptInv'
    <3>1. CASE t = "user"
      <4>1. end_of_input
        <5>1. SUFFICES ASSUME ~end_of_input PROVE FALSE
          OBVIOUS
        <5>2. pos = 0 /\ out["user"] = <<>> /\ buf[pos] = Nul
          BY <1>u, <3>1, <5>1 DEF EchoInv, PromptInv, StringInv
        <5> QED
          BY <2>1, <3>1, <5>2
      <4> QED
        BY <1>u, <2>1, <3>1, <4>1 DEF EchoInv, PromptInv, simpio
    <3>2. CASE t = "bg"
      BY <1>u, <1>t, <2>1, <3>2 DEF EchoInv, PromptInv, simpio, ThreadTypeOK, Printers
    <3> QED
      BY <3>1, <3>2 DEF Printers
  <2>4. BgInv'
    <3>1. CASE t = "bg"
      <4>1. pc["bg"] = "copy" /\ pc'["bg"] = "copy" /\ raced' = raced
        BY <1>u, <2>1, <3>1
      <4>2. out'["bg"] = Append(out["bg"], c) /\ out["bg"] \in Seq(Letters) /\ n = Len(out["bg"]) /\ n \in Nat
        BY <1>t, <2>1, <3>1 DEF ThreadTypeOK
      <4>3. ASSUME ~raced PROVE n < pos
        <5>1. n <= pos /\ pc["user"] # "nul"
          BY <4>1, <4>2, <4>3 DEF EchoInv, BgInv, BgPrints
        <5>2. buf[pos] = Nul
          BY <5>1 DEF EchoInv, StringInv
        <5>3. pos \in Nat
          BY <1>t, SizeAssumption DEF EditorTypeOK, Index
        <5> QED
          BY <2>1, <4>2, <5>1, <5>2, <5>3
      <4>4. Len(out'["bg"]) = n + 1 /\ out'["bg"][n + 1] = c /\ \A i \in 1 .. n : out'["bg"][i] = out["bg"][i]
        BY <4>2
      <4>5. ASSUME ~raced PROVE Len(out'["bg"]) <= pos /\ \A i \in 1 .. n + 1 : out'["bg"][i] = buf[i - 1]
        <5>1. \A i \in 1 .. n : out["bg"][i] = buf[i - 1]
          BY <4>1, <4>2, <4>5 DEF EchoInv, BgInv, BgPrints, ShowsTo
        <5>2. pos \in Nat
          BY <1>t, SizeAssumption DEF EditorTypeOK, Index
        <5> QED
          BY <4>2, <4>3, <4>4, <4>5, <5>1, <5>2
      <4> HIDE DEF n, c
      <4> QED
        BY <1>u, <2>1, <4>1, <4>4, <4>5 DEF EchoInv, BgInv, BgPrints, ShowsTo, simpio
    <3>2. CASE t = "user"
      BY <1>u, <1>t, <2>1, <3>2 DEF EchoInv, BgInv, BgPrints, ShowsTo, simpio, ThreadTypeOK, Printers
    <3> QED
      BY <3>1, <3>2 DEF Printers
  <2>5. ScreenInv'
    BY <1>u, <2>1 DEF EchoInv, ScreenInv, ShowsTo, simpio, keys
  <2> QED
    BY <2>2, <2>3, <2>4, <2>5 DEF EchoInv
<1> QED
  BY <1>1, <1>2

\* A print shows what has been copied; a read begins one.
LEMMA EchoShow ==
    ASSUME ClientInv, EchoInv, UserPrint \/ BgPrint \/ Read
    PROVE  EchoInv'
<1> USE DEF Call, Go, Threads, Printers
<1>t. /\ ThreadTypeOK /\ EditorTypeOK /\ out["bg"] \in Seq(Letters) /\ out["user"] \in Seq(Letters)
      /\ pos \in Nat
  BY SizeAssumption DEF ClientInv, ClientTypeOK, ThreadTypeOK, EditorTypeOK, Index
<1>1. CASE UserPrint
  <2>1. /\ UNCHANGED <<simpio, keys, raced>> /\ pc["user"] = "write"
        /\ screen' = out["user"] /\ out' = [out EXCEPT !["user"] = <<>>]
        /\ pc' = [pc EXCEPT !["user"] = IF end_of_input THEN "cancel" ELSE "getc"]
    BY <1>1 DEF UserPrint, Show
  <2>2. out'["user"] = <<>> /\ out'["bg"] = out["bg"]
    BY <1>t, <2>1 DEF ThreadTypeOK
  <2>3. StringInv'
    BY <1>t, <2>1 DEF EchoInv, StringInv, simpio, ThreadTypeOK
  <2>4. PromptInv'
    BY <1>t, <2>1, <2>2 DEF PromptInv, ThreadTypeOK
  <2>5. BgInv'
    BY <1>t, <2>1, <2>2 DEF EchoInv, BgInv, BgPrints, ShowsTo, simpio, ThreadTypeOK
  <2>6. ScreenInv'
    <3>1. CASE end_of_input
      BY <1>t, <2>1, <3>1 DEF ScreenInv, ThreadTypeOK
    <3>2. CASE ~end_of_input
      <4>1. pos = 0 /\ out["user"] = <<>>
        BY <2>1, <3>2 DEF EchoInv, PromptInv
      <4>2. Len(screen') = 0 /\ pos' = 0 /\ pc'["user"] = "getc"
        BY <1>t, <2>1, <3>2, <4>1 DEF simpio, ThreadTypeOK
      <4> QED
        BY <4>2 DEF ScreenInv, ShowsTo
    <3> QED
      BY <3>1, <3>2
  <2> QED
    BY <2>3, <2>4, <2>5, <2>6 DEF EchoInv
<1>2. CASE BgPrint
  <2>1. /\ UNCHANGED <<simpio, keys, raced>> /\ pc["bg"] = "write"
        /\ screen' = out["bg"] /\ out' = [out EXCEPT !["bg"] = <<>>]
        /\ pc' = [pc EXCEPT !["bg"] = IF told THEN "cancel" ELSE "read"]
    BY <1>2 DEF BgPrint, Show
  <2>2. out'["bg"] = <<>> /\ out'["user"] = out["user"] /\ pc'["user"] = pc["user"]
    BY <1>t, <2>1 DEF ThreadTypeOK
  <2>3. StringInv' /\ PromptInv'
    BY <2>1, <2>2 DEF EchoInv, StringInv, PromptInv, simpio
  <2>4. BgInv'
    BY <1>t, <2>1, <2>2 DEF BgInv, BgPrints, ThreadTypeOK
  <2>5. ScreenInv'
    <3>1. ASSUME ~raced
          PROVE  /\ pc["user"] \notin {"nul", "echo", "erase"}
                 /\ Len(out["bg"]) = pos /\ ShowsTo(out["bg"], pos)
      BY <2>1, <3>1 DEF EchoInv, BgInv, BgPrints
    <3> QED
      BY <2>1, <2>2, <3>1 DEF ScreenInv, ShowsTo, simpio
  <2> QED
    BY <2>3, <2>4, <2>5 DEF EchoInv
<1>3. CASE Read
  <2>1. /\ UNCHANGED <<simpio, keys, screen, out>> /\ pc["bg"] = "read"
        /\ raced' = (raced \/ pc["user"] \in {"nul", "echo", "erase"})
        /\ pc' = [pc EXCEPT !["bg"] = "copy"]
    BY <1>3 DEF Read
  <2>2. out["bg"] = <<>> /\ pc'["user"] = pc["user"] /\ pc'["bg"] = "copy"
    BY <1>t, <2>1 DEF EchoInv, BgInv, ThreadTypeOK
  <2>3. StringInv' /\ PromptInv'
    BY <2>1, <2>2 DEF EchoInv, StringInv, PromptInv, simpio
  <2>r. ~raced' => ~raced /\ pc["user"] \notin {"nul", "echo", "erase"}
    BY <2>1, Zenon
  <2>4. BgInv'
    <3>1. Len(out'["bg"]) = 0 /\ pos' = pos
      BY <2>1, <2>2 DEF simpio
    <3> QED
      BY <1>t, <2>2, <2>r, <3>1 DEF BgInv, BgPrints, ShowsTo
  <2>5. ScreenInv'
    BY <2>1, <2>2, <2>r DEF EchoInv, ScreenInv, ShowsTo, simpio, keys
  <2> QED
    BY <2>3, <2>4, <2>5 DEF EchoInv
<1> QED
  BY <1>1, <1>2, <1>3

\* An edit keeps the string and the screen together, unless a print overlaps it.
LEMMA EchoEdit ==
    ASSUME ClientInv, EchoInv, Reset \/ MarkEnd \/ Echo
    PROVE  EchoInv'
<1> USE DEF Run, Call, Go, Threads, Printers
<1> USE SizeAssumption
<1>t. ThreadTypeOK /\ EditorTypeOK /\ pos \in Index /\ pos \in Nat
  BY DEF ClientInv, ClientTypeOK, EditorTypeOK, Index
<1>1. CASE Reset
  <2>1. /\ UNCHANGED <<screen, out>> /\ pc["user"] = "reset" /\ raced' = BgPrints
        /\ pc' = [pc EXCEPT !["user"] = "copy"]
        /\ pos' = 0 /\ buf' = [buf EXCEPT ![0] = Nul] /\ end_of_input' = FALSE
    BY <1>1 DEF Reset, simpio_reset
  <2>2. pc'["user"] = "copy" /\ pc'["bg"] = pc["bg"] /\ buf'[0] = Nul
    BY <1>t, <2>1 DEF ThreadTypeOK, EditorTypeOK, Index
  <2>3. StringInv' /\ PromptInv' /\ ScreenInv'
    BY <2>1, <2>2 DEF EchoInv, StringInv, PromptInv, ScreenInv
  <2>4. BgInv'
    BY <2>1, <2>2 DEF EchoInv, BgInv, BgPrints
  <2> QED
    BY <2>3, <2>4 DEF EchoInv
<1>2. CASE MarkEnd
  <2>1. /\ UNCHANGED <<screen, out, key, pos>> /\ pc["user"] = "nul"
        /\ raced' = (raced \/ BgPrints)
        /\ pc' = [pc EXCEPT !["user"] = "echo"]
        /\ buf' = [buf EXCEPT ![pos] = Nul]
    BY <1>2 DEF MarkEnd, Terminate, Edit, keys
  <2>2. /\ pc'["user"] = "echo" /\ pc'["bg"] = pc["bg"] /\ buf'[pos] = Nul
        /\ \A i \in 0 .. pos - 1 : buf'[i] = buf[i]
    BY <1>t, <2>1 DEF ThreadTypeOK, EditorTypeOK, Index
  <2>3. StringInv' /\ PromptInv'
    BY <1>t, <2>1, <2>2 DEF EchoInv, StringInv, PromptInv
  <2>4. BgInv'
    BY <2>1, <2>2 DEF EchoInv, BgInv, BgPrints
  <2>5. ScreenInv'
    <3>1. ASSUME ~raced
          PROVE  /\ pos > 0 /\ Len(screen) = pos - 1 /\ buf[pos - 1] = key
                 /\ \A i \in 1 .. pos - 1 : screen[i] = buf[i - 1]
      BY <2>1, <3>1 DEF EchoInv, ScreenInv, ShowsTo
    <3>2. ~raced' => ~raced
      BY <2>1, Zenon
    <3>3. \A i \in 1 .. pos - 1 : i - 1 \in 0 .. pos - 1
      BY <1>t
    <3>4. ASSUME ~raced PROVE buf'[pos - 1] = key /\ \A i \in 1 .. pos - 1 : screen[i] = buf'[i - 1]
      BY <1>t, <2>2, <3>1, <3>3, <3>4
    <3> QED
      BY <2>1, <2>2, <3>1, <3>2, <3>4 DEF ScreenInv, ShowsTo
  <2> QED
    BY <2>3, <2>4, <2>5 DEF EchoInv
<1>3. CASE Echo
  <2>1. /\ UNCHANGED <<simpio, keys, out>> /\ pc["user"] \in {"echo", "erase"}
        /\ raced' = (raced \/ BgPrints)
        /\ pc' = [pc EXCEPT !["user"] = "getc"]
    BY <1>3 DEF Echo, Edit
  <2>2. pc'["user"] = "getc" /\ pc'["bg"] = pc["bg"]
    BY <1>t, <2>1 DEF ThreadTypeOK
  <2>3. StringInv' /\ PromptInv'
    BY <2>1, <2>2 DEF EchoInv, StringInv, PromptInv, simpio
  <2>4. BgInv'
    BY <2>1, <2>2 DEF EchoInv, BgInv, BgPrints
  <2>5. ScreenInv'
    <3> SUFFICES ASSUME ~raced PROVE Len(screen') = pos /\ \A i \in 1 .. pos : screen'[i] = buf[i - 1]
      BY <2>1, <2>2 DEF ScreenInv, ShowsTo, simpio
    <3>1. screen \in Seq(KeySet) /\ key \in KeySet
      BY <1>t DEF ThreadTypeOK, EditorTypeOK
    <3>2. CASE pc["user"] = "echo"
      <4>1. /\ pos > 0 /\ Len(screen) = pos - 1 /\ buf[pos - 1] = key
            /\ \A i \in 1 .. pos - 1 : screen[i] = buf[i - 1]
        BY <3>2 DEF EchoInv, ScreenInv, ShowsTo
      <4>2. screen' = Append(screen, key)
        BY <1>3, <3>2 DEF Echo
      <4> QED
        BY <1>t, <3>1, <4>1, <4>2
    <3>3. CASE pc["user"] = "erase"
      <4>1. Len(screen) = pos + 1 /\ \A i \in 1 .. pos : screen[i] = buf[i - 1]
        BY <3>3 DEF EchoInv, ScreenInv, ShowsTo
      <4>2. screen' = Front(screen)
        BY <1>3, <1>t, <3>3, <4>1 DEF Echo
      <4> QED
        BY <1>t, <3>1, <4>1, <4>2 DEF Front
    <3> QED
      BY <2>1, <3>2, <3>3
  <2> QED
    BY <2>3, <2>4, <2>5 DEF EchoInv
<1> QED
  BY <1>1, <1>2, <1>3

\* The first store of a key.
LEMMA EchoKey ==
    ASSUME ClientInv, EchoInv, GetChar
    PROVE  EchoInv'
<1> USE DEF Run, Go, Threads, Printers
<1> USE SizeAssumption
<1>t. ThreadTypeOK /\ EditorTypeOK /\ pos \in Index /\ pos \in Nat
  BY DEF ClientInv, ClientTypeOK, EditorTypeOK, Index
<1>1. PICK k \in KeySet :
        /\ key' = k
        /\ end_of_input' = Ends(k)
        /\ \/ Completes(k) /\ Complete /\ Edit /\ Go("user", "send")
           \/ Erases(k) /\ Erase /\ Edit /\ Go("user", "erase")
           \/ Adds(k) /\ Store(k) /\ Edit /\ Go("user", "nul")
           \/ /\ Go("user", IF Ends(k) THEN "copy" ELSE "getc")
              /\ UNCHANGED <<buf, pos, raced>>
  BY DEF GetChar
<1>2. UNCHANGED <<screen, out>> /\ pc["user"] = "getc"
  BY DEF GetChar
<1>3. /\ \A i \in 0 .. pos - 1 : buf[i] # Nul
      /\ buf[pos] = Nul
      /\ ~raced => Len(screen) = pos /\ \A i \in 1 .. pos : screen[i] = buf[i - 1]
  BY <1>2 DEF EchoInv, StringInv, ScreenInv, ShowsTo
<1>4. pc'["bg"] = pc["bg"]
  BY <1>1, <1>t DEF ThreadTypeOK
<1>5. ASSUME Edit PROVE BgInv' /\ (~raced' => ~raced)
  <2>1. ~raced' => ~raced /\ ~BgPrints
    BY <1>5, Zenon DEF Edit
  <2>2. BgPrints' = BgPrints
    BY <1>4 DEF BgPrints
  <2> QED
    BY <1>2, <1>4, <2>1, <2>2 DEF EchoInv, BgInv
<1>6. \A i \in 1 .. pos : i - 1 \in 0 .. pos - 1
  BY <1>t
<1>7. CASE Completes(k) /\ Complete /\ Edit /\ Go("user", "send")
  <2>1. pos' = pos /\ buf' = [buf EXCEPT ![pos] = Nul] /\ pc'["user"] = "send"
    BY <1>7, <1>t DEF Complete, ThreadTypeOK
  <2>2. buf' = buf
    BY <2>1, <1>3, <1>t DEF EditorTypeOK
  <2>3. StringInv' /\ PromptInv' /\ ScreenInv'
    BY <1>2, <1>3, <2>1, <2>2 DEF EchoInv, StringInv, PromptInv, ScreenInv
  <2> QED
    BY <1>5, <1>7, <2>3 DEF EchoInv
<1>8. CASE Erases(k) /\ Erase /\ Edit /\ Go("user", "erase")
  <2>1. pos > 0 /\ pos' = pos - 1 /\ buf' = [buf EXCEPT ![pos - 1] = Nul] /\ pc'["user"] = "erase"
    BY <1>8, <1>t DEF Erases, Erase, ThreadTypeOK
  <2>2. pos - 1 \in Nat /\ buf'[pos - 1] = Nul /\ \A i \in 0 .. pos - 2 : buf'[i] = buf[i]
    BY <2>1, <1>t DEF EditorTypeOK, Index
  <2>3. StringInv' /\ PromptInv'
    BY <1>2, <1>3, <1>t, <2>1, <2>2 DEF EchoInv, StringInv, PromptInv
  <2>4. ScreenInv'
    <3>1. \A i \in 1 .. pos - 1 : i \in 1 .. pos /\ i - 1 \in 0 .. pos - 2
      BY <1>t
    <3>2. ASSUME ~raced PROVE Len(screen) = pos' + 1 /\ \A i \in 1 .. pos' : screen[i] = buf'[i - 1]
      BY <1>t, <1>3, <2>1, <2>2, <3>1, <3>2
    <3> QED
      BY <1>2, <1>5, <1>8, <2>1, <3>2 DEF ScreenInv, ShowsTo
  <2> QED
    BY <1>5, <1>8, <2>3, <2>4 DEF EchoInv
<1>9. CASE Adds(k) /\ Store(k) /\ Edit /\ Go("user", "nul")
  <2>1. /\ k \in Letters /\ pos < MAXLINE - 1 /\ pos' = pos + 1
        /\ buf' = [buf EXCEPT ![pos] = k] /\ pc'["user"] = "nul"
    BY <1>9, <1>t DEF Adds, Store, ThreadTypeOK
  <2>2. /\ buf'[pos] = k /\ k # Nul
        /\ \A i \in 0 .. pos - 1 : buf'[i] = buf[i]
    BY <2>1, <1>t, NulAssumption DEF EditorTypeOK, Index
  <2>3. StringInv' /\ PromptInv'
    BY <1>2, <1>3, <1>t, <2>1, <2>2 DEF EchoInv, StringInv, PromptInv
  <2>4. ScreenInv'
    <3>1. pos' - 1 = pos
      BY <1>t, <2>1
    <3>2. ASSUME ~raced PROVE Len(screen) = pos /\ \A i \in 1 .. pos : screen[i] = buf'[i - 1]
      BY <1>t, <1>3, <1>6, <2>2, <3>2
    <3> QED
      BY <1>1, <1>2, <1>5, <1>9, <1>t, <2>1, <2>2, <3>1, <3>2 DEF ScreenInv, ShowsTo
  <2> QED
    BY <1>5, <1>9, <2>3, <2>4 DEF EchoInv
<1>10. CASE Go("user", IF Ends(k) THEN "copy" ELSE "getc") /\ UNCHANGED <<buf, pos, raced>>
  <2>1. pc'["user"] = IF Ends(k) THEN "copy" ELSE "getc"
    BY <1>10, <1>t DEF ThreadTypeOK
  <2>2. StringInv' /\ ScreenInv'
    BY <1>2, <1>10, <2>1 DEF EchoInv, StringInv, ScreenInv, ShowsTo
  <2>3. PromptInv'
    <3>1. pc'["user"] = "copy" => end_of_input'
      BY <1>1, <2>1
    <3> QED
      BY <1>2, <2>1, <3>1 DEF EchoInv, PromptInv
  <2>4. BgInv'
    BY <1>2, <1>4, <1>10, <2>1 DEF EchoInv, BgInv, BgPrints, ShowsTo
  <2> QED
    BY <2>2, <2>3, <2>4 DEF EchoInv
<1> QED
  BY <1>1, <1>7, <1>8, <1>9, <1>10

\* Every step preserves it.
LEMMA EchoStep ==
    ClientInv /\ ClientInv' /\ CancelInv /\ EchoInv /\ [Next]_vars => EchoInv'
<1> SUFFICES ASSUME ClientInv, ClientInv', CancelInv, EchoInv, [Next]_vars PROVE EchoInv'
  OBVIOUS
<1>1. CASE UNCHANGED vars
  BY <1>1 DEF vars, simpio, server, keys, hearing, EchoInv, StringInv, PromptInv, BgInv,
     ScreenInv, ShowsTo, BgPrints
<1>2. CASE Main
  BY <1>2, EchoQuiet
<1>3. CASE User
  BY <1>3, EchoQuiet, EchoCopy, EchoShow, EchoEdit DEF User, Printers
<1>4. CASE Background
  BY <1>4, EchoQuiet, EchoCopy, EchoShow DEF Background, Printers
<1>5. CASE GetChar \/ Read \/ Drain
  BY <1>5, EchoQuiet, EchoKey, EchoShow
<1> QED
  BY <1>1, <1>2, <1>3, <1>4, <1>5 DEF Next

\* The terminal shows what has been typed whenever the user may type, for lines of
\* every length, unless a print of the background thread has overlapped an edit of
\* the line: without the missing lock the editor would be right.
THEOREM EchoCorrect == Spec => []EchoExact
<1>1. Init => ClientInv /\ CancelInv /\ EchoInv
  BY InvInit, EchoInit DEF Init, CancelInv, Threads, Printers
<1>2. ClientInv /\ CancelInv /\ EchoInv /\ [Next]_vars => (ClientInv /\ CancelInv /\ EchoInv)'
  BY InvStep, CancelStep, EchoStep
<1>3. ClientInv /\ EchoInv => EchoExact
  BY EchoInvExact
<1> QED
  BY <1>1, <1>2, <1>3, PTL DEF Spec
=============================================================================
