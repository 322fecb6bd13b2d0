---------------------------- MODULE BlatherClient ----------------------------
(***************************************************************************)
(* One running bl_client: main, the user thread, the background thread,    *)
(* the line editor they share and pthread_cancel, which is a request that  *)
(* its target obeys at its next call that waits or writes.                 *)
(***************************************************************************)
EXTENDS Simpio, SequencesExt

CONSTANTS
    MaxKeys,    \* bound: keys pressed
    MaxHeard,   \* bound: messages read before SHUTDOWN
    PipeCap     \* messages that the toServer FIFO holds

ASSUME CapAssumption  == PipeCap \in Nat
ASSUME KeysAssumption == Letters \cap {"back", "enter", "eot", "eof"} = {}

VARIABLES
    pc,         \* [Threads -> where each is]
    cancelled,  \* threads with a cancellation request pending
    out,        \* [Printers -> the copy of buf made by its iprintf so far]
    key,        \* c of simpio_get_char
    typed,      \* the keys read so far
    said,       \* the lines written to the server
    departed,   \* DEPARTED has been written
    unread,     \* messages in the toServer FIFO
    heard,      \* messages read
    told,       \* SHUTDOWN has been read
    opened,     \* open() of the toClient FIFO has worked
    linked,     \* open() of the toServer FIFO has worked
    raw,        \* the terminal is in non-canonical mode
    raced       \* history: a print of the background thread has overlapped an edit

server  == <<said, departed, unread>>
keys    == <<key, typed>>
hearing == <<heard, told, opened, linked>>
vars    == <<simpio, screen, pc, cancelled, out, server, keys, hearing, raw, raced>>

Printers == {"user", "bg"}
Threads  == Printers \cup {"main"}
KeySet   == Letters \cup {"back", "enter", "eot", "eof"}

Init ==
    /\ InitSimpio
    /\ pc = [t \in Threads |-> IF t = "main" THEN "setup" ELSE "none"]
    /\ cancelled = {}
    /\ out = [t \in Printers |-> <<>>]
    /\ key = "eof" /\ typed = <<>>
    /\ said = <<>> /\ departed = FALSE /\ unread = 0
    /\ heard = 0 /\ told = FALSE /\ opened = TRUE /\ linked = TRUE
    /\ raw = FALSE /\ raced = FALSE

Alive == pc["main"] \notin {"ended", "crashed"}

\* A thread makes a call where a pending cancellation would be obeyed.
Call(t, at)     == Alive /\ pc[t] = at /\ t \notin cancelled
Run(t, at)      == Alive /\ pc[t] = at
Go(t, to)       == pc' = [pc EXCEPT ![t] = to]
BgPrints        == pc["bg"] \in {"copy", "write"}
Edit            == raced' = (raced \/ BgPrints)

-----------------------------------------------------------------------------
(* main *)

\* main up to the join request.  An open() fails when a server has unlinked the
\* path after mkfifo(), as BlatherServer says.  Neither is asked.
Setup ==
    /\ Run("main", "setup")
    /\ simpio_reset
    /\ raw' = TRUE
    /\ opened' \in BOOLEAN /\ linked' \in BOOLEAN
    /\ Go("main", "create")
    /\ UNCHANGED <<screen, cancelled, out, server, keys, heard, told, raced>>

CreateUser ==
    /\ Run("main", "create")
    /\ pc' = [pc EXCEPT !["main"] = "create2", !["user"] = "reset"]
    /\ UNCHANGED <<simpio, screen, cancelled, out, server, keys, hearing, raw, raced>>

CreateBackground ==
    /\ Run("main", "create2")
    /\ pc' = [pc EXCEPT !["main"] = "join", !["bg"] = "read"]
    /\ UNCHANGED <<simpio, screen, cancelled, out, server, keys, hearing, raw, raced>>

\* Slip: main does not wait for the user thread.
JoinUserNot ==
    /\ Run("main", "join")
    /\ Go("main", "join2")
    /\ UNCHANGED <<simpio, screen, cancelled, out, server, keys, hearing, raw, raced>>

JoinUser ==
    /\ Run("main", "join")
    /\ pc["user"] = "over"
    /\ Go("main", "join2")
    /\ UNCHANGED <<simpio, screen, cancelled, out, server, keys, hearing, raw, raced>>

\* Then the terminal is restored and main returns.
JoinBackground ==
    /\ Run("main", "join2")
    /\ pc["bg"] = "over"
    /\ Go("main", "ended")
    /\ raw' = FALSE
    /\ UNCHANGED <<simpio, screen, cancelled, out, server, keys, hearing, raced>>

-----------------------------------------------------------------------------
(* Cancellation *)

\* The thread ids of pthread_cancel: before pthread_create has set one it is 0,
\* after pthread_join it is stale.  Both are undefined: a library may fault, or
\* do nothing.
Cancel(t, valid, from, to) ==
    \/ /\ valid
       /\ cancelled' = IF pc[t] = "over" THEN cancelled ELSE cancelled \cup {t}
       /\ Go(from, to)
    \/ /\ ~valid
       /\ UNCHANGED cancelled
       /\ Go(from, to) \/ Go("main", "crashed")

ObeysAt ==
    [user |-> {"write", "getc", "echo", "erase", "send", "depart"},
     bg   |-> {"read", "write"}]

ObeyCancel(t) ==
    /\ Alive
    /\ t \in cancelled
    /\ pc[t] \in ObeysAt[t]
    /\ Go(t, "over")
    /\ UNCHANGED <<simpio, screen, cancelled, out, server, keys, hearing, raw, raced>>

-----------------------------------------------------------------------------
(* iprintf, by either thread *)

\* "%s" of buf, one byte after the other.
Copy(t) ==
    /\ Run(t, "copy")
    /\ LET c == buf[Len(out[t])]
       IN  IF c = Nul THEN Go(t, "write") /\ UNCHANGED out
                      ELSE out' = [out EXCEPT ![t] = Append(@, c)] /\ UNCHANGED pc
    /\ UNCHANGED <<simpio, screen, cancelled, server, keys, hearing, raw, raced>>

\* The line is erased, the message goes above it, then prompt and text.
Show(t) == screen' = out[t] /\ out' = [out EXCEPT ![t] = <<>>]

\* user_worker prints a prompt, or that it departs.
UserPrint ==
    /\ Call("user", "write")
    /\ Show("user")
    /\ Go("user", IF end_of_input THEN "cancel" ELSE "getc")
    /\ UNCHANGED <<simpio, cancelled, server, keys, hearing, raw, raced>>

BgPrint ==
    /\ Call("bg", "write")
    /\ Show("bg")
    /\ Go("bg", IF told THEN "cancel" ELSE "read")
    /\ UNCHANGED <<simpio, cancelled, server, keys, hearing, raw, raced>>

-----------------------------------------------------------------------------
(* The user thread *)

Reset ==
    /\ Run("user", "reset")
    /\ simpio_reset
    /\ raced' = BgPrints
    /\ Go("user", "copy")
    /\ UNCHANGED <<screen, cancelled, out, server, keys, hearing, raw>>

\* fgetc, and what follows up to the first store that the other thread can see.
\* A key that stdio has buffered is returned even to a cancelled thread.
GetChar ==
    /\ Run("user", "getc")
    /\ Len(typed) < MaxKeys
    /\ \E k \in KeySet :
        /\ key' = k
        /\ typed' = Append(typed, k)
        /\ end_of_input' = Ends(k)
        /\ \/ Completes(k) /\ Complete /\ Edit /\ Go("user", "send")
           \/ Erases(k) /\ Erase /\ Edit /\ Go("user", "erase")
           \/ Adds(k) /\ Store(k) /\ Edit /\ Go("user", "nul")
           \/ /\ ~Completes(k) /\ ~Erases(k) /\ ~Adds(k)
              /\ Go("user", IF Ends(k) THEN "copy" ELSE "getc")
              /\ UNCHANGED <<buf, pos, line_ready, raced>>
    /\ UNCHANGED <<screen, cancelled, out, server, hearing, raw>>

MarkEnd ==
    /\ Run("user", "nul")
    /\ Terminate
    /\ Edit
    /\ Go("user", "echo")
    /\ UNCHANGED <<screen, cancelled, out, server, keys, hearing, raw>>

\* fputc of the letter, or "\b \b".
Echo ==
    /\ \/ Call("user", "echo") /\ screen' = Append(screen, key)
       \/ Call("user", "erase") /\ screen' = IF screen = <<>> THEN screen ELSE Front(screen)
    /\ Edit
    /\ Go("user", "getc")
    /\ UNCHANGED <<simpio, cancelled, out, server, keys, hearing, raw>>

\* write(to_server_fd): it blocks while the FIFO is full, and fails at once, unseen,
\* if there is none.
Written == linked /\ unread < PipeCap /\ unread' = unread + 1
Lost    == ~linked /\ UNCHANGED server

\* The line goes to the server.
Send ==
    /\ Call("user", "send")
    /\ \/ Written /\ said' = Append(said, TypedText) /\ UNCHANGED departed
       \/ Lost
    /\ Go("user", IF end_of_input THEN "copy" ELSE "reset")
    /\ UNCHANGED <<simpio, screen, cancelled, out, keys, hearing, raw, raced>>

\* Slip: the background thread is not cancelled.
CancelBackgroundNot ==
    /\ Run("user", "cancel")
    /\ Go("user", "depart")
    /\ UNCHANGED <<simpio, screen, cancelled, out, server, keys, hearing, raw, raced>>

\* pthread_cancel(background_thread), which main may not have created yet.
CancelBackground ==
    /\ Run("user", "cancel")
    /\ Cancel("bg", pc["bg"] # "none", "user", "depart")
    /\ UNCHANGED <<simpio, screen, out, server, keys, hearing, raw, raced>>

Depart ==
    /\ Call("user", "depart")
    /\ \/ Written /\ departed' = TRUE /\ UNCHANGED said
       \/ Lost
    /\ Go("user", "over")
    /\ UNCHANGED <<simpio, screen, cancelled, out, keys, hearing, raw, raced>>

-----------------------------------------------------------------------------
(* The background thread *)

\* read(to_client_fd): any message may be next.
Read ==
    /\ Call("bg", "read")
    /\ opened
    /\ told' \in BOOLEAN
    /\ heard < MaxHeard \/ told'
    /\ heard' = heard + 1
    /\ raced' = (raced \/ pc["user"] \in {"nul", "echo", "erase"})
    /\ Go("bg", "copy")
    /\ UNCHANGED <<simpio, screen, cancelled, out, server, keys, opened, linked, raw>>

ReadFails ==
    /\ Call("bg", "read")
    /\ ~opened
    /\ Go("bg", "cancel")
    /\ UNCHANGED <<simpio, screen, cancelled, out, server, keys, hearing, raw, raced>>

\* Slip: the thread ends without a word to the user thread.
CancelUserNot ==
    /\ Run("bg", "cancel")
    /\ Go("bg", "over")
    /\ UNCHANGED <<simpio, screen, cancelled, out, server, keys, hearing, raw, raced>>

\* pthread_cancel(user_thread), which main may have joined already.
CancelUser ==
    /\ Run("bg", "cancel")
    /\ Cancel("user", pc["main"] # "join2", "bg", "over")
    /\ UNCHANGED <<simpio, screen, out, server, keys, hearing, raw, raced>>

\* The server takes a message from the FIFO.
Drain ==
    /\ unread > 0
    /\ unread' = unread - 1
    /\ UNCHANGED <<simpio, screen, pc, cancelled, out, said, departed, keys, hearing, raw, raced>>

Main == Setup \/ CreateUser \/ CreateBackground \/ JoinUser \/ JoinBackground
User == Reset \/ Copy("user") \/ UserPrint \/ MarkEnd \/ Echo \/ Send
          \/ CancelBackground \/ Depart \/ ObeyCancel("user")
Background == Copy("bg") \/ BgPrint \/ ReadFails \/ CancelUser \/ ObeyCancel("bg")

Next == Main \/ User \/ Background \/ GetChar \/ Read \/ Drain

Spec == Init /\ [][Next]_vars

\* The threads run; the user need not type, the server need not send or read.
Fairness == WF_vars(Main) /\ WF_vars(User) /\ WF_vars(Background)
FairSpec == Spec /\ Fairness
=============================================================================
