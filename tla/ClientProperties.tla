-------------------------- MODULE ClientProperties --------------------------
(***************************************************************************)
(* What one bl_client should do: the properties of BlatherClient.          *)
(***************************************************************************)
EXTENDS BlatherClient

\* Every variable keeps to its values; pos never reaches the end of buf.
EditorTypeOK ==
    /\ buf \in [Index -> Letters \cup {Nul}]
    /\ pos \in Index
    /\ key \in KeySet /\ typed \in Seq(KeySet)
MainAt == {"setup", "create", "create2", "join", "join2", "ended", "crashed"}
UserAt == {"none", "reset", "copy", "write", "getc", "nul", "echo", "erase",
           "send", "cancel", "depart", "over"}
BgAt   == {"none", "read", "copy", "write", "cancel", "over"}
ThreadTypeOK ==
    /\ pc \in [Threads -> MainAt \cup UserAt \cup BgAt]
    /\ pc["main"] \in MainAt /\ pc["user"] \in UserAt /\ pc["bg"] \in BgAt
    /\ cancelled \subseteq Printers
    /\ out \in [Printers -> Seq(Letters)]
    /\ screen \in Seq(KeySet)
ServerTypeOK ==
    /\ said \in Seq(Seq(Letters)) /\ unread \in 0 .. PipeCap
    /\ heard \in Nat
FlagTypeOK ==
    /\ line_ready \in BOOLEAN /\ end_of_input \in BOOLEAN
    /\ departed \in BOOLEAN /\ told \in BOOLEAN /\ opened \in BOOLEAN /\ linked \in BOOLEAN
    /\ raw \in BOOLEAN /\ raced \in BOOLEAN
ClientTypeOK == EditorTypeOK /\ ThreadTypeOK /\ ServerTypeOK /\ FlagTypeOK

\* iprintf stops inside buf, between whatever stores of simpio_get_char it reads:
\* the last byte is never used for text, and a copy is no longer than buf.
ReadsStayInBuf ==
    /\ buf[MAXLINE - 1] = Nul
    /\ \A t \in Printers :
        /\ Len(out[t]) <= MAXLINE - 1
        /\ pc[t] = "copy" => \E i \in Len(out[t]) .. MAXLINE - 1 : buf[i] = Nul

\* While the user may type, the terminal shows what has been typed, unless a
\* print of the other thread overlapped an edit of this line.
AtPrompt == Alive /\ pc["user"] = "getc" /\ ~BgPrints
EchoExact == AtPrompt /\ ~raced => screen = TypedText

\* simpio.c:98: iprintf preserves the input that has been typed so far.
ScreenShowsInput == AtPrompt => screen = TypedText

User1 == INSTANCE ChatUser WITH
    connected <- opened,
    ended     <- pc["main"] = "ended"

\* The threads together keep the promise of ChatUser: the server is sent the
\* lines as typed, whatever is printed meanwhile, or none if its FIFO could not
\* be opened; DEPARTED comes last; the end of main is preceded by DEPARTED or
\* SHUTDOWN, or a FIFO was missing, however both threads cancel each other.
ImplementsUser == User1!Spec

\* The process is gone, and if it ended by itself its terminal is as before.
Gone == pc["main"] = "crashed" \/ (pc["main"] = "ended" /\ ~raw)

\* A SHUTDOWN that was read ends the client, also while the user thread is
\* blocked in fgetc or in the write to a server that reads no more, unless the
\* user thread has cancelled the reader first.
ShutdownEnds == told ~> (Gone \/ "bg" \in cancelled)

\* End of input ends the client unless the server's FIFO stays full, or the
\* background thread had not been created when it was to be cancelled.
EndOfInputEnds ==
    \/ <>[](unread = PipeCap)
    \/ (pc["user"] = "cancel" /\ pc["bg"] # "none") ~> Gone
=============================================================================
