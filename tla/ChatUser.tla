------------------------------ MODULE ChatUser ------------------------------
(***************************************************************************)
(* What bl_client promises to its user and to the server, without threads, *)
(* cancellation, a shared buffer or a FIFO: the lines the user completes   *)
(* are said, each once and in order; DEPARTED is said last and only when   *)
(* nothing is left to say; the client ends only after it has departed or   *)
(* has been told of the shutdown, unless it could not hear from the start, *)
(* or could not speak: then nothing is said, and the input may just end.   *)
(***************************************************************************)
EXTENDS Integers, Sequences, SequencesExt

CONSTANTS Letters, MAXLINE

Controls == {"back", "enter", "eot", "eof"}

VARIABLES
    typed,     \* the keys the user has pressed
    said,      \* the lines the server has been sent
    departed,  \* DEPARTED has been sent
    told,      \* SHUTDOWN has been read
    connected, \* the server's messages can be read at all
    linked,    \* the server can be written to at all
    ended      \* the client is gone, its terminal restored

vars == <<typed, said, departed, told, connected, linked, ended>>

\* The lines that a sequence of keys makes, by definition: letters beyond the
\* limit are ignored, and so are back and enter on an empty line; eot completes
\* a line, eof does not.
Pressed(e, k) ==
    CASE k \in Letters      -> IF Len(e.line) < MAXLINE - 1
                               THEN [e EXCEPT !.line = Append(@, k)] ELSE e
      [] k = "back"         -> IF e.line = <<>> THEN e ELSE [e EXCEPT !.line = Front(@)]
      [] e.line # <<>> /\ k \in {"enter", "eot"} ->
                               [line |-> <<>>, lines |-> Append(e.lines, e.line)]
      [] OTHER              -> e

Lines(keys) == FoldLeft(Pressed, [line |-> <<>>, lines |-> <<>>], keys).lines

Over(keys) == keys # <<>> /\ Last(keys) \in {"eot", "eof"}

Init ==
    /\ typed = <<>> /\ said = <<>>
    /\ departed = FALSE /\ told = FALSE /\ ended = FALSE
    /\ connected = TRUE /\ linked = TRUE

Fail ==
    /\ typed = <<>>
    /\ connected' \in {connected, FALSE}
    /\ linked' \in {linked, FALSE}
    /\ UNCHANGED <<typed, said, departed, told, ended>>

Press(k) ==
    /\ ~ended /\ ~departed /\ ~Over(typed)
    /\ typed' = Append(typed, k)
    /\ UNCHANGED <<said, departed, told, connected, linked, ended>>

Say ==
    /\ ~ended /\ ~departed /\ linked
    /\ said # Lines(typed)
    /\ said' = SubSeq(Lines(typed), 1, Len(said) + 1)
    /\ UNCHANGED <<typed, departed, told, connected, linked, ended>>

Depart ==
    /\ ~ended /\ ~departed /\ linked
    /\ Over(typed) /\ said = Lines(typed)
    /\ departed' = TRUE
    /\ UNCHANGED <<typed, said, told, connected, linked, ended>>

HearShutdown ==
    /\ ~ended /\ ~told
    /\ told' = TRUE
    /\ UNCHANGED <<typed, said, departed, connected, linked, ended>>

End ==
    /\ ~ended
    /\ departed \/ told \/ ~connected \/ (~linked /\ Over(typed))
    /\ ended' = TRUE
    /\ UNCHANGED <<typed, said, departed, told, connected, linked>>

Next ==
    \/ \E k \in Letters \cup Controls : Press(k)
    \/ Fail \/ Say \/ Depart \/ HearShutdown \/ End

Spec == Init /\ [][Next]_vars
=============================================================================
