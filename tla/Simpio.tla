------------------------------- MODULE Simpio -------------------------------
(***************************************************************************)
(* The line editor of simpio.c: the buffer that the client's two threads   *)
(* share, one store at a time, and the line of the terminal that shows it. *)
(***************************************************************************)
EXTENDS Integers, Sequences

CONSTANTS
    Letters,    \* the characters that are text
    Nul,        \* '\0'
    MAXLINE     \* size of buf

ASSUME NulAssumption  == Nul \notin Letters
ASSUME SizeAssumption == MAXLINE \in Nat \ {0}

VARIABLES
    buf, pos, line_ready, end_of_input,
    screen      \* what the terminal shows after the prompt

simpio == <<buf, pos, line_ready, end_of_input>>

Index == 0 .. MAXLINE - 1

\* The string in buf, which ends at the first '\0'.
StrLen    == CHOOSE n \in Index : buf[n] = Nul /\ \A i \in 0 .. n - 1 : buf[i] # Nul
TypedText == [i \in 1 .. StrLen |-> buf[i - 1]]

InitSimpio ==
    /\ buf = [i \in Index |-> Nul]
    /\ pos = 0
    /\ line_ready = FALSE
    /\ end_of_input = FALSE
    /\ screen = <<>>

simpio_reset ==
    /\ pos' = 0
    /\ buf' = [buf EXCEPT ![0] = Nul]
    /\ line_ready' = FALSE
    /\ end_of_input' = FALSE

\* simpio_get_char, from the branch on c to its first store.
Ends(k)      == k \in {"eot", "eof"}
Completes(k) == k \in {"enter", "eot"} /\ pos > 0
Erases(k)    == k = "back" /\ pos > 0

\* Slip: the last byte of buf is used for text as well.
AddsUpToTheEnd(k) == k \in Letters /\ pos < MAXLINE

Adds(k) == k \in Letters /\ pos < MAXLINE - 1

Complete ==
    /\ buf' = [buf EXCEPT ![pos] = Nul]
    /\ line_ready' = TRUE
    /\ UNCHANGED pos

Erase ==
    /\ pos' = pos - 1
    /\ buf' = [buf EXCEPT ![pos - 1] = Nul]
    /\ UNCHANGED line_ready

\* Between this store and the next one the text has no end of its own: what an
\* earlier, longer line left behind it belongs to the string.
Store(k) ==
    /\ buf' = [buf EXCEPT ![pos] = k]
    /\ pos' = pos + 1
    /\ UNCHANGED line_ready

\* Slip: the new end of the text is not marked.
TerminateNot == UNCHANGED simpio

Terminate ==
    /\ buf' = [buf EXCEPT ![pos] = Nul]
    /\ UNCHANGED <<pos, line_ready, end_of_input>>
=============================================================================
