------------------------------ MODULE ChatRoom ------------------------------
(***************************************************************************)
(* What a blather server promises to its users, without descriptors,       *)
(* FIFOs, an array of clients or a loop over it.  A broadcast is one step:  *)
(* everyone in the room is due the same message at the same moment, so all *)
(* of them see the same messages in the same order, from their own JOINED  *)
(* to their own DEPARTED or to SHUTDOWN.                                   *)
(***************************************************************************)
EXTENDS Integers, Sequences

CONSTANTS Clients, None

VARIABLES
    room,     \* "new", then "open", then "over"
    lobby,    \* who has asked to join and has not been admitted
    members,  \* who is in the room
    parting,  \* the members whose DEPARTED has been passed on
    said,     \* what each client has written and the room has not taken up
    due,      \* what each client is owed and has not read
    sent,     \* lines each client has written so far
    alive     \* whose process may still read

vars == <<room, lobby, members, parting, said, due, sent, alive>>

Message(kind, c, n) == [kind |-> kind, from |-> c, n |-> n]

Init ==
    /\ room = "new"
    /\ lobby = <<>>
    /\ members = {}
    /\ parting = {}
    /\ said = [c \in Clients |-> <<>>]
    /\ due  = [c \in Clients |-> <<>>]
    /\ sent = [c \in Clients |-> 0]
    /\ alive = [c \in Clients |-> TRUE]

\* Everyone in the set r is owed m from now on.
Tell(r, m) == due' = [c \in Clients |-> IF c \in r THEN Append(due[c], m) ELSE due[c]]

Open ==
    /\ room = "new"
    /\ room' = "open"
    /\ UNCHANGED <<lobby, members, parting, said, due, sent, alive>>

Ask(c) ==
    /\ room = "open"
    /\ lobby' = Append(lobby, c)
    /\ UNCHANGED <<room, members, parting, said, due, sent, alive>>

\* Requests are granted in their order, and the newcomer sees its own JOINED.
Admit ==
    /\ room = "open"
    /\ lobby # <<>>
    /\ lobby' = Tail(lobby)
    /\ members' = members \cup {Head(lobby)}
    /\ Tell(members', Message("JOINED", Head(lobby), 0))
    /\ UNCHANGED <<room, parting, said, sent, alive>>

Say(c) ==
    /\ alive[c]
    /\ sent' = [sent EXCEPT ![c] = @ + 1]
    /\ said' = [said EXCEPT ![c] = Append(@, Message("MESG", c, sent'[c]))]
    /\ UNCHANGED <<room, lobby, members, parting, due, alive>>

Goodbye(c) ==
    /\ alive[c]
    /\ said' = [said EXCEPT ![c] = Append(@, Message("DEPARTED", c, 0))]
    /\ UNCHANGED <<room, lobby, members, parting, due, sent, alive>>

\* The oldest thing a member said is passed on to everyone, and never again.
Relay(c) ==
    /\ room = "open"
    /\ c \in members
    /\ said[c] # <<>>
    /\ Tell(members, Head(said[c]))
    /\ said' = [said EXCEPT ![c] = Tail(@)]
    /\ parting' = IF Head(said[c]).kind = "DEPARTED" THEN parting \cup {c} ELSE parting
    /\ UNCHANGED <<room, lobby, members, sent, alive>>

\* What c is owed or has said is gone with the last process that holds it.
Dropped(c) ==
    /\ said' = [said EXCEPT ![c] = <<>>]
    /\ due'  = [due  EXCEPT ![c] = <<>>]

\* A member whose DEPARTED has been passed on is let go.
Leave(c) ==
    /\ c \in members \cap parting
    /\ members' = members \ {c}
    /\ parting' = parting \ {c}
    /\ IF alive[c] THEN UNCHANGED <<said, due>> ELSE Dropped(c)
    /\ UNCHANGED <<room, lobby, sent, alive>>

Read(c) ==
    /\ alive[c]
    /\ due[c] # <<>>
    /\ due' = [due EXCEPT ![c] = Tail(@)]
    /\ UNCHANGED <<room, lobby, members, parting, said, sent, alive>>

\* A process ends.  What it said and was owed stays for as long as it is a
\* member; while the room closes, both may go now or later.
End(c) ==
    /\ alive[c]
    /\ alive' = [alive EXCEPT ![c] = FALSE]
    /\ \/ c \in members /\ UNCHANGED <<said, due>>
       \/ c \notin members /\ Dropped(c)
       \/ room = "over" /\ UNCHANGED <<said, due>>
       \/ room = "over" /\ due' = [due EXCEPT ![c] = Tail(@)] /\ UNCHANGED said
    /\ UNCHANGED <<room, lobby, members, parting, sent>>

Forget(c) ==
    /\ room = "over"
    /\ ~alive[c]
    /\ Dropped(c)
    /\ UNCHANGED <<room, lobby, members, parting, sent, alive>>

\* Every member is told; nobody is admitted or relayed any more.
Close ==
    /\ room = "open"
    /\ room' = "over"
    /\ Tell(members, Message("SHUTDOWN", None, 0))
    /\ members' = {}
    /\ lobby' = <<>>
    /\ UNCHANGED <<parting, said, sent, alive>>

Next ==
    \/ Open \/ Admit \/ Close
    \/ \E c \in Clients :
        Ask(c) \/ Say(c) \/ Goodbye(c) \/ Relay(c) \/ Leave(c) \/ Read(c) \/ End(c) \/ Forget(c)

Spec == Init /\ [][Next]_vars
=============================================================================
