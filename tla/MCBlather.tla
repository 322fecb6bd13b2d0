----------------------------- MODULE MCBlather -----------------------------
(***************************************************************************)
(* Instances of BlatherServer for TLC: who runs the client, under which    *)
(* name.                                                                   *)
(***************************************************************************)
EXTENDS BlatherProperties, TLC

\* Every run of bl_client has a name of its own; the processes themselves
\* serve as names.
OwnName == [c \in Clients |-> c]

\* Every run of bl_client has the same name: a user who leaves and comes back.
SameName == [c \in Clients |-> CHOOSE n \in Names : TRUE]

\* One user has a name of its own, the other processes share one.
One       == CHOOSE c \in Clients : TRUE
NameOfOne == CHOOSE n \in Names : TRUE
OneApart  == [c \in Clients |->
                IF c = One THEN NameOfOne ELSE CHOOSE n \in Names : n # NameOfOne]

\* The user comes back (an action constraint of some runs): a client is started under a name only when no other
\* process of that name is running any more.
ComesBack ==
    \A c, d \in Clients :
        st[c] = "new" /\ st'[c] # "new" /\ c # d /\ NameOf[c] = NameOf[d]
          => st[d] \in {"new", "exited", "gone"}

Symmetry      == Permutations(Clients)
SymmetryApart == {p \in Symmetry : p[One] = One}
=============================================================================
