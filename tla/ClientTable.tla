---------------------------- MODULE ClientTable ----------------------------
(***************************************************************************)
(* The array server->client[0 .. n_clients-1] of blather's server, as the  *)
(* sequence of its used slots: n_clients is the length, and C index i is   *)
(* position i + 1.  The operators are what server_add_client and           *)
(* server_remove_client do to the array; they say nothing about the file   *)
(* descriptors and the FIFO files, which BlatherServer models.             *)
(* A "slip" is a plausible mistake in the definition after it, which some  *)
(* property has to notice.                                                 *)
(***************************************************************************)
EXTENDS Integers, Sequences

\* server_add_client stores the new record in slot n_clients.
AddEntry(table, entry) == Append(table, entry)

\* Slips: the loop always starts at slot 0; the loop is missing.
RemoveEntryAtFirst(table, idx) == [k \in 1 .. Len(table) - 1 |-> table[k + 1]]
RemoveEntryAtEnd(table, idx)   == [k \in 1 .. Len(table) - 1 |-> table[k]]

\* The loop of server_remove_client assigns client[idx] := client[idx+1] once
\* per later slot.  Its index variable is never used in the body, so after
\* the loop only slot idx has changed (to its successor, if there is one);
\* n_clients is then decremented, which drops the last slot.
RemoveEntry(table, idx) ==
    [k \in 1 .. Len(table) - 1 |->
        IF k = idx THEN table[idx + 1] ELSE table[k]]

\* Slip: the flag is left set.
ClearFlagForgotten(table, idx) == table

\* data_ready = 0 for slot idx; an index past n_clients hits no used slot.
ClearFlag(table, idx) ==
    [k \in 1 .. Len(table) |->
        IF k = idx THEN [table[k] EXCEPT !.data_ready = FALSE] ELSE table[k]]

\* The reference: the table without slot idx, the others in their order.
Without(table, idx) ==
    [k \in 1 .. Len(table) - 1 |->
        IF k < idx THEN table[k] ELSE table[k + 1]]

\* At most one slot follows idx: the one case in which the loop is right.
ShiftIsShort(table, idx) == Len(table) - idx <= 1
=============================================================================
