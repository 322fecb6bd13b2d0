# Blather and Commando in TLA+

The repository holds two C programs of an operating-systems course:

* **project-2, blather**: a chat server (`bl_server.c`, `server_funcs.c`) and
  its client (`bl_client.c`, `simpio.c`), separate processes that talk through
  FIFOs in the file system;
* **project-1, commando**: a small job-running shell (`commando.c`, `cmd.c`,
  `cmdcol.c`).

Paths below are relative to `src/project-2/` unless they say otherwise.

## 1. Inventory

| component | state | operations | talks to |
|---|---|---|---|
| server (`bl_server.c`, `server_funcs.c`) | `KEEP_GOING`, `join_ready`, `client[]`/`n_clients` with names, two descriptors and `data_ready` each; the process's descriptor table | `server_start`, `server_check_sources`, `server_handle_join`/`server_add_client`, `server_handle_client`, `server_broadcast`, `server_remove_client`, `server_shutdown`, `sig_handle` | clients, through the join FIFO and two FIFOs per client; the file system (mkfifo, open, unlink) |
| array of clients (`server_funcs.c:71-72`, `88-98`) | used slots in their order | append, remove with a shift | server |
| client (`bl_client.c`) | its two descriptors, `main` and two threads with their ids | mkfifo and open both FIFOs, ask to join, create and join the threads; send a line, depart, read a message, cancel the other thread | server; its threads each other, by `pthread_cancel` and `simpio` |
| line editor (`simpio.c`) | `buf`, `pos`, `line_ready`, `end_of_input`, shared by the client's two threads without a lock; the terminal's mode | `simpio_get_char`, `simpio_reset`, `iprintf` | client |
| utilities (`util.c`) | none | logging, sleeping | all |
| job (`project-1/cmd.c`) | `pid`, pipe, `finished`, `status`, `output` | `cmd_new`, `cmd_start`, `cmd_update_state`, `read_all`, `cmd_fetch_output`, `cmd_free` | kernel: fork, pipe, waitpid |
| job list (`project-1/cmdcol.c`) | array of jobs, `size` | add, update all, free all | jobs |
| shell (`project-1/commando.c`) | the line, its tokens | one line: built-in or job | job list |

What is hard here, and what makes each component correct:

* **Server.** One thread, but between any two of its system calls any client
  may create, open, fill, drain or drop a FIFO, or die. The calls block:
  `poll` without a timeout, `read` of an empty FIFO and `write` to a full one
  (the server opens every FIFO `O_RDWR`, so it never sees end of file or
  `EPIPE`). Correct means: the table and the descriptors in it stay exact, no
  descriptor leaks, a read happens only where a message waits, all members see
  one order of messages, none is lost or doubled, no member is dropped while
  it is in the chat, joins are served, the loop goes on, a signal ends it.
* **Array of clients.** Removal must drop one slot and keep the order; loops
  that remove must get the index right.
* **Client.** Both FIFOs must exist and be open before the server is asked;
  the end of input and SHUTDOWN race for the two threads, which cancel each
  other through ids that may not be set yet or not be valid any more. Correct
  means: the lines are sent as typed, once and in order, DEPARTED last; the
  client ends after either, and only then.
* **Line editor.** One thread edits `buf` while the other prints it, byte after
  byte. Correct means: nothing is read or written outside the arrays, and the
  terminal shows what is in `buf`.
* **Commando.** fork, pipe and waitpid in the right order, several jobs that end
  in any order, output longer than the buffer and than the pipe, descriptors
  closed once, calls that fail unnoticed. Correct means: each job has its own
  output and status, complete; the caller's descriptors are those of its jobs;
  waiting ends.

`PROJECT.json` lists the hazards line by line with the properties that cover
them, or why none does.

## 2. Modules

| module | what it is |
|---|---|
| `ClientTable` | the array of clients as a sequence: `AddEntry`, `RemoveEntry` (what the loop at `server_funcs.c:90-93` really does), `ClearFlag`; the reference `Without` |
| `BlatherServer` | server, FIFOs, signal and client processes: the state machine |
| `BlatherProperties` | everything claimed of it |
| `ChatRoom` | abstract specification of the server: what the users are promised, without descriptors, FIFOs, arrays and loops |
| `MCBlather` | instances for TLC: naming schemes, symmetry, the constraint of a user who comes back |
| `BlatherServerProofs` | TLAPS: types, descriptors, order of the table |
| `BlatherTableProofs` | TLAPS: whose slot a slot is, admissions that fail |
| `BlatherJoinProofs` | TLAPS: a client's FIFOs from `mkfifo` to its admission |
| `BlatherFlowProofs` | TLAPS: messages, flags, departures, the loop of `server_shutdown` |
| `BlatherRoomProofs` | TLAPS: `BlatherServer` implements `ChatRoom` |
| `Simpio` | `buf` and what the calls of `simpio.c` do to it, store by store |
| `BlatherClient` | one client process: `main`, the user thread, the background thread, cancellation, the line editor between them |
| `ClientProperties` | everything claimed of it |
| `ChatUser` | abstract specification of the client: what it promises its user and the server |
| `BlatherClientProofs` | TLAPS: buffer, cancellation and terminal of `BlatherClient` |
| `BlatherUserProofs` | TLAPS: `BlatherClient` implements `ChatUser` |
| `Jobs` | `cmd.c` and `cmdcol.c` in a process that calls them, the commands, their pipes, the descriptors; `main` of commando |
| `JobProperties` | everything claimed of it |
| `JobProofs` | theorems about `Jobs`, checked by TLAPS |

`MCBlather` and `BlatherServerProofs` extend `BlatherProperties`, which extends
`BlatherServer`, which extends `ClientTable`; `BlatherProperties` instantiates
`ChatRoom` with the refinement mapping. The proofs about the server are a chain,
each module extending the one before it in the table. `BlatherUserProofs` extends
`BlatherClientProofs`, which extends `ClientProperties`, which extends `BlatherClient`, which extends `Simpio`;
`ClientProperties` instantiates `ChatUser`. `JobProofs` extends `JobProperties`,
which extends `Jobs`. The client of `BlatherServer` and `BlatherClient` are one
program at two grains: the former has what the server can notice, for several
clients; the latter has everything that happens inside one.

Each module defines, before some of its operators, a *slip*: a plausible mistake
in that operator. No slip is part of the specification. `PROJECT.json` pairs
each checked property with the slip that breaks it in that run.

## 3. How the model corresponds to the code

### Server (`BlatherServer`)

| variable | code |
|---|---|
| `pc`, `idx`, `next`, `mesg` | where the server is; `i` of the loops in `main` and `server_shutdown`; `i` and the argument of `server_broadcast` |
| `KEEP_GOING`, `join_ready`, `client` | the variables of those names; C index `i` is position `i+1`, `n_clients` is `Len(client)` |
| `fds` | the server's descriptor table, from 4 up to the limit (3 is `join_fd`) |
| `joinFile`, `joinQ` | the path `<server>.fifo` (`stale`: no server reads it) and the requests in it |
| `link` | which inode the path of a client FIFO names |
| `buf` | the messages in each inode |
| `st`, `hand`, `sent` | how far each client process is, what its two descriptors refer to, lines typed |
| `clean` | history: no removal so far had two or more slots after it |

A FIFO is an inode: it outlives its path while somebody has it open, a new
`mkfifo` of the same path makes another one, and its content is gone when the
last descriptor closes (`Kept`). `write` of `mesg_t` (1284 bytes) and `join_t`
(3072) is below `PIPE_BUF`, so each read and write is atomic and moves one
message. The join FIFO holds 16 requests; each process writes one, and the
instances have at most three, so that it is not bounded in the model.

The server is `start -> loop -> poll -> join -> scan -> loop ...`; `bcast` is
inside `server_broadcast`, `unlink` is inside `server_remove_client`, `shut` is
`server_shutdown`'s loop, `done` the end.

| action | code |
|---|---|
| `ServerStart` | `server_start`, 16-29 |
| `NextRound`, `ShutdownStart` | `while(KEEP_GOING)`, `bl_server.c:37`; `server_shutdown`, 32-41 |
| `Signal` | `sig_handle`, and its effect on `poll` (`-1`, no flag set) |
| `CheckSources` | `server_check_sources`, 110-152. A closed descriptor makes `poll` return with `POLLNVAL` and no flag; `-1` is ignored by `poll` |
| `SkipJoin`, `HandleJoin`, `JoinDone` | `bl_server.c:40-42`, `server_handle_join`, 160-185, with `server_add_client`, 51-77 |
| `SkipClient`, `HandleClient`, `MesgDone`, `EndScan` | `bl_server.c:43-48`, `server_handle_client`, 202-234 |
| `WriteOne` | one `write` of `server_broadcast`, 105-107 |
| `DepartClient`, `RemoveDeparted` | `server_handle_client`, 219-222 and 230, with `server_remove_client`, 79-99, in two halves |
| `ShutdownLoop`, `ShutdownClose`, `ShutdownRemove`, `ServerExit` | `server_shutdown`, 42-45; return from `main` |
| `MkfifoToClient` ... `OpenToServer`, `Join` | `bl_client.c:112-132` |
| `Send`, `EndOfInput`, `Depart`, `Exit` | `user_worker`, 14-44, end of `main` |
| `Recv`, `RecvFails` | `background_worker`, 45-80 |
| `Kill` | the process dies |

An action ends at a call that may block or where another process can see the
difference. These pairs of calls are one action, because nothing between them
can be observed to differ: the `read` of a join request and the two `open`s of
`server_add_client` (a client that changes its FIFOs in between could as well
have done so before the read: no client action reads `joinQ`'s head or `fds`);
`open` and `write` of the join FIFO by a client; the two `close`s and the first
`unlink` of `server_remove_client`. Its two `unlink`s are *not* one action: a
client that comes back can get between them, and the run `bad_rejoin` needs it.

`client[idx].data_ready = 0` after a removal hits the slot that followed, or
none; the model does the same (`RemoveDeparted`). `read` of a descriptor that
is closed or `-1` returns `-1`; `nread == 0` is then false and the message is
all zeros, whose kind matches neither branch (`HandleClient`, first disjunct).

The client's threads are merged here: at `in` the user thread may `Send` or
reach `EndOfInput`, the background thread may `Recv`; `EndOfInput` stops the
background thread at once, and a `SHUTDOWN` that is read stops the user thread
at once. What two threads may do more than that is in `BlatherClient`: after
`SHUTDOWN` was read the user thread may still write a line or DEPARTED to a
server that has closed the FIFO, and after the end of input the background
thread may still read what it was sent. The server is over in the first case, and
nothing that it can see differs in the second.

### Client and line editor (`BlatherClient`, `Simpio`)

| variable | code |
|---|---|
| `buf`, `pos`, `line_ready`, `end_of_input` | fields of `simpio_t`; C index `i` is index `i` |
| `pc` | where each of the three threads is |
| `cancelled` | threads with a `pthread_cancel` pending |
| `out` | the part of `buf` that the thread's `iprintf` has copied into its array |
| `key` | `c` of `simpio_get_char` |
| `opened`, `linked`, `told` | `open` of the toClient FIFO worked, that of the toServer FIFO; SHUTDOWN was read |
| `unread` | messages in the toServer FIFO, written and not yet read by the server |
| `raw` | `simpio_noncanonical_terminal_mode` has been called, `simpio_reset_terminal_mode` has not |
| `typed`, `said`, `departed`, `heard` | history: keys, lines written, DEPARTED written, messages read |
| `raced` | history: a print of the background thread has overlapped an edit of this line |
| `screen` | what the terminal shows after the prompt |

| action | code |
|---|---|
| `Setup`, `CreateUser`, `CreateBackground`, `JoinUser`, `JoinBackground` | `main`, `bl_client.c:82-140`; the thread exists, and may run, before `pthread_create` returns |
| `Reset` | `simpio_reset`, 16-18 |
| `Copy(t)`, `UserPrint`, `BgPrint` | `iprintf`: `%s` of `buf` one byte at a time, then `write` |
| `GetChar` | `fgetc` and the branch taken on it, up to its first store |
| `MarkEnd`, `Echo` | the second store of a letter; `fputc` of a letter or of `\b \b` |
| `Send`, `CancelBackground`, `Depart` | `user_worker`, 21-43; `write` blocks while the FIFO is full (`Written`), and fails at once, unseen, on descriptor -1 (`Lost`) |
| `Read`, `ReadFails`, `CancelUser` | `background_worker`, 45-80 |
| `ObeyCancel(t)` | a thread with a request pending ends at a call that is a cancellation point (`ObeysAt`) |
| `Drain` | the server reads |

Threads interleave at each store to `buf` and at each load of it: there is no
lock, so that a print can read `buf` between the two stores of a letter, where
the text has no end of its own. The stores `buf[pos]` and `pos++` of a letter are
one step, since `iprintf` does not read `pos`. `pthread_cancel` of a thread
that has ended and has not been joined is without effect. Of an id that
`pthread_create` has not set yet, or that `pthread_join` has released, POSIX
leaves the effect undefined: the model takes both outcomes there are in
practice, nothing (`Go(from, to)`) or the end of the process (`crashed`). A
cancelled thread that finds keys already buffered gets another key
(`GetChar` is not guarded): `fgetc` is a cancellation point only when it reads.
Either `open` of `Setup` may fail: `BlatherServer` has the `unlink` of an earlier
client's FIFOs that takes the path away after `mkfifo` (`bad_rejoin`). The code
looks at neither result. The echo is one step, since the output is not buffered (`simpio.c:11`) and `fputc`
writes at once; so are the `write` of `iprintf` and of a message.

### Jobs (`Jobs`)

| variable | code |
|---|---|
| `pc` | which call the caller is in; at `call` it may make any |
| `cmd` | `cmdcol_t`: the array of `cmd_t`, with `pid`, `out_pipe[PREAD]`, `finished`, `status`, `str_status`, `output` (whose bytes they are, and how many) |
| `cur`, `all` | the job of the call under way, and whether `cmdcol_update_state` makes it |
| `cur_pos`, `max_size` | the variables of `read_all` |
| `fds` | the caller's descriptors: whose pipe's read end each one is |
| `proc`, `plan`, `wrote`, `pipe` | the processes forked, what their commands do, have done, and the bytes in their pipes |
| `sound` | history: no `fork` has failed, no `close` has hit another job's pipe |

| action | code |
|---|---|
| `cmd_start`, `ForkFails` | `cmdcol_add` and `cmd_start`, as `commando.c:97-100` calls them; `pipe` and `fork` may fail and are not asked |
| `WaitFor`, `cmdcol_update_state` | the calls of `cmd_update_state` |
| `WasFinished`, `WaitPid`, `WaitAny` | one round of its loop: nothing to do; the job's end; what `waitpid(-1)` returns |
| `ReadSome`, `ReadEnd` | one `read` of `read_all`: some bytes; the end, or `-1` |
| `FetchDone`, `cmd_fetch_output` | `close(out_pipe[PREAD])`, in the first and in later calls |
| `cmdcol_freeall` | memory is freed, nothing is closed; no call may follow |
| `FirstLine`, `SecondLine` | `main` of commando as it is |
| `Write`, `End` | a command |

The two ways of waiting differ in nothing that changes state: with `NOBLOCK`
`cmd_update_state` goes round its loop until the job has ended, with `DOBLOCK`
it waits in `waitpid`. A round without a change is not a step of the model.
The caller is either `test_cmd.c` or the body of commando's loop; both make the
same calls. That body is never run by `main` as it is: once a line has been read,
the first loop (`commando.c:24`) never ends, and at the end of the input `ntok`
is 0. A command that cannot be executed leaves a second process (`stray`) that
holds the pipe open and runs the caller's code, and that may wait for input for ever, so
that it need not end; what that process does to others is not in the model. In a child the write end of its pipe stays open beside its standard output; both
go when it ends.

### Left out

In the server names and texts are model values (`from`, `n` say who and which line); the
fixed sizes of C strings are not modelled. Logging, terminal modes and
formatting have no effect on the state above. `POLLHUP` and `SIGPIPE` cannot
happen: the server holds every FIFO open for reading and writing. A running
server is alone under its name. In the client the messages of the server differ only in
whether they are SHUTDOWN, a terminal is its last line, `SIGINT` is not sent; in `Jobs` a byte of output is
known by the command that wrote it.

## 4. Abstract specification

`ChatRoom` has a lobby, members and, for each client, what it has said and what
it is due. A broadcast is one step: `Relay` makes the same message due to all
members at once. The mapping counts a member whose write is still to come
(`Pending`) as due already, so that the interleaved writes of `server_broadcast`
implement the atomic `Relay`, `Admit` or `Close`. `Leave` happens when the
server closes the descriptors. The room permits that what a client says before
it is admitted is lost if it ends first (`End` of a non-member): the kernel
gives no more, and the run `bad_departure` shows what the server makes of it.
The refinement is claimed while `Exact` holds: no two processes share a name,
and no removal has shifted two or more slots, since from then on the array is
wrong (`bad_shift`). It is checked as `Room!Init` and
`[][Exact' => [Room!Next]_(Room!vars)]_vars`.

`ChatUser` has keys pressed, lines said, DEPARTED and SHUTDOWN, and no threads,
buffer, cancellation or FIFO. `Lines(keys)` defines, by a fold over the keys,
the lines that a sequence of keys makes; the client may say the next of them,
may depart only when all are said and the input is over, and may end only when it
has departed, has been told of the shutdown, could not hear from the start, or
could not speak and is at the end of its input. A client that cannot speak says
nothing at all, however much is typed. The mapping is nearly the identity; what has to be shown is that an editor whose buffer is
printed by another thread between its stores, and two threads that cancel each
other, come to that. `ImplementsUser` is `User1!Spec`, without a side condition.

## 5. Runs

The runs of the server use module `MCBlather`, those of the client `ClientProperties`,
those of the jobs `JobProperties`.

| run | bounds | checks | shows |
|---|---|---|---|
| `core` | 3 clients, 3 slots, no lines typed | `TypeOK` `TableExact` `NoLeak` `ReadNeverBlocks` `JoinerIsWired` `ShortShiftPreservesOrder` `NoEviction` `ImplementsRoom` | joins, departures and shutdown in all orders |
| `chat` | 2 clients, 2 lines each, FIFOs of 2 messages, both may be killed | `ReadNeverBlocks` `ImplementsRoom` | order and delivery of lines over full FIFOs and deaths |
| `limits` | 3 clients, two of them one user who leaves and comes back, 2 slots, 3 descriptors | `TableExact` `DescriptorInv` `TurnedAwayOnlyWhenFull` | full table, `EMFILE` between the two opens, FIFOs unlinked under a client that comes back: the other user's slot stays right, no descriptor leaks, and only a full table turns a client away |
| `live` | 2 clients, 1 line each, FIFOs of 1 message, one client may be killed | `NeverWedged` `JoinServed` `TakenUp` `Delivered` `SignalStops` `MembersAreTold` | the loop comes round, joins are granted, lines taken up and delivered, a signal ends the server and its clients, unless a write blocks for ever on a client that has died or is leaving: never on a read, never on a client in the chat |
| `client` | 2 letters, `buf` of 3, 4 keys, 1 message before SHUTDOWN, FIFO of 1, either of its `open` calls may fail | `ClientTypeOK` `ReadsStayInBuf` `EchoExact` `ImplementsUser` `ShutdownEnds` `EndOfInputEnds` | the threads at each other's every store and call: the buffer is kept to, the lines are sent as typed, DEPARTED last, and either thread's end ends the client |
| `jobs` | 3 jobs, list of 2, pipe of 2, output up to 3, buffer of 1, 3 descriptors | `JobTypeOK` `OutputIsOwn` `DescriptorsMatch` `ReadsAsk` `WaitEnds` | jobs started, waited for and fetched in every order, commands that fill the pipe, are killed, cannot be executed, calls that fail |

The other runs end in a counterexample: a comment, a declaration, a help text or a
test of the repository promises something the code does not do.

| run | violated | what happens |
|---|---|---|
| `bad_shift` | `ShiftPreservesOrder` | `client[idx] = client[idx+1]` in every round of the loop: with two or more later slots one member is doubled and the last one lost (`server_funcs.c:88`: "preserving their order") |
| `bad_departure` | `DepartureIsNoted` | a client that ends before the server opens its FIFO takes DEPARTED with it and stays in the table (`test_blather.org:41`) |
| `bad_rejoin` | `JoinerIsWired` | `unlink` of a departed user's FIFOs removes those of the same user's new process (`test_blather.org:1079`) |
| `bad_shutdown` | `AllRemoved` | `i` counts up while `n_clients` counts down: half of the slots stay (`server_funcs.c:44`: "Remove all clients") |
| `bad_echo` | `ScreenShowsInput` | a letter is stored and echoed between `iprintf`'s copy of `buf` and its `write`, which erases it from the screen; it is still in the line (`simpio.c:98`: "preserve the input that has been typed so far") |
| `bad_fill` | `WaitEndsWithCommand` | a command that writes more than the pipe holds and a caller that waits for its end before it reads wait for each other (`test_cmd.c:236`: "blocks the calling process until the cmd is finished") |

Seen on the way and without a run of their own:

* server: `unlink(server_name)` lacks `.fifo`, so that later clients find a FIFO
  that nobody reads (`server_funcs.c:38`); JOINED is broadcast for a client that a
  full table turned away (`:174`); after a double shift two slots share their
  descriptors, and the removal of one closes those of the other (`:82`); a signal
  between the test of `KEEP_GOING` and `poll` waits for the next message
  (`bl_server.c:37`); `write` to the full FIFO of a client that has died or is
  leaving blocks the server for everybody (`server_funcs.c:106`); nothing drops a client that died,
  although `blather.h:30` has a constant for it (the functions are prototypes); after the
  scenario of `bad_departure` a user who comes back is in the table twice, both
  slots share a FIFO, and the second read blocks;
* client: the user thread writes DEPARTED after it has cancelled the reader of
  SHUTDOWN, and is stuck if the server is gone and the FIFO full (`bl_client.c:40`);
  a failed `open` of the toServer FIFO goes unseen, and lines and DEPARTED are lost
  (`:116`); `pthread_cancel` may be given an id that `main` has not set yet (`:36`)
  or has joined already (`:77`); `iprintf` of a long message hands `write` more than
  its array holds (`simpio.c:107`);
* jobs: a second `cmd_fetch_output` closes a number that may be another job's by
  then (`cmd.c:160`); after a failed `fork`, `waitpid(-1)` takes the end of another
  job (`:78`); a failed `pipe` is not asked (`:64`); `str_status` stays `RUN` for a
  status above 1 (`:104`); a job killed by a signal never counts as finished, and
  with `NOBLOCK` the loop spins while the command runs (`:88`); `cmd_print_output`
  writes `BUFSIZE` bytes whatever there is (`:173`); `cmdcol_add` stores before it
  compares (`cmdcol.c:7`); commando's `main` spins on its first line
  (`commando.c:24`), never runs a command, and its built-ins take their argument from
  `tokens[2]`.

### Bounds and why they are enough

* *Clients*: three are needed for a removal with two later slots, and for a
  table of two to be full; the properties about one order and about delivery
  relate two members.
* `MaxSend`: the protocol of one line does not depend on how many were typed;
  two lines per user show that order is kept. `core` types none, so that three
  clients remain tractable: JOINED, DEPARTED and SHUTDOWN are the messages.
* `PipeCap`: 48 messages in reality. 1, 2 and 3 make FIFOs fill up. In `live` it is
  1, so that the FIFO of every client fills, and that of one that dies or leaves
  stays full: the server may then be `StuckOnReader`, and the run shows that it is
  stuck nowhere else.
* `MaxFd`: twice the slots, or too few in `limits`. No property of the model
  depends on the number itself.
* `MAXCLIENTS`: 256 in reality; 2 or 3, with as many or more clients.
* Symmetry under permutations of the clients is used in the safety runs only;
  names are the clients themselves there. In `limits` it is the exchange of the
  two clients with one name.
* The action constraint `ComesBack` (in `limits`, `bad_rejoin`) keeps the steps in
  which a client is started under a name only when no other process of that name runs any
  more: a user who comes back.
* *Client*: `MAXLINE` 3 leaves room for two letters, so that a line is full, is
  shortened, and leaves remains of itself behind the end of the next one. Two
  different letters tell a remainder from new text. Four keys make a full line,
  its end and the start of another, or two lines and the end of input. One
  message and SHUTDOWN are two prints that can overlap edits and the
  cancellation. `PipeCap` 1 makes the FIFO full with the first line. `bad_echo`
  needs two keys.
* *Jobs*: `MAX_CMDS` 2 and a third job go beyond the list. Output of up to 3 is
  more than the pipe (2) and than the buffer (1), which grows twice. Three
  descriptors are too few for the third `pipe`, and after a close the number is used
  again, by which a second close hits another job's pipe.
* `CHECK_DEADLOCK FALSE`: the programs end, and may block as described.

## 6. Fairness

`Fairness` is weak fairness of `ServerStep` (the server is one runnable process)
and, for each client, of `Progress(c)`: the calls of `main` once it runs, the
background thread's reads, the writes of DEPARTED and the exit. Each is a
thread that the kernel schedules; at most one step of `Progress(c)` is possible
at a time, so that weak fairness of the disjunction is weak fairness of the
process. Nothing is assumed of users (starting a client, typing, ending input),
of signals and of kills, nor of two clients taking turns.

In `BlatherClient` the fairness is weak fairness of each of the three threads,
`Main`, `User` and `Background`: each is scheduled by the kernel. `GetChar` and
`Read` are in none of them, as the user need not type and the server need not
send; neither is `Drain`: the server need not read. `ShutdownEnds` and
`EndOfInputEnds` name the cases in which that blocks the client for good. In
`Jobs` it is weak fairness of the caller inside a call (`CallerStep`) and of each
command that runs (`Write(j) \/ End(j)`); nobody need make a call, and the second
caller that a failed `execvp` leaves need not end, as it may wait for input. `WaitEnds` therefore
speaks of a call under way, and its conditions are those under which the code
does return: the command can be executed, is not killed by a signal, its
output fits in the pipe (`bad_fill`), no other job has taken its end.

## 7. Proofs

### Server

`BlatherServerProofs` holds for every set of clients and names, every naming
(shared names too), every table size, descriptor limit and FIFO capacity. It
uses the assumptions named in `BlatherServer`: `ClientsAssumption`,
`LimitsAssumption`, `NoneAssumption`.

* `TypeCorrect`: `Spec => []TypeOK`. `TypeOK` is inductive. Its one step that
  is not routine is `RemoveEntryType`: the loop of `server_remove_client`,
  however wrong, leaves an array of records one shorter.
* `DescriptorsCorrect`: `Spec => []DescriptorInv`. `NoLeak` (each descriptor
  the server has open is in a slot in use) is not inductive: closing one
  client's descriptors must not close another's, nor may `server_remove_client`
  be called for a slot that is not in use. `DescriptorInv` adds `FdsOpen` (what
  the slots hold is open), `FdsApart` (no two slots share a descriptor) and
  `SlotInUse` (`idx` is a slot in use whenever a removal is under way, which is
  also why `server_get_client` never ends the server). The argument: `open`
  returns a descriptor that was free (`OpenIsFree`), so a join keeps the slots
  apart (`DescriptorJoin`); a removal closes only its own (`DescriptorClose`);
  the shift is exact while at most one slot follows (`ShortShiftIsExact`), so
  that no descriptor's slot is lost (`DescriptorShift`); clients touch nothing
  of the server's (`ClientLeavesServer`). All parts but `SlotInUse` and the
  types are conditional on `clean`: a longer shift does lose descriptors.
* `NoLeakCorrect`: `Spec => []NoLeak`, from it.
* `ShortShiftIsExact`: the loop equals the reference removal `Without` when at
  most one slot follows.

* `OrderKept`: `Spec => ShortShiftPreservesOrder`. Only the second half of
  `server_remove_client` shortens the table (`OnlyRemovalsShorten`), `SlotInUse`
  puts `idx` inside it, and the rest is `ShortShiftIsExact` on the names.

The other four modules go on from there. Each adds to the inductive invariant of
the one before it what its own properties need:
`DescriptorInv` < `TableInv` < `JoinInv` < `FlowInv` < `RoomInv`.

* `TableExactCorrect`, from `TableInv` (`BlatherTableProofs`). That a client has
  one slot and that the slot leads to its own FIFOs depends on the past: it must
  not be admitted twice, and `open` of its path must find its own inode.
  `TableInv` says so of the present: a process asks once (`QueueOnce`), its name
  is not in the table before it is admitted, not even as the copy that a wrong
  shift leaves (`NotYetAbsent`), and a path under its name leads to what it made
  itself (`LinkOwn`). `SlotOrigin` says where each slot of the next table
  comes from, once for all steps. All parts are about names that one process
  only has; nothing is assumed of the others.
* `TurnedAwayCorrect` is inductive beside `DescriptorInv`: while a broadcast is
  under way the table is what it was (`BroadcastSteps`).
* `JoinerIsWiredCorrect`, from `JoinInv` (`BlatherJoinProofs`): what a client has
  made is still under its name until it is admitted (`Linked`), since only a
  removal of its own slot unlinks it; it holds both FIFOs from its own `open` to
  its end (`Held`); and no `open` of the server fails (`SlotsFull`), which counts the open
  descriptors against the processes admitted so far (`Fits`). The last needs
  `Distinct` (no shared names) and `Enough`, below.
* `ReadNeverBlocksCorrect` and `NoEvictionCorrect`, from `FlowInv`
  (`BlatherFlowProofs`). A flag is set when `poll` returns and read several
  handlers later. That the message is still there follows from: flags are set
  only in slots that the loop has still to reach, all other steps that take from
  a FIFO take from another one (clients read `toClient` only; slots have
  FIFOs of their own), a FIFO in a slot is not emptied by a `close` as the
  server holds it open, and a removal moves flag and descriptor together
  (`Flags`, `FlagsStep`). That the slot that goes is that of one who has left
  needs the way back from `mesg` to the slot: what is in `toServer` was written
  by its owner, DEPARTED last (`MailInv`), and slot `idx` is the sender's from
  `read` to removal (`FromSlot`).
* `ShutdownHalfCorrect`: from the announcement on, `Len(client) + idx` does
  not change at the head of the loop and `idx` is never more than two past the end
  (`HalfGone`); so the loop of `server_shutdown` leaves exactly `n \div 2` of `n`
  clients, whatever `n`. `bad_shutdown` is this for `n = 2`.
* `RoomCorrect`: `Spec => ImplementsRoom`. The abstract `said` and `due` are the
  contents of FIFOs, which the kernel drops when the last descriptor closes.
  `RoomInv` therefore ties descriptors to membership: the server has exactly the
  FIFOs of its members open (`FdSeats`), a member holds its own until it ends
  (`HandsOwn`), and what is in a FIFO is held there (`BufHeld`). Each action has
  a lemma of its own (`RoomAdmitStep`, `RoomRelayStep`, `RoomWriteOneStep`,
  `RoomLeaveStep` ...) over a bridge (`RoomOpen` ... `RoomClose`) that says what
  the room's action asks of the mapped variables: the read that starts a
  broadcast is `Relay`, since all members are `Pending` from then on
  (`BroadcastDue`); a single write moves one message from pending to the FIFO and
  leaves `due` as it was (`RoomWriteOneStep`).

`Distinct` and `Enough` are hypotheses of the theorems that need them and not
assumptions of the model. `Enough`: there are at most `MAXCLIENTS` processes, and
two descriptors for each. The code has 256 slots and no check of its descriptor
limit, 1024 by default, and 2 * 256 + 4 is less. It is a real
restriction, as `Clients` are all processes that are ever started: with a full
table a client is announced and is not a member, which `ChatRoom` does not
allow. `TableExact`, `TurnedAwayOnlyWhenFull`, `ReadNeverBlocks`, `NoEviction` and
`ShutdownLeavesHalf` are proved without it.

### Client

`BlatherClientProofs` holds for every set of letters, every `MAXLINE`
and FIFO capacity, and for any number of keys and
messages (`MaxKeys` and `MaxHeard` only bound TLC). It uses `NulAssumption`,
`SizeAssumption`, `CapAssumption` and `KeysAssumption`
(the control keys are not text).

* `ClientTypeCorrect`, `ReadsStayCorrect`: `ClientTypeOK` and
  `ReadsStayInBuf`, from the inductive `ClientInv`: the types
  and `EndsInBuf` (the last byte of `buf` is always `Nul`, and no copy is longer
  than `buf`). The argument is that only `Store` and `Terminate` move `pos`'s
  surroundings and `Adds` keeps both away from the last byte, so that a copy
  that started anywhere meets a `Nul` no later than there, even between the two
  stores of a letter.
* `EndJustified`: `main` returns only after DEPARTED was written, SHUTDOWN was
  read, or `open` of the toClient FIFO had failed; or, if `open` of the toServer FIFO
  had, at the end of the input. `DepartedLast`: once DEPARTED is written no
  step writes a line or DEPARTED again. Both from `CancelInv`, which says how
  far each thread can be, given the others: the user thread is cancelled only by
  a background thread that has read SHUTDOWN or failed to read, and is over
  only when it has departed, was cancelled, or had nowhere to write DEPARTED; `main` is past its first join only
  when the user thread is over.
* `EchoCorrect`: `EchoExact`. It needs `EchoInv`: the bytes of `buf` below `pos`
  are text and, except between the two stores of a letter, `buf[pos]` ends it
  (`StringInv`); the user thread prints its prompt over an empty line
  (`PromptInv`); as long as no edit overlaps the print, the copy is a prefix of
  the text (`BgInv`) and the screen is the text, or is one letter behind while a
  key is being echoed (`ScreenInv`).
* `UserCorrect` (`BlatherUserProofs`): `Spec => ImplementsUser`. `ChatUser` says by
  a fold over all keys what the lines are. What the fold does with one more key
  (`EntryOfMore`) is not given by any theorem of the libraries for an operator
  such as `Pressed`: `FoldedIs` proves that the recursion of the community
  modules' fold has a solution, by the least length for which it had none, and
  `FoldedAt` what it is at each prefix. Then `UserInv` relates three things: the
  keys so far, the text in `buf` below `pos`, and what the server was sent. They
  agree but for a line between `enter` and its `write` (`SaidInv`); the input is over exactly
  when the last key says so (`InputInv`); and `opened` and `linked` are settled before
  anything is typed (`OpenInv`). Without `linked` nothing is ever said, and `SaidInv` says
  so. `PressedKey` and `UserKey` show that the four branches of
  `simpio_get_char` are the cases of `Pressed`: letters beyond the limit, `back`
  and `enter` on an empty line, `eot` after text and without. The
  steps of both threads that are not seen from outside, cancellation included,
  are one lemma (`UserThreads` over `UserQuiet`).

### Jobs

`JobProofs` holds for every number of jobs and descriptors and every size of
list, buffer, pipe and output; it uses `SizesAssumption`.

* `JobTypeCorrect`, `ReadsAskCorrect`: `JobTypeOK` and `ReadsAsk`, together the
  inductive `JobInv`.
* `OutputCorrect`, `DescriptorsCorrect`: `OutputIsOwn` and `DescriptorsMatch`, from `JobInv` and the inductive `OwnInv`.
  `CallInv` relates what the caller knows of a job to its process, and to the
  call under way: finished jobs are reaped, have their own exit status, and have
  their output unless `read_all` is at it. `FdInv` is `DescriptorsMatch` for jobs
  that were started: `pipe` returns a free descriptor (`PipeFdFree`), and a close
  of another job's ends `sound`. `BytesInv` accounts for every byte: what a command has
  written is in its pipe or has been read by the `read_all` under way, or is the output.
  At the end of the file the pipe is empty and the command has written all,
  so that what was read is the whole.

### Only model-checked

Liveness: `NeverWedged`, `JoinServed`, `TakenUp`, `Delivered`, `SignalStops`,
`MembersAreTold`, `ShutdownEnds`, `EndOfInputEnds` and `WaitEnds`. They rest on weak fairness, hence on ENABLED, which the prover
does not handle. Every invariant and every action property of the passing runs and
both refinements are proved; the runs that end in a
counterexample refute theirs.

## 8. Plan

Done: the inventory; the server with its clients' calls; one client with its
threads and the line editor; the jobs with their commands; an abstract
specification of server and client, and proofs that they are implemented;
liveness on small instances; all safety properties for every size.

What could follow, in this order:

1. Weaker conditions. `RoomCorrect` assumes slots and descriptors for every
   process that is ever started; what is needed is room for those who are in
   the table at one time. The abstract room would need a `TurnAway`.
2. What the liveness properties rest on, as safety: in `poll` with something to
   do a step of the server is possible, and a write blocks only at a full FIFO.
3. The guard of `sound` in `Jobs` by parts: which of the properties of the jobs
   survive a `fork` that fails.

## Not modelled

* `simpio_demo.c`: a demonstration with the threads of `bl_client.c` and no
  shared files; what `BlatherClient` shows of the threads is shown of them.
* `util.c` of both projects: logging, exit with a message, `nanosleep`, and
  `strtok` over one line; nothing concurrent and no state between calls.
* What only prints: the terminal escape sequences and the text of messages, `help`,
  `list`, `cmdcol_print`, `cmd_print_output`, the alerts of
  `cmd_update_state`; `argv` of a job and `parse_into_tokens`.
* The advanced functions of `blather.h` (ticks, pings, logs): prototypes without a body.
* What a second caller does after `execvp` has failed, and what the code does once it
  has written beyond an array (`cmdcol_add` over its size, the two
  frees at the end of `main`): the state `lost`, about which nothing is claimed.
* The test programs and their data, which are read for what they promise.

Checking: `tlc -config core.cfg MCBlather.tla`, likewise for the other
configurations of the server; `tlc -config client.cfg ClientProperties.tla`,
`tlc -config jobs.cfg JobProperties.tla`; `tlapm` on each of the eight modules
whose name ends in `Proofs`.
