-------------------------------- MODULE Jobs --------------------------------
(***************************************************************************)
(* The jobs of project-1: cmd.c and cmdcol.c in the process that calls     *)
(* them, the commands it has forked, their pipes and its descriptors.  The *)
(* caller is test_cmd.c, or the body of commando's loop; the main of       *)
(* commando as it is stands at the end.  Pipe j is the one made for job j. *)
(***************************************************************************)
EXTENDS Integers, Sequences

CONSTANTS
    MaxJobs,    \* bound: commands the caller starts
    MAX_CMDS,   \* slots in cmdcol_t
    BUFSIZE,    \* what read_all allocates first
    PipeSize,   \* what a pipe holds
    MaxOutput,  \* bound: what a command writes
    MaxFd,      \* descriptors the caller may have
    None

Job == 1 .. MaxJobs

ASSUME SizesAssumption ==
    /\ MaxJobs \in Nat /\ MAX_CMDS \in Nat \ {0} /\ BUFSIZE \in Nat \ {0}
    /\ PipeSize \in Nat \ {0} /\ MaxOutput \in Nat /\ MaxFd \in Nat
    /\ None \notin Job \cup [from : Job \cup {None}, size : Int]

VARIABLES
    pc,       \* where the caller is: at "call" it may call any function
    cmd,      \* cmdcol_t: what the caller knows of its jobs
    cur,      \* the job a call is about
    all,      \* the call is cmdcol_update_state
    cur_pos, max_size,  \* of read_all
    fds,      \* the caller's descriptors: whose pipe's read end each one is
    proc,     \* [Job -> its process]
    plan,     \* [Job -> what its command does]
    wrote,    \* [Job -> bytes its command has written]
    pipe,     \* [Job -> bytes in its pipe]
    sound     \* history: no fork() has failed, no close() has hit another job's pipe

read_all_vars == <<cur_pos, max_size>>
children      == <<proc, plan, wrote, pipe>>
vars == <<pc, cmd, cur, all, read_all_vars, fds, children, sound>>

Fd    == 1 .. MaxFd
NoFd  == 0
NoPid == 0

\* A command exits, is killed by a signal, or cannot be executed at all.
ExitStatus == [exit0 |-> 0, exit1 |-> 1, exit2 |-> 2, noexec |-> 0]
Plan == [bytes : 0 .. MaxOutput, end : {"exit0", "exit1", "exit2", "killed"}]
          \cup {[bytes |-> 0, end |-> "noexec"]}

Init ==
    /\ pc \in {"call", "first"}
    /\ cmd = <<>> /\ cur = 1 /\ all = FALSE
    /\ cur_pos = 0 /\ max_size = BUFSIZE
    /\ fds   = [f \in Fd |-> None]
    /\ proc  = [j \in Job |-> "none"]
    /\ plan  = [j \in Job |-> [bytes |-> 0, end |-> "exit0"]]
    /\ wrote = [j \in Job |-> 0]
    /\ pipe  = [j \in Job |-> 0]
    /\ sound = TRUE

-----------------------------------------------------------------------------
(* Starting a job *)

cmd_new == [pid |-> NoPid, rfd |-> NoFd, finished |-> FALSE, status |-> -1,
            str_status |-> "INIT", output |-> None]

\* pipe() needs two free descriptors, of which the caller soon closes the second;
\* it takes the lowest.  That it fails goes unnoticed.
FreeFds == {f \in Fd : fds[f] = None}
PipeFd  == IF \E f, g \in FreeFds : f # g
           THEN CHOOSE f \in FreeFds : \A g \in FreeFds : f <= g
           ELSE NoFd

\* cmdcol_add tests the size after it has stored the pointer, and what follows the
\* last slot is the field size: nothing is known of the list from then on.
cmdcol_add(c) ==
    /\ cmd' = Append(cmd, c)
    /\ pc' = IF Len(cmd) < MAX_CMDS THEN "call" ELSE "lost"

Start(j, pid) ==
    /\ pc = "call"
    /\ j = Len(cmd) + 1
    /\ cmdcol_add([cmd_new EXCEPT !.pid = pid, !.rfd = PipeFd, !.str_status = "RUN"])
    /\ fds' = [f \in Fd |-> IF f = PipeFd THEN j ELSE fds[f]]
    /\ UNCHANGED <<cur, all, read_all_vars, wrote, pipe>>

\* cmd_start: the child runs the command, its output in the pipe of which it keeps
\* both ends.  When the command cannot be executed the child takes its old output
\* back and returns: a second process that runs the caller's code.
cmd_start(j) ==
    /\ Start(j, j)
    /\ \E p \in Plan :
        /\ plan' = [plan EXCEPT ![j] = p]
        /\ proc' = [proc EXCEPT ![j] = IF p.end = "noexec" THEN "stray" ELSE "run"]
    /\ UNCHANGED sound

\* fork() fails, and -1 is taken for the pid of the child.
ForkFails(j) ==
    /\ Start(j, NoPid)
    /\ sound' = FALSE
    /\ UNCHANGED <<plan, proc>>

-----------------------------------------------------------------------------
(* The commands *)

\* The pipe always has a reader, the command itself: a full one blocks it.
Write(j) ==
    /\ proc[j] = "run"
    /\ wrote[j] < plan[j].bytes
    /\ wrote' = [wrote EXCEPT ![j] = @ + 1]
    /\ \/ cmd[j].rfd = NoFd /\ UNCHANGED pipe
       \/ /\ cmd[j].rfd # NoFd
          /\ pipe[j] < PipeSize
          /\ pipe' = [pipe EXCEPT ![j] = @ + 1]
    /\ UNCHANGED <<pc, cmd, cur, all, read_all_vars, fds, proc, plan, sound>>

End(j) ==
    /\ proc[j] \in {"run", "stray"}
    /\ wrote[j] = plan[j].bytes
    /\ proc' = [proc EXCEPT ![j] = IF plan[j].end = "killed" THEN "killed" ELSE "exit"]
    /\ UNCHANGED <<pc, cmd, cur, all, read_all_vars, fds, plan, wrote, pipe, sound>>

Ended(j) == proc[j] \in {"exit", "killed"}

-----------------------------------------------------------------------------
(* cmd_update_state *)

\* wait-for and wait-all, cmdcol_update_state.
WaitFor(j) ==
    /\ pc = "call"
    /\ j \in 1 .. Len(cmd)
    /\ pc' = "wait" /\ cur' = j /\ all' = FALSE
    /\ UNCHANGED <<cmd, read_all_vars, fds, children, sound>>

cmdcol_update_state ==
    /\ pc = "call"
    /\ cmd # <<>>
    /\ pc' = "wait" /\ cur' = 1 /\ all' = TRUE
    /\ UNCHANGED <<cmd, read_all_vars, fds, children, sound>>

\* Slip: the bound of the loop is off by one.
ReturnTooFar ==
    IF all /\ cur <= Len(cmd) THEN pc' = "wait" /\ cur' = cur + 1
                              ELSE pc' = "call" /\ UNCHANGED cur

\* cmd_update_state returns, in cmdcol_update_state to the next job.
Return ==
    IF all /\ cur < Len(cmd) THEN pc' = "wait" /\ cur' = cur + 1
                             ELSE pc' = "call" /\ UNCHANGED cur

WasFinished ==
    /\ pc = "wait"
    /\ cmd[cur].finished
    /\ Return
    /\ UNCHANGED <<cmd, all, read_all_vars, fds, children, sound>>

\* str_status is set for the statuses 0 and 1 only.
StrStatus(s, old) ==
    CASE s = 0 -> "EXIT(0)" [] s = 1 -> "EXIT(1)" [] OTHER -> old

\* waitpid reports the end of the job.  After a kill the loop asks again, for ever;
\* so it does, with NOBLOCK, as long as the job runs: it is left through finished.
WaitPid ==
    /\ pc = "wait"
    /\ ~cmd[cur].finished
    /\ cmd[cur].pid = cur
    /\ Ended(cur)
    /\ proc' = [proc EXCEPT ![cur] = "reaped"]
    /\ IF proc[cur] = "killed" THEN UNCHANGED <<cmd, pc, read_all_vars>>
       ELSE LET s == ExitStatus[plan[cur].end]
            IN  /\ cmd' = [cmd EXCEPT ![cur].finished = TRUE,
                                      ![cur].status = s,
                                      ![cur].str_status = StrStatus(s, @)]
                /\ pc' = "read"
                /\ cur_pos' = 0 /\ max_size' = BUFSIZE
    /\ UNCHANGED <<cur, all, fds, plan, wrote, pipe, sound>>

\* -1 stands for any child: somebody else's end is taken, and dropped since it is
\* not the one asked for.
WaitAny ==
    /\ pc = "wait"
    /\ cmd[cur].pid = NoPid
    /\ \E j \in Job : Ended(j) /\ proc' = [proc EXCEPT ![j] = "reaped"]
    /\ UNCHANGED <<pc, cmd, cur, all, read_all_vars, fds, plan, wrote, pipe, sound>>

-----------------------------------------------------------------------------
(* read_all and cmd_fetch_output *)

\* The pipe behind a job's descriptor, which may have come to be another job's.
PipeOf(j) == IF cmd[j].rfd \in Fd THEN fds[cmd[j].rfd] ELSE None

\* Slip: the buffer grows only when it is overfull.
GrowLate(n) == IF n > max_size THEN max_size * 2 ELSE max_size

Grow(n) == IF n >= max_size THEN max_size * 2 ELSE max_size

Least(m, n) == IF m <= n THEN m ELSE n

\* Slip: every read() starts at the beginning of the buffer.
ReadSomeFromStart ==
    /\ pc = "read"
    /\ LET p == PipeOf(cur)
           n == Least(pipe[p], max_size - cur_pos)
       IN  /\ p # None
           /\ n > 0
           /\ pipe' = [pipe EXCEPT ![p] = @ - n]
           /\ cur_pos' = n
           /\ max_size' = Grow(n)
    /\ UNCHANGED <<pc, cmd, cur, all, fds, proc, plan, wrote, sound>>

\* One read() of read_all that returns something.
ReadSome ==
    /\ pc = "read"
    /\ LET p == PipeOf(cur)
           n == Least(pipe[p], max_size - cur_pos)
       IN  /\ p # None
           /\ n > 0
           /\ pipe' = [pipe EXCEPT ![p] = @ - n]
           /\ cur_pos' = cur_pos + n
           /\ max_size' = Grow(cur_pos + n)
    /\ UNCHANGED <<pc, cmd, cur, all, fds, proc, plan, wrote, sound>>

\* Slip: the caller has kept its write end of the pipe, which never ends then.
ReadEndNever ==
    /\ pc = "read"
    /\ PipeOf(cur) = None \/ max_size = cur_pos
    /\ cmd' = [cmd EXCEPT ![cur].output = [from |-> None, size |-> -1]]
    /\ pc' = "close"
    /\ UNCHANGED <<cur, all, read_all_vars, fds, children, sound>>

\* The last read(): 0 at the end of the file, when nobody is left who could write,
\* or when 0 bytes were asked for; or -1, which is added to the length.
ReadEnd ==
    /\ pc = "read"
    /\ LET p == PipeOf(cur)
       IN  /\ \/ p = None
              \/ max_size = cur_pos
              \/ p # None /\ pipe[p] = 0 /\ proc[p] \notin {"run", "stray"}
           /\ cmd' = [cmd EXCEPT ![cur].output =
                        [from |-> p, size |-> IF p = None THEN -1 ELSE cur_pos]]
    /\ pc' = "close"
    /\ UNCHANGED <<cur, all, read_all_vars, fds, children, sound>>

\* Slip: the descriptor stays open.
CloseReadEndNot(j) == UNCHANGED <<fds, sound>>

\* close(out_pipe[PREAD]), in every call once the job is finished; by the second
\* call the number may belong to another job.
CloseReadEnd(j) ==
    /\ fds' = [f \in Fd |-> IF f = cmd[j].rfd THEN None ELSE fds[f]]
    /\ sound' = (sound /\ PipeOf(j) \in {j, None})

FetchDone ==
    /\ pc = "close"
    /\ CloseReadEnd(cur)
    /\ Return
    /\ UNCHANGED <<cmd, all, read_all_vars, children>>

\* output-for and output-all: by now the output is there, and only the descriptor
\* is closed.
cmd_fetch_output(j) ==
    /\ pc = "call"
    /\ j \in 1 .. Len(cmd)
    /\ cmd[j].finished
    /\ CloseReadEnd(j)
    /\ UNCHANGED <<pc, cmd, cur, all, read_all_vars, children>>

\* The memory of the jobs is freed and nothing else: pipes stay open, commands go
\* on.  No call may follow.
cmdcol_freeall ==
    /\ pc = "call"
    /\ pc' = "freed"
    /\ UNCHANGED <<cmd, cur, all, read_all_vars, fds, children, sound>>

-----------------------------------------------------------------------------
(* main of commando.c as it is *)

\* Once a line has been read it is never looked at: only the end of the input leaves
\* the first loop.
FirstLine ==
    /\ pc = "first"
    /\ pc' \in {"spin", "second"}
    /\ UNCHANGED <<cmd, cur, all, read_all_vars, fds, children, sound>>

\* ntok is 0 and the second loop is left at once.  *tokens and col->size have not
\* been set: what the two rounds of free() and the update do is open.
SecondLine ==
    /\ pc = "second"
    /\ pc' \in {"freed", "lost"}
    /\ UNCHANGED <<cmd, cur, all, read_all_vars, fds, children, sound>>

CallerStep ==
    WasFinished \/ WaitPid \/ WaitAny \/ ReadSome \/ ReadEnd \/ FetchDone
      \/ SecondLine
Calls ==
    \/ FirstLine \/ cmdcol_update_state \/ cmdcol_freeall
    \/ \E j \in Job : cmd_start(j) \/ ForkFails(j) \/ WaitFor(j) \/ cmd_fetch_output(j)

Next == CallerStep \/ Calls \/ \E j \in Job : Write(j) \/ End(j)

Spec == Init /\ [][Next]_vars

\* The caller and the commands run; nobody need call anything.  A second caller that
\* a failed execvp has left may wait for its input for ever: its end is not fair.
Fairness ==
    /\ WF_vars(CallerStep)
    /\ \A j \in Job : WF_vars(proc[j] = "run" /\ (Write(j) \/ End(j)))
FairSpec == Spec /\ Fairness
=============================================================================
