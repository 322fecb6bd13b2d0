--------------------------- MODULE JobProperties ---------------------------
(***************************************************************************)
(* What the job functions of project-1 should do: the properties of Jobs.  *)
(***************************************************************************)
EXTENDS Jobs

Output == {None} \cup [from : Job \cup {None}, size : Nat \cup {-1}]

\* A job of the list has been started.
CmdT == [pid : Job \cup {NoPid}, rfd : Fd \cup {NoFd}, finished : BOOLEAN,
         status : Int, str_status : {"RUN", "EXIT(0)", "EXIT(1)"}, output : Output]

\* Every variable keeps to the values that the C types and the calls allow.
CallerTypeOK ==
    /\ pc \in {"call", "wait", "read", "close", "freed", "lost", "first", "spin", "second"}
    /\ cmd \in Seq(CmdT) /\ Len(cmd) <= MaxJobs
    /\ cur \in Nat \ {0} /\ all \in BOOLEAN
    /\ pc \in {"wait", "read", "close"} => cur <= Len(cmd)
ReadTypeOK ==
    /\ cur_pos \in Nat /\ max_size \in Nat
    /\ fds \in [Fd -> Job \cup {None}]
    /\ sound \in BOOLEAN
ChildrenTypeOK ==
    /\ proc \in [Job -> {"none", "run", "stray", "exit", "killed", "reaped"}]
    /\ plan \in [Job -> Plan]
    /\ wrote \in [Job -> 0 .. MaxOutput]
    /\ pipe \in [Job -> 0 .. PipeSize]
    /\ \A j \in Job : proc[j] = "exit" => plan[j].end # "killed"
JobTypeOK == CallerTypeOK /\ ReadTypeOK /\ ChildrenTypeOK

Jobs == 1 .. Len(cmd)
Running == pc \in {"call", "wait", "read", "close"}

\* The output of a finished job is all that its own command wrote and nothing
\* else, over however many reads, and its status is that of the command; until a
\* failed fork or a second close of a descriptor makes jobs share an identity.
OutputIsOwn ==
    sound =>
        \A j \in Jobs : cmd[j].output # None /\ cmd[j].rfd # NoFd =>
            /\ cmd[j].output = [from |-> j, size |-> wrote[j]]
            /\ wrote[j] = plan[j].bytes
            /\ cmd[j].status = ExitStatus[plan[j].end]

\* The descriptors the caller has open are the read ends of the jobs whose output
\* it has not fetched: none is leaked, none is taken from another job.
DescriptorsMatch ==
    sound /\ Running =>
        /\ \A f \in Fd : fds[f] # None => cmd[fds[f]].rfd = f
        /\ \A j \in Jobs : cmd[j].rfd # NoFd =>
            (PipeOf(j) = j <=> cmd[j].output = None \/ (pc = "close" /\ cur = j))

\* read_all always asks for at least one byte (0 would look like the end of the
\* file) and its terminator fits in the max_size + 1 bytes it has.
ReadsAsk == pc = "read" => cur_pos < max_size

\* Waiting for a job ends, with its output, once its command has exited: nobody else
\* may keep the pipe's write end open (cmd.c:79).  Said of commands that can be
\* executed, are not killed and write no more than the pipe holds, while no job has
\* taken another's identity.
Waits(j) == pc \in {"wait", "read", "close"} /\ cur = j /\ cmd[j].pid = j
Exits(j) == plan[j].end \notin {"killed", "noexec"}
WaitEnds ==
    \A j \in Job :
        (Waits(j) /\ Exits(j) /\ plan[j].bytes <= PipeSize) ~> (~Waits(j) \/ ~sound)

-----------------------------------------------------------------------------
(* Promises of tests and comments that the code does not keep *)

\* test_cmd.c:236: cmd_update_state blocks until the command is finished, and no
\* longer, however much the command writes.
WaitEndsWithCommand == \A j \in Job : (Waits(j) /\ Exits(j)) ~> (~Waits(j) \/ ~sound)
=============================================================================
