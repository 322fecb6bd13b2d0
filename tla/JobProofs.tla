------------------------------ MODULE JobProofs ------------------------------
(***************************************************************************)
(* Proofs about Jobs for every number of jobs and descriptors and every    *)
(* size of list, buffer, pipe and output.                                  *)
(***************************************************************************)
EXTENDS JobProperties, TLAPS, WellFoundedInduction

-----------------------------------------------------------------------------
(* Records and sets *)

\* A set of numbers that is not empty has a least element.
LEMMA LeastOf ==
    ASSUME NEW T, T \subseteq Nat, T # {}
    PROVE  \E n \in T : \A m \in T : n <= m
<1>1. PICK n \in T : \A m \in T : ~ (<<m, n>> \in OpToRel(<, Nat))
  BY NatLessThanWellFounded, WFMin, Zenon
<1>2. \A m \in T : ~ (m < n)
  BY <1>1 DEF OpToRel
<1> QED
  BY <1>2

\* pipe() returns a descriptor that was free, or fails.
LEMMA PipeFdFree == PipeFd = NoFd \/ (PipeFd \in Fd /\ PipeFd \in FreeFds)
<1> SUFFICES ASSUME \E f, g \in FreeFds : f # g
             PROVE  PipeFd \in Fd /\ PipeFd \in FreeFds
  BY DEF PipeFd
<1>1. FreeFds \subseteq Nat /\ FreeFds \subseteq Fd /\ FreeFds # {}
  BY SizesAssumption DEF FreeFds, Fd
<1>2. \E f \in FreeFds : \A g \in FreeFds : f <= g
  BY <1>1, LeastOf
<1> QED
  BY <1>1, <1>2 DEF PipeFd

\* Any descriptor that is open is one that pipe() can return.
LEMMA FdsAreNotZero == NoFd \notin Fd
BY DEF NoFd, Fd

\* The job that cmd_start adds to the list.
NewJob(pid) == [cmd_new EXCEPT !.pid = pid, !.rfd = PipeFd, !.str_status = "RUN"]

\* It is a job, not finished and without output.
LEMMA NewJobType ==
    ASSUME NEW pid \in Job \cup {NoPid}
    PROVE  /\ NewJob(pid) \in CmdT
           /\ NewJob(pid).pid = pid /\ NewJob(pid).rfd = PipeFd
           /\ NewJob(pid).finished = FALSE /\ NewJob(pid).status = -1
           /\ NewJob(pid).str_status = "RUN" /\ NewJob(pid).output = None
<1>1. ASSUME NEW r \in Fd \cup {NoFd}
      PROVE  LET c == [cmd_new EXCEPT !.pid = pid, !.rfd = r, !.str_status = "RUN"]
             IN  /\ c \in [pid : {pid}, rfd : {r}, finished : BOOLEAN, status : {-1},
                            str_status : {"RUN"}, output : {None}]
                 /\ c.finished = FALSE
  BY DEF cmd_new
<1>2. PipeFd \in Fd \cup {NoFd} /\ -1 \in Int /\ None \in Output
  BY PipeFdFree DEF Output
<1>3. /\ NewJob(pid) \in [pid : {pid}, rfd : {PipeFd}, finished : BOOLEAN, status : {-1},
                          str_status : {"RUN"}, output : {None}]
      /\ NewJob(pid).finished = FALSE
  BY <1>1, <1>2, Zenon DEF NewJob
<1> HIDE DEF NewJob
<1> QED
  BY <1>2, <1>3 DEF CmdT

\* What waitpid reports makes another job of it.
LEMMA EndedJobType ==
    ASSUME NEW c \in CmdT, NEW s \in Int, NEW t \in {"RUN", "EXIT(0)", "EXIT(1)"}
    PROVE  [c EXCEPT !.finished = TRUE, !.status = s, !.str_status = t] \in CmdT
BY DEF CmdT

\* So does its output.
LEMMA FetchedJobType ==
    ASSUME NEW c \in CmdT, NEW o \in Output
    PROVE  [c EXCEPT !.output = o] \in CmdT
BY DEF CmdT

\* A list with one job changed is a list of jobs, as long as before.
LEMMA ListType ==
    ASSUME NEW q \in Seq(CmdT), NEW i \in 1 .. Len(q), NEW c \in CmdT
    PROVE  [q EXCEPT ![i] = c] \in Seq(CmdT) /\ Len([q EXCEPT ![i] = c]) = Len(q)
OBVIOUS

\* A command that exits has a status.
LEMMA ExitStatusType ==
    ASSUME NEW p \in Plan, p.end # "killed"
    PROVE  ExitStatus[p.end] \in {0, 1, 2}
BY DEF ExitStatus, Plan

-----------------------------------------------------------------------------
(* Types, and reads that ask for something *)

\* The inductive invariant of this section.
JobInv == JobTypeOK /\ ReadsAsk

\* It holds initially.
LEMMA JobInit == Init => JobInv
<1> SUFFICES ASSUME Init PROVE JobInv
  OBVIOUS
<1> USE SizesAssumption
<1>1. CallerTypeOK
  <2>1. all \in BOOLEAN
    BY Zenon DEF Init
  <2>2. cmd \in Seq(CmdT) /\ Len(cmd) = 0
    BY DEF Init
  <2> QED
    BY <2>1, <2>2 DEF Init, CallerTypeOK
<1>2. ReadTypeOK
  <2>1. sound \in BOOLEAN
    BY Zenon DEF Init
  <2> QED
    BY <2>1 DEF Init, ReadTypeOK
<1>3. ChildrenTypeOK
  BY DEF Init, ChildrenTypeOK, Plan
<1>4. ReadsAsk
  BY DEF Init, ReadsAsk
<1> QED
  BY <1>1, <1>2, <1>3, <1>4 DEF JobInv, JobTypeOK

\* Adding a job to the list.
LEMMA InvStart ==
    ASSUME JobInv, NEW j \in Job, cmd_start(j) \/ ForkFails(j)
    PROVE  JobInv'
<1> USE DEF JobInv, JobTypeOK
<1> USE SizesAssumption
<1>1. PICK pid \in Job \cup {NoPid} : Start(j, pid)
  BY DEF cmd_start, ForkFails
<1>2. CallerTypeOK'
  <2>1. cmd' = Append(cmd, NewJob(pid)) /\ NewJob(pid) \in CmdT
    BY <1>1, NewJobType DEF Start, cmdcol_add, NewJob
  <2>2. Len(cmd) + 1 = j /\ j <= MaxJobs
    BY <1>1 DEF Start, Job
  <2>3. cmd' \in Seq(CmdT) /\ Len(cmd') = j
    BY <2>1, <2>2 DEF CallerTypeOK
  <2>4. pc' \in {"call", "lost"} /\ UNCHANGED <<cur, all>>
    BY <1>1 DEF Start, cmdcol_add
  <2> QED
    BY <2>2, <2>3, <2>4 DEF CallerTypeOK
<1>3. ReadTypeOK'
  <2>1. sound' \in BOOLEAN
    BY Zenon DEF cmd_start, ForkFails, ReadTypeOK
  <2>2. fds' \in [Fd -> Job \cup {None}]
    BY <1>1 DEF Start, ReadTypeOK
  <2> QED
    BY <1>1, <2>1, <2>2 DEF Start, ReadTypeOK, read_all_vars
<1>4. ChildrenTypeOK'
  <2>1. UNCHANGED <<wrote, pipe>>
    BY <1>1 DEF Start
  <2>2. CASE cmd_start(j)
    <3>1. PICK p \in Plan :
            /\ plan' = [plan EXCEPT ![j] = p]
            /\ proc' = [proc EXCEPT ![j] = IF p.end = "noexec" THEN "stray" ELSE "run"]
      BY <2>2 DEF cmd_start
    <3> QED
      BY <2>1, <3>1 DEF ChildrenTypeOK
  <2>3. CASE ForkFails(j)
    BY <2>1, <2>3 DEF ForkFails, ChildrenTypeOK
  <2> QED
    BY <2>2, <2>3
<1>5. ReadsAsk'
  BY <1>1 DEF Start, cmdcol_add, ReadsAsk
<1> QED
  BY <1>2, <1>3, <1>4, <1>5

\* The commands' steps.
LEMMA InvCommand ==
    ASSUME JobInv, NEW j \in Job, Write(j) \/ End(j)
    PROVE  JobInv'
<1> USE DEF JobInv, JobTypeOK
<1> USE SizesAssumption
<1>1. CallerTypeOK' /\ ReadTypeOK' /\ ReadsAsk'
  BY DEF Write, End, CallerTypeOK, ReadTypeOK, ReadsAsk, read_all_vars
<1>2. CASE Write(j)
  <2>1. wrote' \in [Job -> 0 .. MaxOutput]
    <3>1. plan[j].bytes \in 0 .. MaxOutput
      BY DEF ChildrenTypeOK, Plan
    <3> QED
      BY <1>2, <3>1 DEF Write, ChildrenTypeOK
  <2>2. pipe' \in [Job -> 0 .. PipeSize]
    BY <1>2 DEF Write, ChildrenTypeOK
  <2> QED
    BY <1>1, <1>2, <2>1, <2>2 DEF Write, ChildrenTypeOK
<1>3. CASE End(j)
  BY <1>1, <1>3 DEF End, ChildrenTypeOK
<1> QED
  BY <1>2, <1>3

\* The calls that begin or end something and touch no job.
LEMMA InvCall ==
    ASSUME JobInv,
           \/ WasFinished \/ FetchDone \/ cmdcol_update_state \/ cmdcol_freeall
           \/ FirstLine \/ SecondLine
           \/ \E j \in Job : WaitFor(j) \/ cmd_fetch_output(j)
    PROVE  JobInv'
<1> USE DEF JobInv, JobTypeOK, children, read_all_vars
<1> USE SizesAssumption
<1>1. CallerTypeOK'
  <2>1. cmd' = cmd
    BY DEF WasFinished, FetchDone, cmdcol_update_state, cmdcol_freeall, FirstLine, SecondLine,
       WaitFor, cmd_fetch_output
  <2>2. all' \in BOOLEAN
    BY Zenon DEF WasFinished, FetchDone, cmdcol_update_state, cmdcol_freeall, FirstLine,
       SecondLine, WaitFor, cmd_fetch_output, CallerTypeOK
  <2>3. CASE WasFinished \/ FetchDone
    <3>1. Return
      BY <2>3 DEF WasFinished, FetchDone
    <3>2. \/ cur < Len(cmd) /\ pc' = "wait" /\ cur' = cur + 1
          \/ pc' = "call" /\ cur' = cur
      BY <3>1, Zenon DEF Return
    <3> QED
      BY <2>1, <2>2, <3>2 DEF CallerTypeOK
  <2>4. CASE cmdcol_update_state
    BY <2>1, <2>2, <2>4 DEF cmdcol_update_state, CallerTypeOK
  <2>5. CASE \E j \in Job : WaitFor(j) \/ cmd_fetch_output(j)
    BY <2>1, <2>2, <2>5 DEF WaitFor, cmd_fetch_output, CallerTypeOK, Job
  <2>6. CASE cmdcol_freeall \/ FirstLine \/ SecondLine
    BY <2>1, <2>2, <2>6 DEF cmdcol_freeall, FirstLine, SecondLine, CallerTypeOK
  <2> QED
    BY <2>3, <2>4, <2>5, <2>6
<1>2. ReadTypeOK'
  <2>1. UNCHANGED read_all_vars
    BY DEF WasFinished, FetchDone, cmdcol_update_state, cmdcol_freeall, FirstLine, SecondLine,
       WaitFor, cmd_fetch_output
  <2>2. \/ UNCHANGED <<fds, sound>>
        \/ cmdcol_freeall
        \/ \E j : CloseReadEnd(j)
    BY DEF WasFinished, FetchDone, cmdcol_update_state, FirstLine, SecondLine,
       WaitFor, cmd_fetch_output
  <2>3. fds' \in [Fd -> Job \cup {None}]
    BY <2>2 DEF cmdcol_freeall, CloseReadEnd, ReadTypeOK
  <2>4. sound' \in BOOLEAN
    <3>1. CASE \E j : CloseReadEnd(j)
      <4>1. PICK j : sound' = (sound /\ PipeOf(j) \in {j, None})
        BY <3>1 DEF CloseReadEnd
      <4>2. (PipeOf(j) \in {j, None}) \in BOOLEAN
        OBVIOUS
      <4> QED
        BY <4>1, <4>2, Zenon DEF ReadTypeOK
    <3>2. CASE sound' = sound
      BY <3>2 DEF ReadTypeOK
    <3> QED
      BY <2>2, <3>1, <3>2, Zenon DEF cmdcol_freeall
  <2> QED
    BY <2>1, <2>3, <2>4 DEF ReadTypeOK
<1>3. ChildrenTypeOK'
  BY DEF WasFinished, FetchDone, cmdcol_update_state, cmdcol_freeall, FirstLine, SecondLine,
     WaitFor, cmd_fetch_output, ChildrenTypeOK
<1>4. ReadsAsk'
  BY DEF WasFinished, FetchDone, Return, cmdcol_update_state, cmdcol_freeall, FirstLine,
     SecondLine, WaitFor, cmd_fetch_output, ReadsAsk
<1> QED
  BY <1>1, <1>2, <1>3, <1>4

\* waitpid, and the reads and the last read of read_all.
LEMMA InvWait ==
    ASSUME JobInv, WaitPid \/ WaitAny \/ ReadSome \/ ReadEnd
    PROVE  JobInv'
<1> USE DEF JobInv, JobTypeOK
<1> USE SizesAssumption
<1>1. CASE WaitAny
  <2>1. CallerTypeOK' /\ ReadTypeOK' /\ ReadsAsk'
    BY <1>1 DEF WaitAny, CallerTypeOK, ReadTypeOK, ReadsAsk, read_all_vars
  <2>2. ChildrenTypeOK'
    BY <1>1 DEF WaitAny, ChildrenTypeOK
  <2> QED
    BY <2>1, <2>2
<1>2. CASE WaitPid
  <2>c. cur \in 1 .. Len(cmd) /\ cmd[cur] \in CmdT /\ cur \in Job
    BY <1>2 DEF WaitPid, CallerTypeOK, Job
  <2>1. ChildrenTypeOK'
    BY <1>2 DEF WaitPid, ChildrenTypeOK
  <2>2. CASE proc[cur] = "killed"
    BY <1>2, <2>1, <2>2 DEF WaitPid, CallerTypeOK, ReadTypeOK, ReadsAsk, read_all_vars
  <2>3. CASE proc[cur] # "killed"
    <3> DEFINE s == ExitStatus[plan[cur].end]
               t == StrStatus(s, cmd[cur].str_status)
               c == [cmd[cur] EXCEPT !.finished = TRUE, !.status = s, !.str_status = t]
    <3>1. s \in {0, 1, 2}
      <4>1. proc[cur] = "exit" /\ plan[cur] \in Plan /\ plan[cur].end # "killed"
        BY <1>2, <2>c, <2>3 DEF WaitPid, Ended, ChildrenTypeOK
      <4> QED
        BY <4>1, ExitStatusType
    <3>2. t \in {"RUN", "EXIT(0)", "EXIT(1)"}
      BY <2>c DEF StrStatus, CmdT
    <3>3. cmd' = [cmd EXCEPT ![cur] = c]
      BY <1>2, <2>3 DEF WaitPid
    <3>4. /\ pc' = "read" /\ cur_pos' = 0 /\ max_size' = BUFSIZE
          /\ UNCHANGED <<cur, all, fds, sound>>
      BY <1>2, <2>3 DEF WaitPid
    <3>i. s \in Int
      BY <3>1
    <3> HIDE DEF s, t
    <3>5. c \in CmdT
      BY <2>c, <3>i, <3>2, EndedJobType, Zenon
    <3> HIDE DEF c
    <3>6. cmd' \in Seq(CmdT) /\ Len(cmd') = Len(cmd)
      BY <2>c, <3>3, <3>5, ListType DEF CallerTypeOK
    <3>7. CallerTypeOK'
      BY <1>2, <2>c, <3>4, <3>6 DEF CallerTypeOK
    <3>8. ReadTypeOK' /\ ReadsAsk'
      BY <3>4 DEF ReadTypeOK, ReadsAsk
    <3> QED
      BY <2>1, <3>7, <3>8
  <2> QED
    BY <2>2, <2>3
<1>3. CASE ReadSome
  <2> DEFINE p == PipeOf(cur)
             n == Least(pipe[p], max_size - cur_pos)
  <2>1. /\ pc = "read" /\ p # None /\ n > 0
        /\ pipe' = [pipe EXCEPT ![p] = @ - n]
        /\ cur_pos' = cur_pos + n
        /\ max_size' = Grow(cur_pos + n)
        /\ UNCHANGED <<pc, cmd, cur, all, fds, proc, plan, wrote, sound>>
    BY <1>3 DEF ReadSome
  <2>2. p \in Job
    BY <2>1 DEF PipeOf, ReadTypeOK
  <2>3. /\ pipe[p] \in Nat /\ pipe[p] <= PipeSize
        /\ cur_pos \in Nat /\ max_size \in Nat /\ cur_pos < max_size
    BY <2>1, <2>2 DEF ChildrenTypeOK, ReadTypeOK, ReadsAsk
  <2>4. n \in Nat /\ n <= pipe[p] /\ n <= max_size - cur_pos
    BY <2>3 DEF Least
  <2>5. CallerTypeOK'
    BY <2>1 DEF CallerTypeOK
  <2>6. ReadTypeOK' /\ ReadsAsk'
    <3> HIDE DEF n, p
    <3>1. cur_pos' \in Nat /\ max_size' \in Nat /\ cur_pos' < max_size'
      BY <2>1, <2>3, <2>4 DEF Grow
    <3> QED
      BY <2>1, <3>1 DEF ReadTypeOK, ReadsAsk
  <2>7. ChildrenTypeOK'
    <3> HIDE DEF n, p
    <3> QED
      BY <2>1, <2>2, <2>3, <2>4 DEF ChildrenTypeOK
  <2> QED
    BY <2>5, <2>6, <2>7
<1>4. CASE ReadEnd
  <2>c. cur \in 1 .. Len(cmd) /\ cmd[cur] \in CmdT
    BY <1>4 DEF ReadEnd, CallerTypeOK
  <2>1. PICK o \in Output : cmd' = [cmd EXCEPT ![cur].output = o]
    <3>1. PipeOf(cur) \in Job \cup {None}
      BY DEF PipeOf, ReadTypeOK
    <3>2. cur_pos \in Nat
      BY DEF ReadTypeOK
    <3> DEFINE o == [from |-> PipeOf(cur), size |-> IF PipeOf(cur) = None THEN -1 ELSE cur_pos]
    <3>3. o \in Output
      BY <3>1, <3>2 DEF Output
    <3>4. cmd' = [cmd EXCEPT ![cur].output = o]
      BY <1>4 DEF ReadEnd
    <3> QED
      BY <3>3, <3>4
  <2>2. cmd' \in Seq(CmdT) /\ Len(cmd') = Len(cmd)
    <3>1. [cmd[cur] EXCEPT !.output = o] \in CmdT
      BY <2>c, FetchedJobType
    <3>2. cmd' = [cmd EXCEPT ![cur] = [cmd[cur] EXCEPT !.output = o]]
      BY <2>1
    <3> QED
      BY <2>c, <3>1, <3>2, ListType DEF CallerTypeOK
  <2>3. CallerTypeOK'
    BY <1>4, <2>c, <2>2 DEF ReadEnd, CallerTypeOK
  <2>4. ReadTypeOK' /\ ReadsAsk' /\ ChildrenTypeOK'
    BY <1>4 DEF ReadEnd, ReadTypeOK, ReadsAsk, ChildrenTypeOK, read_all_vars, children
  <2> QED
    BY <2>3, <2>4
<1> QED
  BY <1>1, <1>2, <1>3, <1>4

\* Every step preserves the invariant.
LEMMA InvStep == JobInv /\ [Next]_vars => JobInv'
<1> SUFFICES ASSUME JobInv, [Next]_vars PROVE JobInv'
  OBVIOUS
<1>1. CASE UNCHANGED vars
  BY <1>1 DEF vars, read_all_vars, children, JobInv, JobTypeOK, CallerTypeOK, ReadTypeOK,
     ChildrenTypeOK, ReadsAsk
<1>2. CASE CallerStep
  BY <1>2, InvCall, InvWait DEF CallerStep
<1>3. CASE Calls
  BY <1>3, InvCall, InvStart DEF Calls
<1>4. CASE \E j \in Job : Write(j) \/ End(j)
  BY <1>4, InvCommand
<1> QED
  BY <1>1, <1>2, <1>3, <1>4 DEF Next

\* The inductive invariant holds in every behaviour.
THEOREM InvCorrect == Spec => []JobInv
BY JobInit, InvStep, PTL DEF Spec

\* Type correctness, for lists, pipes and buffers of every size.
THEOREM JobTypeCorrect == Spec => []JobTypeOK
<1>1. JobInv => JobTypeOK
  BY DEF JobInv
<1> QED
  BY <1>1, InvCorrect, PTL

\* read_all never asks for 0 bytes, which would look like the end of the output, and
\* its terminator fits, for every size of the first buffer and of the pipe.
THEOREM ReadsAskCorrect == Spec => []ReadsAsk
<1>1. JobInv => ReadsAsk
  BY DEF JobInv
<1> QED
  BY <1>1, InvCorrect, PTL

-----------------------------------------------------------------------------
(* Whose output it is *)

\* A call's place and the jobs' fields go together; a job has written all that its
\* command writes by the time it is reaped.
CallInv ==
    /\ \A j \in Job : j > Len(cmd) => proc[j] = "none" /\ wrote[j] = 0 /\ pipe[j] = 0
    /\ \A j \in Job : proc[j] \in {"exit", "killed", "reaped"} => wrote[j] = plan[j].bytes
    /\ \A j \in Jobs : cmd[j].finished =>
            proc[j] = "reaped" /\ cmd[j].status = ExitStatus[plan[j].end]
    /\ \A j \in Jobs : cmd[j].output # None => cmd[j].finished
    /\ \A j \in Jobs : cmd[j].finished => cmd[j].output # None \/ (pc = "read" /\ cur = j)
    /\ pc = "read" => cmd[cur].finished /\ cmd[cur].output = None
    /\ pc = "close" => cmd[cur].output # None

\* DescriptorsMatch, and that no descriptor is of a job that has not been started.
FdInv ==
    sound /\ Running =>
        /\ \A f \in Fd : fds[f] # None => fds[f] \in Jobs /\ cmd[fds[f]].rfd = f
        /\ \A j \in Jobs : cmd[j].rfd # NoFd =>
            (PipeOf(j) = j <=> cmd[j].output = None \/ (pc = "close" /\ cur = j))

\* What the read_all under way has read of a job's output.
ReadSoFar(j) == IF pc = "read" /\ cur = j THEN cur_pos ELSE 0

\* No byte of a job is lost or another's: what its command has written is in its
\* pipe or has been read by the read_all under way, and in the end is its output.
BytesInv ==
    sound => \A j \in Jobs : cmd[j].rfd # NoFd =>
        /\ cmd[j].output = None => wrote[j] = pipe[j] + ReadSoFar(j)
        /\ cmd[j].output # None => cmd[j].output = [from |-> j, size |-> wrote[j]]

OwnInv == CallInv /\ FdInv /\ BytesInv

\* It says what the properties say.
LEMMA OwnInvSays == JobInv /\ OwnInv => OutputIsOwn /\ DescriptorsMatch
<1> SUFFICES ASSUME JobInv, OwnInv PROVE OutputIsOwn /\ DescriptorsMatch
  OBVIOUS
<1>1. OutputIsOwn
  <2> SUFFICES ASSUME sound, NEW j \in Jobs, cmd[j].output # None, cmd[j].rfd # NoFd
               PROVE  /\ cmd[j].output = [from |-> j, size |-> wrote[j]]
                      /\ wrote[j] = plan[j].bytes
                      /\ cmd[j].status = ExitStatus[plan[j].end]
    BY DEF OutputIsOwn
  <2>1. j \in Job
    BY SizesAssumption DEF Jobs, Job, JobInv, JobTypeOK, CallerTypeOK
  <2>2. cmd[j].output = [from |-> j, size |-> wrote[j]]
    BY DEF OwnInv, BytesInv
  <2>3. proc[j] = "reaped" /\ cmd[j].status = ExitStatus[plan[j].end]
    BY DEF OwnInv, CallInv
  <2>4. wrote[j] = plan[j].bytes
    BY <2>1, <2>3 DEF OwnInv, CallInv
  <2> QED
    BY <2>2, <2>3, <2>4
<1>2. DescriptorsMatch
  BY DEF OwnInv, FdInv, DescriptorsMatch
<1> QED
  BY <1>1, <1>2

\* It holds initially.
LEMMA OwnInit == Init => OwnInv
BY SizesAssumption DEF Init, OwnInv, CallInv, FdInv, BytesInv, Jobs, Running

\* A job that is started: the list, the descriptors and the pipes stay apart.
LEMMA OwnStart ==
    ASSUME JobInv, OwnInv, NEW j \in Job, cmd_start(j) \/ ForkFails(j)
    PROVE  OwnInv'
<1> USE SizesAssumption
<1> CallInv /\ FdInv /\ BytesInv
  BY DEF OwnInv
<1>t. cmd \in Seq(CmdT) /\ Len(cmd) \in Nat /\ fds \in [Fd -> Job \cup {None}] /\ j \in Nat
  BY DEF JobInv, JobTypeOK, CallerTypeOK, ReadTypeOK, Job
<1>c. ChildrenTypeOK
  BY DEF JobInv, JobTypeOK
<1>1. PICK pid \in Job \cup {NoPid} : Start(j, pid)
  BY DEF cmd_start, ForkFails
<1> DEFINE c == NewJob(pid)
<1>2. /\ c \in CmdT /\ c.rfd = PipeFd /\ c.finished = FALSE /\ c.status = -1
      /\ c.str_status = "RUN" /\ c.output = None
  BY NewJobType
<1>3. /\ pc = "call" /\ pc' \in {"call", "lost"} /\ j = Len(cmd) + 1
      /\ cmd' = Append(cmd, c)
      /\ fds' = [f \in Fd |-> IF f = PipeFd THEN j ELSE fds[f]]
      /\ UNCHANGED <<cur, cur_pos, max_size, wrote, pipe>>
  BY <1>1 DEF Start, cmdcol_add, NewJob, read_all_vars
<1> HIDE DEF c
<1>4. /\ Len(cmd') = j /\ Jobs' = Jobs \cup {j} /\ j \notin Jobs
      /\ cmd'[j] = c /\ \A i \in Jobs : cmd'[i] = cmd[i]
  BY <1>t, <1>2, <1>3 DEF Jobs
<1>5. \A i \in Job : i # j => proc'[i] = proc[i] /\ plan'[i] = plan[i]
  BY <1>c DEF cmd_start, ForkFails, ChildrenTypeOK
<1>6. proc'[j] \in {"none", "run", "stray"}
  BY <1>c, <1>3 DEF cmd_start, ForkFails, ChildrenTypeOK, CallInv
<1>7. sound' => sound
  BY Zenon DEF cmd_start, ForkFails
<1>8. Jobs \subseteq Job
  BY DEF Jobs, Job, JobInv, JobTypeOK, CallerTypeOK
<1>9. CallInv'
  <2>1. \A i \in Job : i > Len(cmd') => proc'[i] = "none" /\ wrote'[i] = 0 /\ pipe'[i] = 0
    BY <1>3, <1>4, <1>5, <1>t DEF CallInv, Job
  <2>2. \A i \in Job : proc'[i] \in {"exit", "killed", "reaped"} => wrote'[i] = plan'[i].bytes
    BY <1>3, <1>5, <1>6 DEF CallInv
  <2>3. \A i \in Jobs' : cmd'[i].finished =>
          proc'[i] = "reaped" /\ cmd'[i].status = ExitStatus[plan'[i].end]
    BY <1>2, <1>4, <1>5, <1>8 DEF CallInv
  <2>4. \A i \in Jobs' : cmd'[i].output # None => cmd'[i].finished
    BY <1>2, <1>3, <1>4 DEF CallInv
  <2>5. \A i \in Jobs' : cmd'[i].finished => cmd'[i].output # None \/ (pc' = "read" /\ cur' = i)
    BY <1>2, <1>3, <1>4 DEF CallInv
  <2>6. pc' # "read" /\ pc' # "close"
    BY <1>3
  <2> QED
    BY <2>1, <2>2, <2>3, <2>4, <2>5, <2>6, Zenon DEF CallInv
<1>10. FdInv'
  <2> SUFFICES ASSUME sound, Running
               PROVE  /\ \A f \in Fd : fds'[f] # None => fds'[f] \in Jobs' /\ cmd'[fds'[f]].rfd = f
                      /\ \A i \in Jobs' : cmd'[i].rfd # NoFd =>
                           (PipeOf(i)' = i <=> cmd'[i].output = None)
    BY <1>3, <1>7 DEF FdInv, Running
  <2>1. \A f \in Fd : fds[f] # None => fds[f] \in Jobs /\ cmd[fds[f]].rfd = f
    BY DEF FdInv
  <2>2. \A f \in Fd : fds'[f] # None => fds'[f] \in Jobs' /\ cmd'[fds'[f]].rfd = f
    BY <1>2, <1>3, <1>4, <2>1
  <2>3. ASSUME NEW i \in Jobs, cmd[i].rfd # NoFd
        PROVE  PipeOf(i)' = i <=> cmd'[i].output = None
    <3>1. PipeOf(i) = i <=> cmd[i].output = None
      BY <1>3, <2>3 DEF FdInv
    <3>2. cmd[i].rfd \in Fd /\ cmd'[i] = cmd[i] /\ i # j /\ i # None
      <4>1. cmd[i] \in CmdT
        BY <1>t DEF Jobs
      <4>2. cmd[i].rfd \in Fd
        BY <2>3, <4>1 DEF CmdT
      <4>3. cmd'[i] = cmd[i] /\ i # j /\ i \in Job
        BY <1>4, <1>8
      <4> QED
        BY <4>2, <4>3
    <3>3. PipeOf(i) = fds[cmd[i].rfd] /\ PipeOf(i)' = fds'[cmd[i].rfd]
      BY <3>2 DEF PipeOf
    <3>4. CASE cmd[i].rfd # PipeFd
      BY <1>3, <3>1, <3>2, <3>3, <3>4
    <3>5. CASE cmd[i].rfd = PipeFd
      <4>1. fds[cmd[i].rfd] = None
        BY <3>2, <3>5, PipeFdFree, FdsAreNotZero DEF FreeFds
      <4> QED
        BY <1>3, <3>1, <3>2, <3>3, <3>5, <4>1
    <3> QED
      BY <3>4, <3>5
  <2>4. cmd'[j].rfd # NoFd => PipeOf(j)' = j
    <3>1. PipeFd # NoFd => PipeFd \in Fd
      BY PipeFdFree
    <3> QED
      BY <1>2, <1>3, <1>4, <3>1 DEF PipeOf
  <2> QED
    BY <1>2, <1>4, <2>2, <2>3, <2>4
<1>11. BytesInv'
  <2>1. wrote[j] = 0 /\ pipe[j] = 0
    BY <1>3, <1>t DEF CallInv
  <2>2. \A i : ReadSoFar(i) = 0 /\ ReadSoFar(i)' = 0
    BY <1>3 DEF ReadSoFar
  <2> SUFFICES ASSUME sound, NEW i \in Jobs', cmd'[i].rfd # NoFd
               PROVE  /\ cmd'[i].output = None => wrote'[i] = pipe'[i] + ReadSoFar(i)'
                      /\ cmd'[i].output # None =>
                          cmd'[i].output = [from |-> i, size |-> wrote'[i]]
    BY <1>7 DEF BytesInv
  <2>3. CASE i = j
    BY <1>2, <1>3, <1>4, <2>1, <2>2, <2>3
  <2>4. CASE i \in Jobs
    <3>1. cmd'[i] = cmd[i] /\ wrote' = wrote /\ pipe' = pipe /\ ReadSoFar(i)' = ReadSoFar(i)
      BY <1>3, <1>4, <2>2, <2>4
    <3> QED
      BY <2>4, <3>1 DEF BytesInv
  <2> QED
    BY <1>4, <2>3, <2>4
<1> QED
  BY <1>9, <1>10, <1>11 DEF OwnInv

\* FdInv depends on the list, the descriptors and the call alone.
LEMMA FdSame ==
    ASSUME FdInv, UNCHANGED <<cmd, fds, sound>>,
           \/ pc' = pc /\ cur' = cur
           \/ pc' \notin {"call", "wait", "read", "close"}
           \/ pc # "close" /\ pc' # "close" /\ Running
    PROVE  FdInv'
<1>1. Jobs' = Jobs /\ \A i : PipeOf(i)' = PipeOf(i)
  BY DEF Jobs, PipeOf
<1> QED
  BY <1>1 DEF FdInv, Running

\* A command writes a byte, or ends.
LEMMA OwnCommand ==
    ASSUME JobInv, OwnInv, NEW j \in Job, Write(j) \/ End(j)
    PROVE  OwnInv'
<1> CallInv /\ FdInv /\ BytesInv
  BY DEF OwnInv
<1>t. ChildrenTypeOK /\ Len(cmd) \in Nat /\ j \in Nat \ {0}
  BY SizesAssumption DEF JobInv, JobTypeOK, CallerTypeOK, Job
<1>1. UNCHANGED <<pc, cmd, cur, cur_pos, fds, plan, sound>> /\ proc[j] \in {"run", "stray"}
  BY DEF Write, End, read_all_vars
<1>2. Jobs' = Jobs /\ j \in Jobs /\ ~cmd[j].finished /\ cmd[j].output = None
  <2>1. Jobs' = Jobs /\ j \in Jobs
    BY <1>1, <1>t DEF Jobs, CallInv
  <2>2. ~cmd[j].finished
    BY <1>1, <2>1 DEF CallInv
  <2> QED
    BY <2>1, <2>2 DEF CallInv
<1>3. FdInv'
  BY <1>1, FdSame
<1>4. \A i : ReadSoFar(i)' = ReadSoFar(i)
  BY <1>1 DEF ReadSoFar
<1>5. CASE Write(j)
  <2>1. /\ proc' = proc /\ proc[j] = "run"
        /\ wrote' = [wrote EXCEPT ![j] = @ + 1]
        /\ \/ cmd[j].rfd = NoFd /\ pipe' = pipe
           \/ cmd[j].rfd # NoFd /\ pipe' = [pipe EXCEPT ![j] = @ + 1]
    BY <1>5 DEF Write
  <2>2. \A i \in Job : i # j => wrote'[i] = wrote[i] /\ pipe'[i] = pipe[i]
    BY <1>t, <2>1 DEF ChildrenTypeOK
  <2>3. CallInv'
    <3>1. \A i \in Job : i > Len(cmd') => i # j
      BY <1>1, <1>2 DEF Jobs
    <3> QED
      BY <1>1, <1>2, <2>1, <2>2, <3>1 DEF CallInv
  <2>4. BytesInv'
    <3> SUFFICES ASSUME sound, NEW i \in Jobs, cmd[i].rfd # NoFd
                 PROVE  /\ cmd[i].output = None => wrote'[i] = pipe'[i] + ReadSoFar(i)
                        /\ cmd[i].output # None => cmd[i].output = [from |-> i, size |-> wrote'[i]]
      BY <1>1, <1>2, <1>4 DEF BytesInv
    <3>1. CASE i = j
      <4>1. wrote[j] = pipe[j] + ReadSoFar(j)
        BY <1>2, <3>1 DEF BytesInv
      <4>2. ReadSoFar(j) \in Nat
        BY DEF ReadSoFar, JobInv, JobTypeOK, ReadTypeOK
      <4>3. wrote'[j] = wrote[j] + 1 /\ pipe'[j] = pipe[j] + 1 /\ pipe[j] \in Nat
        BY <1>t, <2>1, <3>1 DEF ChildrenTypeOK
      <4> QED
        BY <1>2, <3>1, <4>1, <4>2, <4>3
    <3>2. CASE i # j
      <4>1. i \in Job
        BY SizesAssumption DEF Jobs, Job, JobInv, JobTypeOK, CallerTypeOK
      <4> QED
        BY <2>2, <3>2, <4>1 DEF BytesInv
    <3> QED
      BY <3>1, <3>2
  <2> QED
    BY <1>3, <2>3, <2>4 DEF OwnInv
<1>6. CASE End(j)
  <2>1. /\ UNCHANGED <<wrote, pipe>> /\ wrote[j] = plan[j].bytes
        /\ \A i \in Job : i # j => proc'[i] = proc[i]
        /\ proc'[j] # "none"
    BY <1>6, <1>t DEF End, ChildrenTypeOK
  <2>2. CallInv'
    <3>1. \A i \in Job : i > Len(cmd') => i # j
      BY <1>1, <1>2 DEF Jobs
    <3>2. \A i \in Jobs : i \in Job
      BY SizesAssumption DEF Jobs, Job, JobInv, JobTypeOK, CallerTypeOK
    <3> QED
      BY <1>1, <1>2, <2>1, <3>1, <3>2 DEF CallInv
  <2>3. BytesInv'
    BY <1>1, <1>2, <1>4, <2>1 DEF BytesInv
  <2> QED
    BY <1>3, <2>2, <2>3 DEF OwnInv
<1> QED
  BY <1>5, <1>6

\* The calls that look at a job, and the ends of the program.
LEMMA OwnCall ==
    ASSUME JobInv, OwnInv,
           \/ WasFinished \/ WaitAny \/ cmdcol_update_state \/ cmdcol_freeall \/ FirstLine \/ SecondLine
           \/ \E j \in Job : WaitFor(j)
    PROVE  OwnInv'
<1> USE DEF WasFinished, Return, WaitAny, cmdcol_update_state, cmdcol_freeall, FirstLine, SecondLine,
        WaitFor, children
<1> CallInv /\ FdInv /\ BytesInv
  BY DEF OwnInv
<1>t. ChildrenTypeOK
  BY DEF JobInv, JobTypeOK
<1>1. /\ UNCHANGED <<cmd, plan, wrote, pipe, sound>> /\ pc # "read" /\ pc' # "read" /\ pc # "close"
      /\ pc' # "close" /\ Jobs' = Jobs
  BY DEF Jobs
<1>2. \/ proc' = proc
      \/ \E j \in Job : Ended(j) /\ proc' = [proc EXCEPT ![j] = "reaped"]
  OBVIOUS
<1>3. \A j \in Job : /\ proc'[j] = proc[j] \/ (Ended(j) /\ proc'[j] = "reaped")
  BY <1>t, <1>2 DEF ChildrenTypeOK
<1>4. CallInv'
  <2>1. \A j \in Jobs : j \in Job
    BY SizesAssumption DEF Jobs, Job, JobInv, JobTypeOK, CallerTypeOK
  <2> QED
    BY <1>1, <1>3, <2>1 DEF CallInv, Ended
<1>5. FdInv'
  BY <1>1, FdSame DEF FdInv, Running
<1>6. BytesInv'
  BY <1>1 DEF BytesInv, ReadSoFar
<1> QED
  BY <1>4, <1>5, <1>6 DEF OwnInv

\* A descriptor is closed: the job's own, or one that is closed already, or sound no
\* more holds.
LEMMA OwnClose ==
    ASSUME JobInv, OwnInv, FetchDone \/ \E j \in Job : cmd_fetch_output(j)
    PROVE  OwnInv'
<1> CallInv /\ FdInv /\ BytesInv
  BY DEF OwnInv
<1>t. cmd \in Seq(CmdT) /\ fds \in [Fd -> Job \cup {None}]
  BY DEF JobInv, JobTypeOK, CallerTypeOK, ReadTypeOK
<1>j. \A i \in Jobs : i \in Job /\ i # None /\ cmd[i] \in CmdT
  BY <1>t, SizesAssumption DEF Jobs, Job, JobInv, JobTypeOK, CallerTypeOK
<1>1. UNCHANGED <<cmd, plan, wrote, pipe, proc>> /\ pc' \in {"call", "wait"} /\ Jobs' = Jobs
      /\ pc \in {"call", "close"}
  BY DEF FetchDone, Return, cmd_fetch_output, children, Jobs
<1>2. PICK j \in Jobs : CloseReadEnd(j) /\ cmd[j].output # None /\ (pc = "close" => cur = j)
  <2>1. CASE FetchDone
    <3>1. cur \in Jobs /\ cmd[cur].output # None
      BY <2>1 DEF FetchDone, CallInv, Jobs, JobInv, JobTypeOK, CallerTypeOK
    <3> QED
      BY <2>1, <3>1 DEF FetchDone
  <2>2. CASE \E j \in Job : cmd_fetch_output(j)
    <3>1. PICK j \in Job : cmd_fetch_output(j)
      BY <2>2
    <3>2. j \in Jobs /\ pc = "call" /\ cmd[j].finished /\ CloseReadEnd(j)
      BY <3>1 DEF cmd_fetch_output, Jobs
    <3> QED
      BY <3>2 DEF CallInv
  <2> QED
    BY <2>1, <2>2
<1>3. /\ fds' = [f \in Fd |-> IF f = cmd[j].rfd THEN None ELSE fds[f]]
      /\ sound' => sound /\ PipeOf(j) \in {j, None}
  BY <1>2, Zenon DEF CloseReadEnd
<1>4. CallInv'
  BY <1>1 DEF CallInv
<1>5. BytesInv'
  BY <1>1, <1>3 DEF BytesInv, ReadSoFar
<1>6. FdInv'
  <2> SUFFICES ASSUME sound'
               PROVE  /\ \A f \in Fd : fds'[f] # None => fds'[f] \in Jobs /\ cmd[fds'[f]].rfd = f
                      /\ \A i \in Jobs : cmd[i].rfd # NoFd =>
                           (PipeOf(i)' = i <=> cmd[i].output = None)
    BY <1>1 DEF FdInv
  <2>1. sound /\ Running /\ PipeOf(j) \in {j, None}
    BY <1>1, <1>3 DEF Running
  <2>2. \A f \in Fd : fds'[f] # None => fds'[f] \in Jobs /\ cmd[fds'[f]].rfd = f
    BY <1>3, <2>1 DEF FdInv
  <2>3. ASSUME NEW i \in Jobs, cmd[i].rfd # NoFd
        PROVE  PipeOf(i)' = i <=> cmd[i].output = None
    <3>1. cmd[i].rfd \in Fd
      BY <1>j, <2>3 DEF CmdT
    <3>2. PipeOf(i) = fds[cmd[i].rfd] /\ PipeOf(i)' = fds'[cmd[i].rfd]
      BY <1>1, <3>1 DEF PipeOf
    <3>3. PipeOf(i) = i <=> cmd[i].output = None \/ (pc = "close" /\ cur = i)
      BY <2>1, <2>3 DEF FdInv
    <3>4. CASE i = j
      <4>1. PipeOf(i)' = None
        BY <1>3, <3>1, <3>2, <3>4
      <4> QED
        BY <1>2, <1>j, <3>4, <4>1
    <3>5. CASE i # j /\ cmd[i].rfd = cmd[j].rfd
      <4>1. PipeOf(i)' = None /\ PipeOf(i) \in {j, None}
        <5>1. PipeOf(i) = PipeOf(j)
          BY <3>5 DEF PipeOf
        <5> QED
          BY <1>3, <2>1, <3>1, <3>2, <3>5, <5>1
      <4> QED
        BY <1>2, <1>j, <3>3, <3>5, <4>1
    <3>6. CASE i # j /\ cmd[i].rfd # cmd[j].rfd
      <4>1. PipeOf(i)' = PipeOf(i)
        BY <1>3, <3>1, <3>2, <3>6
      <4> QED
        BY <1>2, <3>3, <3>6, <4>1
    <3> QED
      BY <3>4, <3>5, <3>6
  <2> QED
    BY <2>2, <2>3
<1> QED
  BY <1>4, <1>5, <1>6 DEF OwnInv

\* Behind the descriptor of a job whose output is being read there is its own pipe.
LEMMA OwnPipe ==
    ASSUME JobInv, OwnInv, sound, pc = "read"
    PROVE  /\ cur \in Jobs /\ cur \in Job /\ cur # None
           /\ cmd[cur].rfd # NoFd => PipeOf(cur) = cur
           /\ cmd[cur].rfd = NoFd => PipeOf(cur) = None
<1>1. cur \in Jobs /\ cur \in Job /\ cur # None
  BY SizesAssumption DEF Jobs, Job, JobInv, JobTypeOK, CallerTypeOK
<1>2. cmd[cur].output = None
  BY DEF OwnInv, CallInv
<1>3. cmd[cur].rfd # NoFd => PipeOf(cur) = cur
  BY <1>1, <1>2 DEF OwnInv, FdInv, Running
<1>4. cmd[cur].rfd = NoFd => PipeOf(cur) = None
  BY FdsAreNotZero DEF PipeOf
<1> QED
  BY <1>1, <1>3, <1>4

\* What a read takes from the pipe has been read.
LEMMA OwnRead ==
    ASSUME JobInv, OwnInv, ReadSome
    PROVE  OwnInv'
<1> CallInv /\ FdInv /\ BytesInv
  BY DEF OwnInv
<1> DEFINE p == PipeOf(cur)
           n == Least(pipe[p], max_size - cur_pos)
<1>1. /\ pc = "read" /\ p # None /\ n > 0
      /\ pipe' = [pipe EXCEPT ![p] = @ - n]
      /\ cur_pos' = cur_pos + n
      /\ UNCHANGED <<pc, cmd, cur, fds, proc, plan, wrote, sound>>
  BY DEF ReadSome
<1>2. p \in Job
  BY <1>1 DEF PipeOf, JobInv, JobTypeOK, ReadTypeOK
<1>3. pipe \in [Job -> 0 .. PipeSize] /\ pipe[p] \in Nat /\ cur_pos \in Nat /\ max_size \in Nat
      /\ cur_pos < max_size
  BY <1>1, <1>2, SizesAssumption DEF JobInv, JobTypeOK, ChildrenTypeOK, ReadTypeOK, ReadsAsk
<1>4. n \in Nat /\ n <= pipe[p]
  BY <1>3 DEF Least
<1>5. Jobs' = Jobs /\ \A i \in Jobs : i \in Job
  BY <1>1, SizesAssumption DEF Jobs, Job, JobInv, JobTypeOK, CallerTypeOK
<1> HIDE DEF n
<1>6. /\ pipe'[p] = pipe[p] - n
      /\ \A i \in Job : i # p => pipe'[i] = pipe[i]
  BY <1>1, <1>2, <1>3
<1>7. CallInv'
  <2>1. ~(p > Len(cmd))
    BY <1>1, <1>2, <1>3, <1>4 DEF CallInv
  <2> HIDE DEF p
  <2>2. \A i \in Job : i > Len(cmd) => i # p
    BY <2>1
  <2> QED
    BY <1>1, <1>5, <1>6, <2>2 DEF CallInv
<1>8. FdInv'
  BY <1>1, FdSame
<1>9. BytesInv'
  <2> SUFFICES ASSUME sound, NEW i \in Jobs, cmd[i].rfd # NoFd
               PROVE  /\ cmd[i].output = None => wrote[i] = pipe'[i] + ReadSoFar(i)'
                      /\ cmd[i].output # None => cmd[i].output = [from |-> i, size |-> wrote[i]]
    BY <1>1, <1>5 DEF BytesInv
  <2>1. p = cur
    BY <1>1, OwnPipe DEF OwnInv
  <2>2. CASE i = cur
    <3>1. ReadSoFar(i) = cur_pos /\ ReadSoFar(i)' = cur_pos + n
      BY <1>1, <2>2 DEF ReadSoFar
    <3>2. cmd[i].output = None /\ wrote[i] = pipe[i] + cur_pos
      BY <1>1, <2>2, <3>1 DEF CallInv, BytesInv
    <3>3. pipe'[i] = pipe[i] - n /\ pipe[i] \in Nat
      BY <1>3, <1>6, <2>1, <2>2
    <3> QED
      BY <1>3, <1>4, <3>1, <3>2, <3>3
  <2>3. CASE i # cur
    <3>1. ReadSoFar(i)' = ReadSoFar(i) /\ pipe'[i] = pipe[i]
      BY <1>1, <1>5, <1>6, <2>1, <2>3 DEF ReadSoFar
    <3> QED
      BY <3>1 DEF BytesInv
  <2> QED
    BY <2>2, <2>3
<1> QED
  BY <1>7, <1>8, <1>9 DEF OwnInv

\* What is written into str_status.
LEMMA StrStatusType ==
    ASSUME NEW s \in {0, 1, 2}, NEW old \in {"RUN", "EXIT(0)", "EXIT(1)"}
    PROVE  StrStatus(s, old) \in {"RUN", "EXIT(0)", "EXIT(1)"}
BY DEF StrStatus

\* waitpid reports the end of the job: from now on its output is read.
LEMMA OwnWait ==
    ASSUME JobInv, OwnInv, WaitPid
    PROVE  OwnInv'
<1> CallInv /\ FdInv /\ BytesInv
  BY DEF OwnInv
<1>t. cmd \in Seq(CmdT) /\ cur \in 1 .. Len(cmd) /\ cur \in Jobs /\ cur \in Job /\ cmd[cur] \in CmdT
  BY SizesAssumption DEF WaitPid, Jobs, Job, JobInv, JobTypeOK, CallerTypeOK
<1>j. \A i \in Jobs : i \in Job /\ pipe[i] \in Nat
  BY SizesAssumption DEF Jobs, Job, JobInv, JobTypeOK, CallerTypeOK, ChildrenTypeOK
<1>1. /\ pc = "wait" /\ ~cmd[cur].finished /\ Ended(cur)
      /\ proc' = [proc EXCEPT ![cur] = "reaped"]
      /\ UNCHANGED <<cur, fds, plan, wrote, pipe, sound>>
  BY DEF WaitPid
<1>2. /\ proc'[cur] = "reaped" /\ \A i \in Job : i # cur => proc'[i] = proc[i]
      /\ wrote[cur] = plan[cur].bytes
  BY <1>1, <1>t DEF JobInv, JobTypeOK, ChildrenTypeOK, CallInv, Ended
<1>3. CASE proc[cur] = "killed"
  <2>1. UNCHANGED <<cmd, pc, cur_pos>> /\ Jobs' = Jobs
    BY <1>3 DEF WaitPid, read_all_vars, Jobs
  <2>2. CallInv'
    <3>1. ~(cur > Len(cmd))
      BY <1>t
    <3> QED
      BY <1>1, <1>2, <1>j, <2>1, <3>1 DEF CallInv
  <2>3. BytesInv'
    BY <1>1, <2>1 DEF BytesInv, ReadSoFar
  <2>4. FdInv'
    BY <1>1, <2>1, FdSame
  <2> QED
    BY <2>2, <2>3, <2>4 DEF OwnInv
<1>4. CASE proc[cur] # "killed"
  <2> DEFINE s == ExitStatus[plan[cur].end]
             t == StrStatus(s, cmd[cur].str_status)
             c == [cmd[cur] EXCEPT !.finished = TRUE, !.status = s, !.str_status = t]
  <2>1. cmd' = [cmd EXCEPT ![cur] = c] /\ pc' = "read" /\ cur_pos' = 0
    BY <1>4 DEF WaitPid
  <2>s. s \in {0, 1, 2}
    <3>1. proc[cur] = "exit" /\ plan[cur] \in Plan /\ plan[cur].end # "killed"
      BY <1>1, <1>4, <1>t DEF Ended, JobInv, JobTypeOK, ChildrenTypeOK
    <3> QED
      BY <3>1, ExitStatusType
  <2>u. t \in {"RUN", "EXIT(0)", "EXIT(1)"} /\ s \in Int
    <3>1. cmd[cur].str_status \in {"RUN", "EXIT(0)", "EXIT(1)"}
      BY <1>t DEF CmdT
    <3> HIDE DEF s
    <3>2. t \in {"RUN", "EXIT(0)", "EXIT(1)"}
      BY <2>s, <3>1, StrStatusType
    <3>3. s \in Int
      BY <2>s
    <3> QED
      BY <3>2, <3>3
  <2> HIDE DEF s, t
  <2>c. /\ c \in CmdT /\ c.finished = TRUE /\ c.status = s /\ c.str_status = t
        /\ c.rfd = cmd[cur].rfd /\ c.output = cmd[cur].output
    <3>1. cmd[cur] \in CmdT /\ s \in Int /\ t \in {"RUN", "EXIT(0)", "EXIT(1)"}
      BY <1>t, <2>u
    <3>2. c \in CmdT
      BY <3>1, EndedJobType, Zenon
    <3>3. /\ c.finished = TRUE /\ c.status = s /\ c.str_status = t
          /\ c.rfd = cmd[cur].rfd /\ c.output = cmd[cur].output
      BY <3>1 DEF CmdT
    <3> QED
      BY <3>2, <3>3
  <2> HIDE DEF c
  <2>2. /\ cmd'[cur] = c
        /\ \A i \in Jobs : i # cur => cmd'[i] = cmd[i]
        /\ Len(cmd') = Len(cmd)
    BY <1>t, <2>1 DEF Jobs
  <2>3. /\ cmd'[cur].finished = TRUE /\ cmd'[cur].status = s /\ cmd'[cur].str_status = t
        /\ cmd'[cur].rfd = cmd[cur].rfd /\ cmd'[cur].output = cmd[cur].output
    BY <2>2, <2>c
  <2>4. /\ Jobs' = Jobs
        /\ \A i \in Jobs : cmd'[i].rfd = cmd[i].rfd /\ cmd'[i].output = cmd[i].output
    BY <2>2, <2>3 DEF Jobs
  <2>5. cmd[cur].output = None
    BY <1>1, <1>t DEF CallInv
  <2>6. CallInv'
    <3>1. \A i \in Job : i > Len(cmd') => proc'[i] = "none" /\ wrote'[i] = 0 /\ pipe'[i] = 0
      <4>1. ~(cur > Len(cmd))
        BY <1>t
      <4> QED
        BY <1>1, <1>2, <2>2, <4>1 DEF CallInv
    <3>2. \A i \in Job : proc'[i] \in {"exit", "killed", "reaped"} => wrote'[i] = plan'[i].bytes
      BY <1>1, <1>2 DEF CallInv
    <3>3. \A i \in Jobs' : cmd'[i].finished =>
            proc'[i] = "reaped" /\ cmd'[i].status = ExitStatus[plan'[i].end]
      <4>1. \A i \in Jobs : cmd[i].finished =>
              proc[i] = "reaped" /\ cmd[i].status = ExitStatus[plan[i].end]
        BY DEF CallInv
      <4>2. cmd'[cur].status = ExitStatus[plan'[cur].end]
        BY <1>1, <2>3 DEF s
      <4> QED
        BY <1>1, <1>2, <1>j, <2>2, <2>4, <4>1, <4>2
    <3>4. \A i \in Jobs' : cmd'[i].output # None => cmd'[i].finished
      BY <2>2, <2>3, <2>4 DEF CallInv
    <3>5. \A i \in Jobs' : cmd'[i].finished => cmd'[i].output # None \/ (pc' = "read" /\ cur' = i)
      BY <1>1, <2>1, <2>2, <2>4 DEF CallInv
    <3>6. pc' = "read" /\ cmd'[cur'].finished /\ cmd'[cur'].output = None
      BY <1>1, <2>1, <2>3, <2>5
    <3> QED
      BY <3>1, <3>2, <3>3, <3>4, <3>5, <3>6, Zenon DEF CallInv
  <2>7. FdInv'
    <3>1. \A i \in Jobs : PipeOf(i)' = PipeOf(i)
      BY <1>1, <2>4 DEF PipeOf
    <3> QED
      BY <1>1, <2>1, <2>4, <3>1 DEF FdInv, Running
  <2>8. BytesInv'
    <3>1. \A i \in Jobs : ReadSoFar(i) = 0 /\ ReadSoFar(i)' = 0
      BY <1>1, <2>1 DEF ReadSoFar
    <3> QED
      BY <1>1, <2>4, <3>1 DEF BytesInv
  <2> QED
    BY <2>6, <2>7, <2>8 DEF OwnInv
<1> QED
  BY <1>3, <1>4

\* The end of the pipe: what has been read is what the command has written.
LEMMA OwnReadEnd ==
    ASSUME JobInv, OwnInv, ReadEnd
    PROVE  OwnInv'
<1> CallInv /\ FdInv /\ BytesInv
  BY DEF OwnInv
<1>t. cmd \in Seq(CmdT) /\ cur \in 1 .. Len(cmd) /\ cur \in Jobs /\ cur \in Job /\ cmd[cur] \in CmdT
      /\ cur # None /\ PipeOf(cur) \in Job \cup {None}
  BY SizesAssumption DEF ReadEnd, Jobs, Job, PipeOf, JobInv, JobTypeOK, CallerTypeOK, ReadTypeOK
<1> DEFINE o == [from |-> PipeOf(cur), size |-> IF PipeOf(cur) = None THEN -1 ELSE cur_pos]
<1>1. /\ pc = "read" /\ pc' = "close"
      /\ \/ PipeOf(cur) = None
         \/ max_size = cur_pos
         \/ PipeOf(cur) # None /\ pipe[PipeOf(cur)] = 0
      /\ cmd' = [cmd EXCEPT ![cur].output = o]
      /\ UNCHANGED <<cur, cur_pos, fds, proc, plan, wrote, pipe, sound>>
  BY DEF ReadEnd, read_all_vars, children
<1>2. o # None
  <2>1. o \in [from : Job \cup {None}, size : Int]
    BY <1>t DEF JobInv, JobTypeOK, ReadTypeOK
  <2> QED
    BY <2>1, SizesAssumption
<1>3. ASSUME sound, cmd[cur].rfd # NoFd PROVE o = [from |-> cur, size |-> wrote[cur]]
  <2>1. PipeOf(cur) = cur
    BY <1>1, <1>3, OwnPipe
  <2>2. pipe[cur] = 0 /\ cur_pos \in Nat
    BY <1>1, <1>t, <2>1 DEF JobInv, JobTypeOK, ReadTypeOK, ReadsAsk
  <2>3. wrote[cur] = pipe[cur] + cur_pos
    BY <1>1, <1>3, <1>t DEF CallInv, BytesInv, ReadSoFar
  <2> QED
    BY <1>t, <2>1, <2>2, <2>3
<1> HIDE DEF o
<1>4. /\ cmd'[cur] = [cmd[cur] EXCEPT !.output = o]
      /\ \A i \in Jobs : i # cur => cmd'[i] = cmd[i]
      /\ Len(cmd') = Len(cmd)
  BY <1>t, <1>1 DEF Jobs
<1>5. /\ cmd'[cur].output = o
      /\ cmd'[cur].finished = cmd[cur].finished /\ cmd'[cur].status = cmd[cur].status
      /\ cmd'[cur].str_status = cmd[cur].str_status /\ cmd'[cur].rfd = cmd[cur].rfd
  BY <1>t, <1>4 DEF CmdT
<1>6. /\ Jobs' = Jobs
      /\ \A i \in Jobs :
            /\ cmd'[i].finished = cmd[i].finished /\ cmd'[i].status = cmd[i].status
            /\ cmd'[i].str_status = cmd[i].str_status /\ cmd'[i].rfd = cmd[i].rfd
            /\ i # cur => cmd'[i].output = cmd[i].output
  BY <1>4, <1>5 DEF Jobs
<1>7. CallInv'
  <2>1. \A i \in Jobs : cmd[i].finished =>
          proc[i] = "reaped" /\ cmd[i].status = ExitStatus[plan[i].end]
    BY DEF CallInv
  <2>2. \A i \in Jobs' : cmd'[i].finished =>
          proc'[i] = "reaped" /\ cmd'[i].status = ExitStatus[plan'[i].end]
    BY <1>1, <1>6, <2>1
  <2>3. \A i \in Jobs' : cmd'[i].output # None => cmd'[i].finished
    BY <1>1, <1>6 DEF CallInv
  <2>4. \A i \in Jobs' : cmd'[i].finished => cmd'[i].output # None \/ (pc' = "read" /\ cur' = i)
    BY <1>1, <1>2, <1>5, <1>6 DEF CallInv
  <2>5. \A i \in Job : i > Len(cmd') => proc'[i] = "none" /\ wrote'[i] = 0 /\ pipe'[i] = 0
    BY <1>1, <1>4 DEF CallInv
  <2>6. \A i \in Job : proc'[i] \in {"exit", "killed", "reaped"} => wrote'[i] = plan'[i].bytes
    BY <1>1 DEF CallInv
  <2>7. pc' # "read" /\ cmd'[cur'].output # None
    BY <1>1, <1>2, <1>5
  <2> QED
    BY <2>2, <2>3, <2>4, <2>5, <2>6, <2>7, Zenon DEF CallInv
<1>8. FdInv'
  <2> SUFFICES ASSUME sound
               PROVE  /\ \A f \in Fd : fds[f] # None => fds[f] \in Jobs /\ cmd'[fds[f]].rfd = f
                      /\ \A i \in Jobs : cmd'[i].rfd # NoFd =>
                           (PipeOf(i)' = i <=> cmd'[i].output = None \/ cur = i)
    BY <1>1, <1>6 DEF FdInv
  <2>1. \A i \in Jobs : PipeOf(i)' = PipeOf(i)
    BY <1>1, <1>6 DEF PipeOf
  <2>2. cmd[cur].rfd # NoFd => PipeOf(cur) = cur
    BY <1>1, OwnPipe DEF OwnInv
  <2>3. /\ \A f \in Fd : fds[f] # None => fds[f] \in Jobs /\ cmd[fds[f]].rfd = f
        /\ \A i \in Jobs : cmd[i].rfd # NoFd => (PipeOf(i) = i <=> cmd[i].output = None)
    BY <1>1 DEF FdInv, Running
  <2> QED
    BY <1>6, <2>1, <2>2, <2>3
<1>9. BytesInv'
  <2> SUFFICES ASSUME sound, NEW i \in Jobs, cmd[i].rfd # NoFd
               PROVE  /\ cmd'[i].output = None => wrote[i] = pipe[i] + ReadSoFar(i)'
                      /\ cmd'[i].output # None => cmd'[i].output = [from |-> i, size |-> wrote[i]]
    BY <1>1, <1>6 DEF BytesInv
  <2>1. CASE i = cur
    BY <1>2, <1>3, <1>5, <2>1
  <2>2. CASE i # cur
    <3>1. ReadSoFar(i)' = ReadSoFar(i) /\ cmd'[i].output = cmd[i].output
      BY <1>1, <1>6, <2>2 DEF ReadSoFar
    <3> QED
      BY <3>1 DEF BytesInv
  <2> QED
    BY <2>1, <2>2
<1> QED
  BY <1>7, <1>8, <1>9 DEF OwnInv

\* Every step preserves the invariant.
LEMMA OwnStep == JobInv /\ OwnInv /\ [Next]_vars => OwnInv'
<1> SUFFICES ASSUME JobInv, OwnInv, [Next]_vars PROVE OwnInv'
  OBVIOUS
<1>1. CASE UNCHANGED vars
  <2>1. UNCHANGED <<pc, cmd, cur, cur_pos, fds, proc, plan, wrote, pipe, sound>>
    BY <1>1 DEF vars, read_all_vars, children
  <2> QED
    BY <2>1 DEF OwnInv, CallInv, FdInv, BytesInv, ReadSoFar, Jobs, PipeOf, Running
<1>2. CASE CallerStep
  BY <1>2, OwnCall, OwnWait, OwnRead, OwnReadEnd, OwnClose DEF CallerStep
<1>3. CASE Calls
  BY <1>3, OwnCall, OwnStart, OwnClose DEF Calls
<1>4. CASE \E j \in Job : Write(j) \/ End(j)
  BY <1>4, OwnCommand
<1> QED
  BY <1>1, <1>2, <1>3, <1>4 DEF Next

\* It holds in every behaviour.
LEMMA OwnCorrect == Spec => [](JobInv /\ OwnInv)
BY JobInit, InvStep, OwnInit, OwnStep, PTL DEF Spec

\* The output of a finished job is all that its own command wrote, for every amount
\* of output, size of buffer and pipe, and order of calls, until a failed fork or a
\* second close of a descriptor (cmd.c:81-179).
THEOREM OutputCorrect == Spec => []OutputIsOwn
BY OwnCorrect, OwnInvSays, PTL

\* No descriptor is leaked or taken from another job, under the same condition.
THEOREM DescriptorsCorrect == Spec => []DescriptorsMatch
BY OwnCorrect, OwnInvSays, PTL
=============================================================================
