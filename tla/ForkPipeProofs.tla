---------------------------- MODULE ForkPipeProofs ----------------------------
(***************************************************************************)
(* Proofs about ForkPipe, for any number of threads that fork at the same  *)
(* time and any size of a shadow stack.                                    *)
(***************************************************************************)
EXTENDS ForkPipe, SequenceTheorems, TLAPS

PipeFd == {"pipe_r", "pipe_w", "device"} \X Procs
Fd == PipeFd \cup {FILE}

ParentLabels == {"user", "fork", "close_w", "read", "close_r", "fail", "ret"}
ChildLabels  == {"none", "open", "ioctl", "write", "close_w", "user", "dead"}

\* Where the child has not yet told its parent that it is done.
Silent == {"open", "ioctl", "write"}

PipeTypes ==
    /\ pc \in [Threads -> ParentLabels]
    /\ cpc \in [Threads -> ChildLabels]
    /\ sy_pipe \in [Threads -> [r : Fd \cup {BAD}, w : Fd \cup {BAD}]]
    /\ fds \in [Procs -> SUBSET Fd]
    /\ bytes \in [Threads -> Nat]
    /\ stack \in [Threads -> {"fork", "changed"}]
    /\ copied \in [Threads -> Seq({"fork", "changed"})]
    /\ mapped \in SUBSET Threads
    /\ interrupted \in SUBSET Threads

\* A child exists once real_fork() has returned.
Forked(t) == pc[t] \in {"user", "fork", "fail"} => cpc[t] = "none"

\* The parent has the ends of t's pipe open exactly until fork() closes them.
ParentEnds(t) ==
    /\ ReadEnd(t) \in fds[Parent] <=> pc[t] \notin {"user", "ret"}
    /\ WriteEnd(t) \in fds[Parent] <=> pc[t] \in {"fork", "close_w", "fail"}

\* So has the child, which alone writes to the pipe.
ChildEnds(t) ==
    /\ cpc[t] \in Silent \cup {"close_w"} => WriteEnd(t) \in fds[t]
    /\ cpc[t] \in ChildLabels \ {"none", "open"} => ReadEnd(t) \notin fds[t]
    /\ cpc[t] = "user" => WriteEnd(t) \notin fds[t]
    /\ cpc[t] \in Silent \cup {"none"} => bytes[t] = 0

\* Until the child is done the parent waits, unless a signal ended the wait.
Waits(t) == cpc[t] \in Silent /\ t \notin interrupted => pc[t] \in {"close_w", "read"}

\* A stack changes after the return from fork() only, so the pages a child has
\* copied are all as they were at the fork.
Copies(t) ==
    /\ pc[t] # "ret" => stack[t] = "fork"
    /\ cpc[t] \in {"none", "open"} => copied[t] = <<>>
    /\ t \in mapped => Len(copied[t]) = PAGES /\ cpc[t] \notin {"none", "open", "ioctl"}
    /\ t \notin interrupted => copied[t] \in Seq({"fork"})

ThreadInv(t) ==
    Forked(t) /\ ParentEnds(t) /\ ChildEnds(t) /\ Waits(t) /\ Copies(t)

PipeInv ==
    /\ PipeTypes
    /\ PipesOK => \A t \in Threads : ThreadInv(t)
-----------------------------------------------------------------------------
\* The ends of different pipes, and the device, are different open files.
LEMMA Ends ==
    /\ \A t, u \in Threads :
            /\ ReadEnd(t) = ReadEnd(u) => t = u
            /\ WriteEnd(t) = WriteEnd(u) => t = u
            /\ ReadEnd(t) # WriteEnd(u)
    /\ \A t \in Threads : ReadEnd(t) \in PipeFd /\ WriteEnd(t) \in PipeFd
    /\ \A q \in Procs : Device(q) \in PipeFd
    /\ BAD \notin PipeFd /\ FILE \notin PipeFd /\ PipeFd \subseteq Fd /\ FILE \in Fd
    /\ \A q \in Procs, t \in Threads : Device(q) # ReadEnd(t) /\ Device(q) # WriteEnd(t)
BY ForkConstants DEF ReadEnd, WriteEnd, Device, PipeFd, Fd, Procs

\* The parent and the children are different processes.
LEMMA Members == Parent \in Procs /\ \A t \in Threads : t \in Procs /\ t # Parent
BY ForkConstants DEF Procs

\* Every variable keeps its type, pipes that failed included.
LEMMA PipeTypesNext == PipeTypes /\ [Next]_vars => PipeTypes'
<1> SUFFICES ASSUME PipeTypes, [Next]_vars PROVE PipeTypes'
    OBVIOUS
<1> USE Members DEF PipeTypes, ParentLabels, ChildLabels
<1>1. ASSUME NEW t \in Threads, Pipe(t) PROVE PipeTypes'
    <2>1. fds' \in [Procs -> SUBSET Fd]
        <3>1. CASE fds' = [fds EXCEPT ![Parent] = @ \cup {ReadEnd(t), WriteEnd(t)}]
            BY <3>1, Ends
        <3>2. CASE fds' = fds
            BY <3>2
        <3> QED
            BY <1>1, <3>1, <3>2 DEF Pipe
    <2>2. sy_pipe' \in [Threads -> [r : Fd \cup {BAD}, w : Fd \cup {BAD}]]
        <3>1. PICK r \in Fd \cup {BAD}, w \in Fd \cup {BAD} :
                    sy_pipe' = [sy_pipe EXCEPT ![t] = [r |-> r, w |-> w]]
            BY <1>1, Ends DEF Pipe, Rubbish
        <3> QED
            BY <3>1
    <2> QED
        BY <1>1, <2>1, <2>2 DEF Goto, Pipe, childVars
<1>2. ASSUME NEW t \in Threads, RealFork(t) PROVE PipeTypes'
    <2>1. fds' \in [Procs -> SUBSET Fd]
        BY <1>2 DEF Goto, RealFork
    <2> QED
        BY <1>2, <2>1 DEF Goto, RealFork
<1>3. ASSUME NEW t \in Threads, ParentClose(t) PROVE PipeTypes'
    <2>1. fds' \in [Procs -> SUBSET Fd]
        BY <1>3 DEF Goto, ParentClose, Close, childVars
    <2> QED
        BY <1>3, <2>1 DEF Goto, ParentClose, Close, childVars
<1>4. ASSUME NEW t \in Threads, Read(t) PROVE PipeTypes'
    BY <1>4 DEF Goto, Read, childVars
<1>5. ASSUME NEW t \in Threads, ReadInterrupted(t) PROVE PipeTypes'
    BY <1>5 DEF Goto, ReadInterrupted, childVars
<1>6. ASSUME NEW t \in Threads, UserWrite(t) PROVE PipeTypes'
    BY <1>6 DEF UserWrite, childVars
<1>7. ASSUME NEW t \in Threads, ChildOpen(t) PROVE PipeTypes'
    <2>1. fds' \in [Procs -> SUBSET Fd]
        <3> DEFINE D == {sy_pipe[t].r, Device(Parent)}
        <3>1. CASE fds' = [fds EXCEPT ![t] = (@ \ D) \cup {Device(t)}]
            BY <3>1, Ends
        <3>2. CASE fds' = [fds EXCEPT ![t] = @ \ D]
            BY <3>2
        <3> QED
            BY <1>7, <3>1, <3>2 DEF ChildOpen, Close
    <2> QED
        BY <1>7, <2>1 DEF ChildGoto, ChildOpen, Close
<1>8. ASSUME NEW t \in Threads, ChildCopy(t) PROVE PipeTypes'
    BY <1>8 DEF ChildGoto, ChildCopy
<1>9. ASSUME NEW t \in Threads, ChildIoctl(t) PROVE PipeTypes'
    <2>1. copied' \in [Threads -> Seq({"fork", "changed"})]
        <3>1. CASE copied' = copied
            BY <3>1
        <3>2. CASE copied' = [copied EXCEPT ![t] = <<>>]
            BY <3>2
        <3> QED
            BY <1>9, <3>1, <3>2 DEF ChildIoctl
    <2> QED
        BY <1>9, <2>1 DEF ChildGoto, ChildIoctl
<1>10. ASSUME NEW t \in Threads, ChildWrite(t) PROVE PipeTypes'
    <2>1. CASE Die(t) /\ UNCHANGED bytes
        BY <1>10, <2>1 DEF ChildWrite, Die
    <2>2. ASSUME NEW u \in Threads, bytes' = [bytes EXCEPT ![u] = @ + 1],
                 ChildGoto(t, "write", "close_w"), UNCHANGED <<fds, copied, mapped>>
          PROVE  PipeTypes'
        BY <1>10, <2>2 DEF ChildWrite, ChildGoto
    <2>3. CASE ChildGoto(t, "write", "close_w") /\ UNCHANGED <<fds, bytes, copied, mapped>>
        BY <1>10, <2>3 DEF ChildWrite, ChildGoto
    <2> QED
        BY <1>10, <2>1, <2>2, <2>3 DEF ChildWrite
<1>11. ASSUME NEW t \in Threads, ChildClose(t) PROVE PipeTypes'
    BY <1>11 DEF ChildGoto, ChildClose, Close
<1>12. ASSUME NEW t \in Threads, Kill(t) PROVE PipeTypes'
    BY <1>12 DEF Kill, Die
<1>13. ASSUME NEW t \in Threads, ChildFault(t) PROVE PipeTypes'
    BY <1>13 DEF ChildFault, Die
<1>14. CASE UNCHANGED vars
    BY <1>14 DEF vars
<1>15. ASSUME NEW t \in Threads, ReadOther(t) PROVE PipeTypes'
    BY <1>15 DEF Goto, ReadOther, childVars
<1>16. ASSUME NEW t \in Threads, WriteOther(t) PROVE PipeTypes'
    BY <1>16 DEF ChildGoto, WriteOther
<1> QED
    BY <1>1, <1>2, <1>3, <1>4, <1>5, <1>6, <1>7, <1>8, <1>9, <1>10, <1>11, <1>12, <1>13, <1>14,
       <1>15, <1>16
       DEF Next, ParentStep, ChildStep

\* A pipe() that failed is never made good, so what is known of the pipes now
\* was known before.
LEMMA PipesWereOK == PipeTypes /\ [Next]_vars /\ PipesOK' => PipesOK
<1> SUFFICES ASSUME PipeTypes, [Next]_vars, PipesOK', NEW u \in Threads
             PROVE  PipeOK(u)
    BY DEF PipesOK
<1>1. PipeOK(u)'
    BY DEF PipesOK
<1>2. pc[u] = "user" \/ (pc'[u] # "user" /\ sy_pipe'[u] = sy_pipe[u])
    BY DEF PipeTypes, Next, ParentStep, ChildStep, Pipe, RealFork, ParentClose, Read,
           ReadInterrupted, UserWrite, ChildOpen, ChildCopy, ChildIoctl, ChildWrite,
           ChildClose, Kill, ChildFault, ReadOther, WriteOther, Goto, childVars, vars
<1> QED
    BY <1>1, <1>2 DEF PipeOK
-----------------------------------------------------------------------------
\* Every step of a fork, and of the forks beside it, preserves what is known of
\* the thread u and its child.
LEMMA ThreadNext ==
    ASSUME PipeInv, [Next]_vars, PipesOK', NEW u \in Threads
    PROVE  ThreadInv(u)'
<1> USE ForkConstants, Members
        DEF PipeTypes, ParentLabels, ChildLabels, Silent, ThreadInv, Forked,
            ParentEnds, ChildEnds, Waits, Copies
<1>a. PipeTypes /\ \A t \in Threads : ThreadInv(t)
    BY PipesWereOK DEF PipeInv
<1>b. \A t \in Threads : pc[t] # "user" =>
            sy_pipe[t].r = ReadEnd(t) /\ sy_pipe[t].w = WriteEnd(t)
    BY PipesWereOK DEF PipeInv, PipesOK, PipeOK
<1>1. ASSUME NEW t \in Threads, Pipe(t) PROVE ThreadInv(u)'
    <2>1. Forked(u)' /\ Waits(u)'
        BY <1>1, <1>a, <1>b, Ends DEF Goto, Pipe, childVars
    <2>2. ParentEnds(u)'
        <3>1. CASE fds' = [fds EXCEPT ![Parent] = @ \cup {ReadEnd(t), WriteEnd(t)}]
            BY <1>1, <1>a, <3>1, Ends DEF Goto, Pipe
        <3>2. ASSUME NEW r \in Rubbish(t), NEW w \in Rubbish(t),
                     sy_pipe' = [sy_pipe EXCEPT ![t] = [r |-> r, w |-> w]]
              PROVE  FALSE
            <4>1. r = ReadEnd(t)
                BY <1>1, <1>a, <3>2 DEF PipesOK, PipeOK, Pipe, Goto
            <4> QED
                BY <4>1, Ends DEF Rubbish
        <3> QED
            BY <1>1, <3>1, <3>2 DEF Pipe
    <2>3. ChildEnds(u)'
        BY <1>1, <1>a, <1>b, Ends DEF Goto, Pipe, childVars
    <2>4. Copies(u)'
        BY <1>1, <1>a, <1>b, Ends DEF Goto, Pipe, childVars
    <2> QED
        BY <2>1, <2>2, <2>3, <2>4
<1>2. ASSUME NEW t \in Threads, RealFork(t) PROVE ThreadInv(u)'
    <2>1. Forked(u)' /\ Waits(u)'
        BY <1>2, <1>a, <1>b, Ends DEF Goto, RealFork
    <2>2. ParentEnds(u)'
        <3>1. fds'[Parent] = fds[Parent]
            BY <1>2, <1>a DEF RealFork
        <3>2. CASE Goto(t, "fork", "close_w")
            BY <1>a, <3>1, <3>2 DEF Goto
        <3>3. CASE Goto(t, "fork", "fail")
            BY <1>a, <3>1, <3>3 DEF Goto
        <3> QED
            BY <1>2, <3>2, <3>3 DEF RealFork
    <2>3. ChildEnds(u)'
        BY <1>2, <1>a, <1>b, Ends DEF Goto, RealFork
    <2>4. Copies(u)'
        BY <1>2, <1>a, <1>b, Ends DEF Goto, RealFork
    <2> QED
        BY <2>1, <2>2, <2>3, <2>4
<1>3. ASSUME NEW t \in Threads, ParentClose(t) PROVE ThreadInv(u)'
    <2>1. Forked(u)' /\ Waits(u)'
        BY <1>3, <1>a, <1>b, Ends DEF Goto, ParentClose, Close, childVars
    <2>2. ParentEnds(u)'
        <3>1. CASE Goto(t, "close_w", "read") /\ Close(Parent, {sy_pipe[t].w})
            BY <1>a, <1>b, <3>1, Ends DEF Goto, Close
        <3>2. CASE Goto(t, "close_r", "ret") /\ Close(Parent, {sy_pipe[t].r})
            BY <1>a, <1>b, <3>2, Ends DEF Goto, Close
        <3>3. CASE Goto(t, "fail", "ret") /\ Close(Parent, {sy_pipe[t].r, sy_pipe[t].w})
            BY <1>a, <1>b, <3>3, Ends DEF Goto, Close
        <3> QED
            BY <1>3, <3>1, <3>2, <3>3 DEF ParentClose
    <2>3. ChildEnds(u)'
        BY <1>3, <1>a, <1>b, Ends DEF Goto, ParentClose, Close, childVars
    <2>4. Copies(u)'
        BY <1>3, <1>a, <1>b, Ends DEF Goto, ParentClose, Close, childVars
    <2> QED
        BY <2>1, <2>2, <2>3, <2>4
<1>4. ASSUME NEW t \in Threads, Read(t) PROVE ThreadInv(u)'
    <2>1. cpc[t] \notin Silent
        <3> SUFFICES ASSUME cpc[t] \in Silent PROVE FALSE
            OBVIOUS
        <3>1. pc[t] = "read" /\ ReadEnd(t) \in fds[Parent]
            BY <1>4, <1>a DEF Read, Goto
        <3>2. bytes[t] = 0 /\ IsOpen(WriteEnd(t))
            BY <1>a DEF IsOpen
        <3> QED
            BY <1>4, <1>b, <3>1, <3>2, Ends DEF Read
    <2>2. ParentEnds(u)'
        BY <1>4, <1>a DEF Read, Goto
    <2>3. ChildEnds(u)'
        <3>1. bytes'[u] = bytes[u] \/ (u = t /\ cpc[u] # "none")
            BY <1>4, <1>a, <1>b, Ends DEF Read, Goto
        <3> QED
            BY <1>4, <1>a, <2>1, <3>1 DEF Read, childVars
    <2>4. Forked(u)' /\ Waits(u)' /\ Copies(u)'
        BY <1>4, <1>a, <2>1 DEF Read, Goto, childVars
    <2> QED
        BY <2>2, <2>3, <2>4
<1>5. ASSUME NEW t \in Threads, ReadInterrupted(t) PROVE ThreadInv(u)'
    <2>1. Forked(u)' /\ Waits(u)'
        BY <1>5, <1>a, <1>b, Ends DEF Goto, ReadInterrupted, childVars
    <2>2. ParentEnds(u)'
        BY <1>5, <1>a, <1>b, Ends DEF Goto, ReadInterrupted, childVars
    <2>3. ChildEnds(u)'
        BY <1>5, <1>a, <1>b, Ends DEF Goto, ReadInterrupted, childVars
    <2>4. Copies(u)'
        BY <1>5, <1>a, <1>b, Ends DEF Goto, ReadInterrupted, childVars
    <2> QED
        BY <2>1, <2>2, <2>3, <2>4
<1>6. ASSUME NEW t \in Threads, UserWrite(t) PROVE ThreadInv(u)'
    <2>1. Forked(u)' /\ Waits(u)'
        BY <1>6, <1>a, <1>b, Ends DEF UserWrite, childVars
    <2>2. ParentEnds(u)'
        BY <1>6, <1>a, <1>b, Ends DEF UserWrite, childVars
    <2>3. ChildEnds(u)'
        BY <1>6, <1>a, <1>b, Ends DEF UserWrite, childVars
    <2>4. Copies(u)'
        BY <1>6, <1>a, <1>b, Ends DEF UserWrite, childVars
    <2> QED
        BY <2>1, <2>2, <2>3, <2>4
<1>7. ASSUME NEW t \in Threads, ChildOpen(t) PROVE ThreadInv(u)'
    <2>1. Forked(u)' /\ Waits(u)'
        BY <1>7, <1>a, <1>b, Ends DEF ChildGoto, ChildOpen, Close
    <2>2. ParentEnds(u)'
        BY <1>7, <1>a, <1>b, Ends DEF ChildGoto, ChildOpen, Close
    <2>3. ChildEnds(u)'
        BY <1>7, <1>a, <1>b, Ends DEF ChildGoto, ChildOpen, Close
    <2>4. Copies(u)'
        BY <1>7, <1>a, <1>b, Ends DEF ChildGoto, ChildOpen, Close
    <2> QED
        BY <2>1, <2>2, <2>3, <2>4
<1>8. ASSUME NEW t \in Threads, ChildCopy(t) PROVE ThreadInv(u)'
    <2>1. Forked(u)' /\ Waits(u)'
        BY <1>8, <1>a, <1>b, Ends DEF ChildGoto, ChildCopy
    <2>2. ParentEnds(u)'
        BY <1>8, <1>a, <1>b, Ends DEF ChildGoto, ChildCopy
    <2>3. ChildEnds(u)'
        BY <1>8, <1>a, <1>b, Ends DEF ChildGoto, ChildCopy
    <2>4. Copies(u)'
        <3>1. /\ cpc[t] = "ioctl" /\ UNCHANGED <<pc, stack, mapped, interrupted>> /\ cpc' = cpc
              /\ copied' = [copied EXCEPT ![t] = Append(copied[t], stack[t])]
            BY <1>8, <1>a DEF ChildGoto, ChildCopy
        <3>2. CASE u # t
            BY <1>a, <3>1, <3>2
        <3>3. CASE u = t
            <4>1. copied'[u] = Append(copied[u], stack[u])
                BY <1>a, <3>1, <3>3
            <4>2. u \notin interrupted => stack[u] = "fork" /\ copied[u] \in Seq({"fork"})
                BY <1>a, <3>1, <3>3
            <4>3. u \notin interrupted => copied'[u] \in Seq({"fork"})
                BY <4>1, <4>2
            <4> QED
                BY <1>a, <3>1, <3>3, <4>3
        <3> QED
            BY <3>2, <3>3
    <2> QED
        BY <2>1, <2>2, <2>3, <2>4
<1>9. ASSUME NEW t \in Threads, ChildIoctl(t) PROVE ThreadInv(u)'
    <2>1. Forked(u)' /\ Waits(u)'
        BY <1>9, <1>a, <1>b, Ends DEF ChildGoto, ChildIoctl
    <2>2. ParentEnds(u)'
        BY <1>9, <1>a, <1>b, Ends DEF ChildGoto, ChildIoctl
    <2>3. ChildEnds(u)'
        BY <1>9, <1>a, <1>b, Ends DEF ChildGoto, ChildIoctl
    <2>4. Copies(u)'
        <3>1. CASE Len(copied[t]) = PAGES /\ mapped' = mapped \cup {t} /\ UNCHANGED copied
            BY <1>9, <1>a, <3>1 DEF ChildGoto, ChildIoctl
        <3>2. CASE copied' = [copied EXCEPT ![t] = <<>>] /\ UNCHANGED mapped
            BY <1>9, <1>a, <3>2 DEF ChildGoto, ChildIoctl
        <3> QED
            BY <1>9, <3>1, <3>2 DEF ChildIoctl
    <2> QED
        BY <2>1, <2>2, <2>3, <2>4
<1>10. ASSUME NEW t \in Threads, ChildWrite(t) PROVE ThreadInv(u)'
    <2>1. CASE Die(t) /\ UNCHANGED bytes
        BY <1>10, <1>a, <2>1 DEF ChildWrite, Die
    <2>2. ASSUME NEW v \in Threads, sy_pipe[t].w = WriteEnd(v),
                 bytes' = [bytes EXCEPT ![v] = @ + 1],
                 ChildGoto(t, "write", "close_w"), UNCHANGED <<fds, copied, mapped>>
          PROVE  ThreadInv(u)'
        <3>1. v = t
            BY <1>a, <1>b, <2>2, Ends DEF ChildGoto
        <3> QED
            BY <1>10, <1>a, <2>2, <3>1 DEF ChildWrite, ChildGoto
    <2>3. CASE ChildGoto(t, "write", "close_w") /\ UNCHANGED <<fds, bytes, copied, mapped>>
        BY <1>10, <1>a, <2>3 DEF ChildWrite, ChildGoto
    <2> QED
        BY <1>10, <2>1, <2>2, <2>3 DEF ChildWrite
<1>11. ASSUME NEW t \in Threads, ChildClose(t) PROVE ThreadInv(u)'
    <2>1. Forked(u)' /\ Waits(u)'
        BY <1>11, <1>a, <1>b, Ends DEF ChildGoto, ChildClose, Close
    <2>2. ParentEnds(u)'
        BY <1>11, <1>a, <1>b, Ends DEF ChildGoto, ChildClose, Close
    <2>3. ChildEnds(u)'
        BY <1>11, <1>a, <1>b, Ends DEF ChildGoto, ChildClose, Close
    <2>4. Copies(u)'
        BY <1>11, <1>a, <1>b, Ends DEF ChildGoto, ChildClose, Close
    <2> QED
        BY <2>1, <2>2, <2>3, <2>4
<1>12. ASSUME NEW t \in Threads, Kill(t) PROVE ThreadInv(u)'
    <2>1. Forked(u)' /\ Waits(u)'
        BY <1>12, <1>a, <1>b, Ends DEF Kill, Die
    <2>2. ParentEnds(u)'
        BY <1>12, <1>a, <1>b, Ends DEF Kill, Die
    <2>3. ChildEnds(u)'
        BY <1>12, <1>a, <1>b, Ends DEF Kill, Die
    <2>4. Copies(u)'
        BY <1>12, <1>a, <1>b, Ends DEF Kill, Die
    <2> QED
        BY <2>1, <2>2, <2>3, <2>4
<1>13. ASSUME NEW t \in Threads, ChildFault(t) PROVE ThreadInv(u)'
    <2>1. Forked(u)' /\ Waits(u)'
        BY <1>13, <1>a, <1>b, Ends DEF ChildFault, Die
    <2>2. ParentEnds(u)'
        BY <1>13, <1>a, <1>b, Ends DEF ChildFault, Die
    <2>3. ChildEnds(u)'
        BY <1>13, <1>a, <1>b, Ends DEF ChildFault, Die
    <2>4. Copies(u)'
        BY <1>13, <1>a, <1>b, Ends DEF ChildFault, Die
    <2> QED
        BY <2>1, <2>2, <2>3, <2>4
<1>14. CASE UNCHANGED vars
    BY <1>a, <1>14 DEF vars
<1>15. ASSUME NEW t \in Threads, ReadOther(t) \/ WriteOther(t) PROVE FALSE
    <2>1. pc[t] # "user" /\ (sy_pipe[t].r = FILE \/ sy_pipe[t].w = FILE)
        BY <1>15, <1>a DEF ReadOther, WriteOther, Goto, ChildGoto
    <2> QED
        BY <2>1, <1>b, Ends
<1> QED
    BY <1>1, <1>2, <1>3, <1>4, <1>5, <1>6, <1>7, <1>8, <1>9, <1>10, <1>11, <1>12, <1>13, <1>14,
       <1>15
       DEF Next, ParentStep, ChildStep
\* The initial state satisfies the invariant.
LEMMA PipeInvInit == Init => PipeInv
<1> SUFFICES ASSUME Init PROVE PipeInv
    OBVIOUS
<1> USE Members, Ends DEF Init
<1>1. PipeTypes
    <2>1. fds \in [Procs -> SUBSET Fd]
        OBVIOUS
    <2>2. sy_pipe \in [Threads -> [r : Fd \cup {BAD}, w : Fd \cup {BAD}]]
        OBVIOUS
    <2> QED
        BY <2>1, <2>2 DEF PipeTypes, ParentLabels, ChildLabels
<1>2. ASSUME NEW t \in Threads PROVE ThreadInv(t)
    BY DEF ThreadInv, Forked, ParentEnds, ChildEnds, Waits, Copies, Silent, ChildLabels
<1> QED
    BY <1>1, <1>2 DEF PipeInv

\* The invariant holds in every reachable state.
THEOREM PipeInvariant == Spec => []PipeInv
<1>1. PipeInv /\ [Next]_vars => PipeInv'
    BY PipeTypesNext, ThreadNext DEF PipeInv
<1> QED
    BY <1>1, PipeInvInit, PTL DEF Spec

\* Whatever other forks go on and however they end, a thread does not leave
\* fork() before its child has made its IOCTL_SHADOW_FORK, and a child that has a
\* shadow stack has its parent's as it was at the fork.
THEOREM ForkParentWaits == Spec => []ParentWaits
<1>1. PipeInv => ParentWaits
    <2> SUFFICES ASSUME PipeInv, PipesOK, NEW t \in Threads \ interrupted
                 PROVE  /\ cpc[t] \in Silent => pc[t] \in {"close_w", "read"}
                        /\ t \in mapped => copied[t] = [w \in 1 .. PAGES |-> "fork"]
        BY DEF ParentWaits, Silent
    <2>1. ThreadInv(t)
        BY DEF PipeInv
    <2>2. cpc[t] \in Silent => pc[t] \in {"close_w", "read"}
        BY <2>1 DEF ThreadInv, Waits
    <2>3. ASSUME t \in mapped PROVE copied[t] = [w \in 1 .. PAGES |-> "fork"]
        <3>1. copied[t] \in Seq({"fork"}) /\ Len(copied[t]) = PAGES
            BY <2>1, <2>3 DEF ThreadInv, Copies
        <3> HIDE DEF PipeInv
        <3>2. \A w \in 1 .. PAGES : copied[t][w] = "fork"
            BY <3>1
        <3>3. copied[t] = [w \in 1 .. PAGES |-> copied[t][w]]
            BY <3>1
        <3> QED
            BY <3>2, <3>3
    <2> QED
        BY <2>2, <2>3
<1> QED
    BY <1>1, PipeInvariant, PTL

\* On every path out of fork() both processes close the ends of the pipe they
\* had, so that no number of forks uses up the descriptors.
THEOREM ForkNoFdLeak == Spec => []NoFdLeak
<1>1. PipeInv => NoFdLeak
    BY Ends DEF PipeInv, ThreadInv, ParentEnds, ChildEnds, NoFdLeak, ChildLabels
<1> QED
    BY <1>1, PipeInvariant, PTL
===============================================================================
