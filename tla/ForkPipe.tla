------------------------------- MODULE ForkPipe -------------------------------
(***************************************************************************)
(* The fork() of the preloaded runtime (alt_runtime/main.c).  The child    *)
(* opens the device for itself and has the kernel copy the shadow stack of *)
(* the thread that forked it; the parent waits for that on a pipe.         *)
(*                                                                         *)
(* The threads of one process fork concurrently, each once; the child of   *)
(* thread t is process t.  A process sees files through its table fds,     *)
(* which a child inherits whole, the pipes of the other forks in progress  *)
(* included.  The return codes of pipe, open, ioctl, read and write are    *)
(* ignored by the code, so each may fail here and control goes on.         *)
(*                                                                         *)
(* ShadowArea has the kernel side of IOCTL_SHADOW_FORK and takes from here *)
(* that the parent does not run meanwhile.                                 *)
(***************************************************************************)
EXTENDS Integers, FiniteSets, Sequences

CONSTANTS
    Threads,    \* the threads of the parent that call fork()
    PAGES,      \* pages of a shadow stack; sa_fork copies one at a time
    Parent,     \* the parent process
    PipeFails,  \* threads whose pipe() may fail
    Signalled,  \* threads with a signal handler without SA_RESTART
    Killable,   \* children that may be killed from outside
    BAD,        \* a descriptor that is not open
    FILE        \* a file the parent has open, such as stdin or a socket, on which
                \* read() and write() may block

Procs == Threads \cup {Parent}

\* Open files: the ends of a pipe, and the device as opened by a process.
ReadEnd(t)  == <<"pipe_r", t>>
WriteEnd(t) == <<"pipe_w", t>>
Device(q)   == <<"device", q>>

ASSUME ForkConstants ==
    /\ IsFiniteSet(Threads)
    /\ Parent \notin Threads
    /\ PAGES \in Nat
    /\ PipeFails \subseteq Threads
    /\ Signalled \subseteq Threads
    /\ Killable \subseteq Threads
    /\ {BAD, FILE} \cap ({"pipe_r", "pipe_w", "device"} \X Procs) = {}
    /\ BAD # FILE

VARIABLES
    pc,          \* the parent's threads, in fork()
    cpc,         \* the children, in fork() and after
    sy_pipe,     \* local of t's fork(): descriptors [r, w], also in the child
    fds,         \* descriptor table of each process
    bytes,       \* unread bytes in the pipe of t
    stack,       \* t's shadow stack: as at the fork, or changed since
    copied,      \* what sa_fork found in the pages it has copied for the child
    mapped,      \* the child has its copy mapped at the parent's address
    interrupted  \* read() in t's fork() ended with EINTR

vars == <<pc, cpc, sy_pipe, fds, bytes, stack, copied, mapped, interrupted>>
childVars == <<cpc, copied, mapped>>

Init ==
    /\ pc = [t \in Threads |-> "user"]
    /\ cpc = [c \in Threads |-> "none"]
    /\ sy_pipe = [t \in Threads |-> [r |-> BAD, w |-> BAD]]
    /\ fds = [q \in Procs |-> IF q = Parent THEN {Device(Parent), FILE} ELSE {}]
    /\ bytes = [t \in Threads |-> 0]
    /\ stack = [t \in Threads |-> "fork"]
    /\ copied = [c \in Threads |-> <<>>]
    /\ mapped = {}
    /\ interrupted = {}

Goto(t, from, label) == pc[t] = from /\ pc' = [pc EXCEPT ![t] = label]

ChildGoto(c, from, label) == cpc[c] = from /\ cpc' = [cpc EXCEPT ![c] = label]

\* close() of each descriptor in D; the error for one not open is ignored.
Close(q, D) == fds' = [fds EXCEPT ![q] = @ \ D]

IsOpen(fd) == \E q \in Procs : fd \in fds[q]

\* What sy_pipe may hold when pipe() failed: whatever was on the stack, which may
\* be the number of any open file, or of the pipe another fork opens later.
\* (The device can be neither read nor written: to the calls below its number is
\* like one that is not open.)
Rubbish(t) ==
    {BAD, FILE} \cup UNION {{ReadEnd(u), WriteEnd(u)} : u \in Threads \ {t}}

\* pipe(), whose failure is not noticed.
Pipe(t) ==
    /\ Goto(t, "user", "fork")
    /\ cpc[t] = "none"
    /\ \/ /\ sy_pipe' = [sy_pipe EXCEPT ![t] = [r |-> ReadEnd(t), w |-> WriteEnd(t)]]
          /\ fds' = [fds EXCEPT ![Parent] = @ \cup {ReadEnd(t), WriteEnd(t)}]
       \/ /\ t \in PipeFails
          /\ \E r, w \in Rubbish(t) :
                sy_pipe' = [sy_pipe EXCEPT ![t] = [r |-> r, w |-> w]]
          /\ UNCHANGED fds
    /\ UNCHANGED <<bytes, stack, interrupted, childVars>>

\* real_fork(): the child starts with a copy of the descriptor table.
RealFork(t) ==
    /\ \/ /\ Goto(t, "fork", "close_w")
          /\ cpc' = [cpc EXCEPT ![t] = "open"]
          /\ fds' = [fds EXCEPT ![t] = fds[Parent]]
       \/ /\ Goto(t, "fork", "fail")
          /\ UNCHANGED <<cpc, fds>>
    /\ UNCHANGED <<sy_pipe, bytes, stack, copied, mapped, interrupted>>

-----------------------------------------------------------------------------
(***************************************************************************)
(* The parent: pid > 0, and the path of a failed fork.                     *)
(***************************************************************************)

\* Mutant: the parent keeps its write end while it waits.
ParentKeepW(t) ==
    /\ \/ Goto(t, "close_w", "read") /\ UNCHANGED fds
       \/ Goto(t, "close_r", "ret")  /\ Close(Parent, {sy_pipe[t].r, sy_pipe[t].w})
       \/ Goto(t, "fail", "ret")     /\ Close(Parent, {sy_pipe[t].r, sy_pipe[t].w})
    /\ UNCHANGED <<sy_pipe, bytes, stack, interrupted, childVars>>

\* Mutant: a failed fork closes only the read end.
ParentLeak(t) ==
    /\ \/ Goto(t, "close_w", "read") /\ Close(Parent, {sy_pipe[t].w})
       \/ Goto(t, "close_r", "ret")  /\ Close(Parent, {sy_pipe[t].r})
       \/ Goto(t, "fail", "ret")     /\ Close(Parent, {sy_pipe[t].r})
    /\ UNCHANGED <<sy_pipe, bytes, stack, interrupted, childVars>>

\* The close() calls: of the write end before the read, of the read end after
\* it, of both when the fork failed.
ParentClose(t) ==
    /\ \/ Goto(t, "close_w", "read") /\ Close(Parent, {sy_pipe[t].w})
       \/ Goto(t, "close_r", "ret")  /\ Close(Parent, {sy_pipe[t].r})
       \/ Goto(t, "fail", "ret")     /\ Close(Parent, {sy_pipe[t].r, sy_pipe[t].w})
    /\ UNCHANGED <<sy_pipe, bytes, stack, interrupted, childVars>>

\* Mutant: the parent does not wait.
ReadNothing(t) ==
    /\ Goto(t, "read", "close_r")
    /\ UNCHANGED <<sy_pipe, fds, bytes, stack, interrupted, childVars>>

\* read() returns with a byte, at the end of file when no process can write
\* any more, or with an error when the descriptor cannot be read from.
Read(t) ==
    LET fd == sy_pipe[t].r IN
    /\ Goto(t, "read", "close_r")
    /\ \/ \E u \in Threads :
            /\ fd = ReadEnd(u) /\ fd \in fds[Parent]
            /\ \/ bytes[u] > 0 /\ bytes' = [bytes EXCEPT ![u] = @ - 1]
               \/ bytes[u] = 0 /\ ~IsOpen(WriteEnd(u)) /\ UNCHANGED bytes
       \/ /\ fd \notin fds[Parent] \/ (fd # FILE /\ \A u \in Threads : fd # ReadEnd(u))
          /\ UNCHANGED bytes
    /\ UNCHANGED <<sy_pipe, fds, stack, interrupted, childVars>>

\* read() of another file, which returns when there is something to read.
ReadOther(t) ==
    /\ sy_pipe[t].r = FILE /\ FILE \in fds[Parent]
    /\ Goto(t, "read", "close_r")
    /\ UNCHANGED <<sy_pipe, fds, bytes, stack, interrupted, childVars>>

\* EINTR: a signal ends the read early.
ReadInterrupted(t) ==
    /\ t \in Signalled
    /\ Goto(t, "read", "close_r")
    /\ interrupted' = interrupted \cup {t}
    /\ UNCHANGED <<sy_pipe, fds, bytes, stack, childVars>>

\* After fork() the program goes on, and changes its shadow stack.
UserWrite(t) ==
    /\ pc[t] = "ret"
    /\ stack' = [stack EXCEPT ![t] = "changed"]
    /\ UNCHANGED <<pc, sy_pipe, fds, bytes, interrupted, childVars>>

-----------------------------------------------------------------------------
(***************************************************************************)
(* The child: pid = 0.                                                     *)
(***************************************************************************)

\* The child closes its read end and the parent's device, and opens the device
\* anew; with shadow_fd = -1 the ioctl fails too.
ChildOpen(c) ==
    LET D == {sy_pipe[c].r, Device(Parent)} IN
    /\ \/ /\ ChildGoto(c, "open", "ioctl")
          /\ fds' = [fds EXCEPT ![c] = (@ \ D) \cup {Device(c)}]
       \/ /\ ChildGoto(c, "open", "write")
          /\ Close(c, D)
    /\ UNCHANGED <<pc, sy_pipe, bytes, stack, copied, mapped, interrupted>>

\* sa_fork copies the parent's stack page by page.
ChildCopy(c) ==
    /\ ChildGoto(c, "ioctl", "ioctl")
    /\ Len(copied[c]) < PAGES
    /\ copied' = [copied EXCEPT ![c] = Append(@, stack[c])]
    /\ UNCHANGED <<pc, sy_pipe, fds, bytes, stack, mapped, interrupted>>

\* sa_fork ends: the copy is complete and mapped, or an error left nothing.
ChildIoctl(c) ==
    /\ ChildGoto(c, "ioctl", "write")
    /\ \/ /\ Len(copied[c]) = PAGES
          /\ mapped' = mapped \cup {c}
          /\ UNCHANGED copied
       \/ /\ copied' = [copied EXCEPT ![c] = <<>>]
          /\ UNCHANGED mapped
    /\ UNCHANGED <<pc, sy_pipe, fds, bytes, stack, interrupted>>

\* Process c is gone, its files are closed and its memory is freed.
Die(c) ==
    /\ cpc' = [cpc EXCEPT ![c] = "dead"]
    /\ fds' = [fds EXCEPT ![c] = {}]
    /\ copied' = [copied EXCEPT ![c] = <<>>]
    /\ mapped' = mapped \ {c}

\* write() of one byte: into a pipe somebody can still read; with no reader
\* left SIGPIPE ends the child; any other descriptor gives an ignored error.
ChildWrite(c) ==
    LET fd == sy_pipe[c].w IN
    /\ cpc[c] = "write"
    /\ \/ \E u \in Threads :
            /\ fd = WriteEnd(u) /\ fd \in fds[c]
            /\ \/ /\ IsOpen(ReadEnd(u))
                  /\ ChildGoto(c, "write", "close_w")
                  /\ bytes' = [bytes EXCEPT ![u] = @ + 1]
                  /\ UNCHANGED <<fds, copied, mapped>>
               \/ /\ ~IsOpen(ReadEnd(u))
                  /\ Die(c)
                  /\ UNCHANGED bytes
       \/ /\ fd \notin fds[c] \/ (fd # FILE /\ \A u \in Threads : fd # WriteEnd(u))
          /\ ChildGoto(c, "write", "close_w")
          /\ UNCHANGED <<fds, bytes, copied, mapped>>
    /\ UNCHANGED <<pc, sy_pipe, stack, interrupted>>

\* write() into another file, which returns when that takes the byte.
WriteOther(c) ==
    /\ sy_pipe[c].w = FILE /\ FILE \in fds[c]
    /\ ChildGoto(c, "write", "close_w")
    /\ UNCHANGED <<pc, sy_pipe, fds, bytes, stack, copied, mapped, interrupted>>

\* The last close, after which fork() returns in the child.
ChildClose(c) ==
    /\ ChildGoto(c, "close_w", "user")
    /\ Close(c, {sy_pipe[c].w})
    /\ UNCHANGED <<pc, sy_pipe, bytes, stack, copied, mapped, interrupted>>

\* The child is killed from outside, anywhere, or ends.
Kill(c) ==
    /\ c \in Killable
    /\ cpc[c] \notin {"none", "dead"}
    /\ Die(c)
    /\ UNCHANGED <<pc, sy_pipe, bytes, stack, interrupted>>

\* A child without its shadow stack faults in the first instrumented function:
\* the area is in no vma, so neither fork nor the fault handler provides it.
ChildFault(c) ==
    /\ cpc[c] = "user"
    /\ c \notin mapped
    /\ Die(c)
    /\ UNCHANGED <<pc, sy_pipe, bytes, stack, interrupted>>

ParentStep(t) == RealFork(t) \/ ParentClose(t) \/ Read(t)

ChildStep(c) ==
    \/ ChildOpen(c) \/ ChildCopy(c) \/ ChildIoctl(c) \/ ChildWrite(c)
    \/ ChildClose(c)

Next ==
    \E t \in Threads :
        \/ Pipe(t) \/ ParentStep(t) \/ ReadOther(t) \/ ReadInterrupted(t)
        \/ UserWrite(t) \/ ChildStep(t) \/ WriteOther(t) \/ Kill(t) \/ ChildFault(t)

Spec == Init /\ [][Next]_vars

\* The scheduler runs both sides of every fork; nobody has to be interrupted
\* or killed, no child has to end, and no other file has to become ready.
FairSpec == Spec /\ \A t \in Threads : WF_vars(ParentStep(t)) /\ WF_vars(ChildStep(t))

-----------------------------------------------------------------------------
(***************************************************************************)
(* Properties.  What a failed pipe() or an interrupted read() breaks is    *)
(* excepted by name, so the properties also say that nothing else does.    *)
(***************************************************************************)
PipeOK(t) == pc[t] = "user" \/ sy_pipe[t] = [r |-> ReadEnd(t), w |-> WriteEnd(t)]

PipesOK == \A t \in Threads : PipeOK(t)

\* What ShadowArea assumes (Blocked): from real_fork() until the child has
\* made its IOCTL_SHADOW_FORK, the thread that forked it does not get past the
\* read on the pipe, whatever other forks go on and however they end.  So a
\* child that runs on a shadow stack of its own has its parent's as it was at
\* the fork, not a mixture of pages from before and after the parent went on.
ParentWaits ==
    PipesOK => \A t \in Threads \ interrupted :
        /\ cpc[t] \in {"open", "ioctl", "write"} => pc[t] \in {"close_w", "read"}
        /\ t \in mapped => copied[t] = [w \in 1 .. PAGES |-> "fork"]

\* However fork() ends, the process that returns from it keeps no end of its
\* pipe: any number of forks needs no more descriptors than one.
NoFdLeak ==
    PipesOK => \A t \in Threads :
        /\ pc[t] = "ret" => fds[Parent] \cap {ReadEnd(t), WriteEnd(t)} = {}
        /\ cpc[t] = "user" => fds[t] \cap {ReadEnd(t), WriteEnd(t)} = {}

\* Child c is not going to close what it inherited: fork() has returned in it, or
\* its write() went to another file and waits there.
Keeps(c) == cpc[c] = "user" \/ (cpc[c] = "write" /\ sy_pipe[c].w = FILE)

\* A child that keeps what it has holds the write end of the pipe that t reads,
\* and the child of t is gone (or some pipe() had failed).
HeldOpen(t) ==
    /\ cpc[t] = "dead" \/ ~PipesOK
    /\ \E c, u \in Threads : Keeps(c) /\ sy_pipe[t].r = ReadEnd(u) /\ WriteEnd(u) \in fds[c]

\* The pipe() of t had failed, and t reads from another file that is open.
ReadsOther(t) == pc[t] = "read" /\ sy_pipe[t].r = FILE /\ FILE \in fds[Parent]

\* fork() returns in the parent, also when the child dies before it writes, but
\* for two cases: the child of a concurrent fork inherited the write end and
\* keeps it, so that the pipe has no end of file; or pipe() had failed and the
\* uninitialised sy_pipe names another file, whose read() may block for ever.
ForkReturns ==
    \A t \in Threads :
        pc[t] \notin {"user", "ret"} ~> (pc[t] = "ret" \/ HeldOpen(t) \/ ReadsOther(t))
=============================================================================
