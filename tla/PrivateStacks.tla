---------------------------- MODULE PrivateStacks ----------------------------
(***************************************************************************)
(* What the kernel module promises user space (lkm/core/api.c seen through *)
(* the ioctls): every thread that asked for a shadow stack has one of its  *)
(* own.  It starts out cleared (IOCTL_SHADOW_REQ) or as a copy of the      *)
(* parent's (IOCTL_SHADOW_FORK), and from then on only the stores of the   *)
(* thread itself change it, until the thread gives it up                   *)
(* (IOCTL_SHADOW_FREE).  Processes, slots, pages and page tables are the   *)
(* business of ShadowArea, which implements this.                          *)
(***************************************************************************)
CONSTANTS
    Threads,
    Zeroed,     \* contents of a cleared stack
    NULL        \* no stack, no thread

VARIABLES
    stack,      \* stack[t]: what t reads in its shadow stack
    from        \* from[t]: the parent whose stack the FORK of t is to copy

vars == <<stack, from>>

Init == /\ stack = [t \in Threads |-> NULL]
        /\ from  = [t \in Threads |-> NULL]

\* The parent does nothing until the FORK of its child is over.
Waits(t) == \E u \in Threads : from[u] = t

Request(t) ==
    /\ stack[t] = NULL /\ from[t] = NULL
    /\ stack' = [stack EXCEPT ![t] = Zeroed]
    /\ UNCHANGED from

Fork(t, p) ==
    /\ stack[t] = NULL /\ from[t] = NULL
    /\ from' = [from EXCEPT ![t] = p]
    /\ UNCHANGED stack

ForkFails(t) ==
    /\ from[t] # NULL
    /\ from' = [from EXCEPT ![t] = NULL]
    /\ UNCHANGED stack

Inherit(t) ==
    /\ from[t] # NULL
    /\ stack[from[t]] # NULL
    /\ stack' = [stack EXCEPT ![t] = stack[from[t]]]
    /\ from' = [from EXCEPT ![t] = NULL]

Write(t) ==
    /\ stack[t] # NULL /\ ~Waits(t)
    /\ stack' = [stack EXCEPT ![t] = t]
    /\ UNCHANGED from

Release(t) ==
    /\ stack[t] # NULL /\ ~Waits(t)
    /\ stack' = [stack EXCEPT ![t] = NULL]
    /\ UNCHANGED from

Next == \E t \in Threads :
            \/ Request(t) \/ ForkFails(t) \/ Inherit(t) \/ Write(t) \/ Release(t)
            \/ \E p \in Threads : Fork(t, p)

Spec == Init /\ [][Next]_vars
=============================================================================
