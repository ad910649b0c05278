----------------------------- MODULE CallReturn -----------------------------
(***************************************************************************)
(* What the code added by the x86 machine pass (shadow_stack_x86) is for:  *)
(* a call returns to its caller.  ShadowCalls implements this, whatever    *)
(* the program stores over the return addresses on its stack.  A call is   *)
(* safe until something happens to it that the code does not protect it    *)
(* from: only a call that is not safe may return elsewhere.                *)
(***************************************************************************)
EXTENDS Naturals, Sequences

CONSTANTS
    Sites,      \* addresses calls return to
    None        \* no return yet

VARIABLES
    calls,      \* the site and the safety of the calls in progress, innermost first
    at          \* where the last return went

vars == <<calls, at>>

Init == calls = <<>> /\ at = None

\* The calls when call j is no longer safe.
Harmed(j) == [calls EXCEPT ![j].safe = FALSE]

Enter(s, callers) ==
    /\ calls' = <<[site |-> s, safe |-> TRUE]>> \o callers
    /\ UNCHANGED at

Call(s) == Enter(s, calls)

\* The call of a signal handler may harm the call it interrupts.
Interrupt(s) == calls # <<>> /\ Enter(s, Harmed(1))

Harm(j) ==
    /\ calls' = Harmed(j)
    /\ UNCHANGED at

Return ==
    /\ calls # <<>>
    /\ at' = Head(calls).site
    /\ calls' = Tail(calls)

\* Control is lost: at' may be any address.
Stray ==
    /\ calls # <<>> /\ ~Head(calls).safe
    /\ UNCHANGED calls

Next ==
    \/ \E s \in Sites : Call(s) \/ Interrupt(s)
    \/ \E j \in DOMAIN calls : Harm(j)
    \/ Return
    \/ Stray

Spec == Init /\ [][Next]_vars
=============================================================================
