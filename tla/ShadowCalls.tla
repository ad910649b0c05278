----------------------------- MODULE ShadowCalls -----------------------------
(***************************************************************************)
(* The code the x86 machine pass inserts into a function                   *)
(* (shadow_stack_x86/X86ShadowStack.cpp), run by one thread of a program   *)
(* that calls, returns, receives signals and overwrites return addresses.  *)
(*                                                                         *)
(* The prologue copies the return address to the area `gs' points to and   *)
(* advances the top kept at gs:8; the code before a return takes the copy  *)
(* back and, by ViolationStrategy, writes it over the return address or    *)
(* traps when they differ.  A leaf, a function without calls, has neither. *)
(*                                                                         *)
(* A step is one inserted instruction, except that pushes and pops of the  *)
(* scratch registers, which touch only the frame, are taken together.      *)
(* Words are 8 bytes, so offsets are divided by 8.  Only the words at the  *)
(* top of a frame are kept: what the inserted code pushes, above the       *)
(* return address.                                                         *)
(***************************************************************************)
EXTENDS Naturals, Sequences

CONSTANTS
    Sites,      \* return addresses of the program's calls
    Restorer,   \* the return address of a signal handler
    MaxDepth,   \* bound on the calls in progress
    R10, R11,   \* what the program has in these registers
    None        \* no return yet, no interrupted code

\* Points of the inserted code, named for the instruction about to run; a
\* function of the program is in its body.  A thread is "wild" once it has
\* returned to an address other than the one its call left.
Labels == {"push", "load", "fetch", "save", "add", "settop", "pop", "body",
           "rload", "rsub", "rsettop", "rfetch", "check", "rpop", "ret", "trap",
           "wild"}

\* Between the store of an entry and the store of the top, and between the
\* store of the top and the load of the entry, a handler's own prologue writes
\* the same entry: the code is not safe for signals there.
Exposed == {"add", "settop", "rfetch"}

\* Before the return address is copied and after it is checked, a store over it
\* goes unnoticed.
Unprotected == {"push", "load", "fetch", "rpop", "ret", "trap"}

\* What a word or a register can hold, and what the kernel saves for a handler.
Words == Sites \cup {Restorer, None, R10, R11} \cup Nat
Registers == [{"r10", "r11", "free"} -> Words]
Contexts == [pc : Labels \ {"wild"}, reg : Registers, scratch : {"r11", "free"}]

ASSUME CallConstants ==
    /\ MaxDepth \in Nat
    /\ Restorer \notin Sites
    /\ None \notin Sites \cup {Restorer}
    /\ R10 \notin Nat /\ R11 \notin Nat /\ None \notin Nat
    /\ None \notin Contexts

VARIABLES
    strategy,   \* the ViolationStrategy the program was compiled with
    frames,     \* the calls in progress, innermost first
    shadow,     \* the words of the thread's area
    top,        \* the word at gs:8, as an index into shadow
    reg,        \* r10, r11, and a register that is free before a return
    scratch,    \* the register instrumentRet uses
    pc,         \* the next instruction of the innermost call
    at          \* ghost: where the last return went

vars == <<strategy, frames, shadow, top, reg, scratch, pc, at>>

(***************************************************************************)
(* A call in progress.  words are those on the stack, the return address   *)
(* last.  interrupted is the context the kernel saved if the call is that  *)
(* of a signal handler.  site, the address the caller gave, base, the      *)
(* entries in the area before the call, and exposed, which says that a     *)
(* handler ran at an exposed instruction of the call or that its return    *)
(* address was overwritten where it is not protected, are ghosts.          *)
(***************************************************************************)
Frame(s, isLeaf, context) ==
    [words |-> <<s>>, leaf |-> isLeaf, interrupted |-> context,
     site |-> s, base |-> top, exposed |-> FALSE]

\* What the program has in the registers at a call and in a function's body.
UserRegs == [r10 |-> R10, r11 |-> R11, free |-> None]

Init ==
    /\ strategy \in {"BlindWrite", "Trap"}
    /\ frames = <<>>
    /\ shadow = [i \in 0 .. MaxDepth - 1 |-> None]
    /\ top = 0
    /\ reg = UserRegs
    /\ scratch = "free"
    /\ pc = "body"
    /\ at = None

-----------------------------------------------------------------------------
\* Memory at rsp + 8 * i, and the stack after a store to it.
Word(i) == Head(frames).words[i + 1]
SetWords(ws) == [frames EXCEPT ![1].words = ws]
Push(ws) == SetWords(ws \o Head(frames).words)
Pop(n) == SetWords(SubSeq(Head(frames).words, n + 1, Len(Head(frames).words)))

\* Instructions that change registers only, the top only, or the stack only.
SetReg(from, r, v, to) ==
    /\ pc = from
    /\ reg' = [reg EXCEPT ![r] = v]
    /\ pc' = to
    /\ UNCHANGED <<strategy, frames, shadow, top, scratch, at>>

SetTop(from, r, to) ==
    /\ pc = from
    /\ top' = reg[r]
    /\ pc' = to
    /\ UNCHANGED <<strategy, frames, shadow, reg, scratch, at>>

-----------------------------------------------------------------------------
(***************************************************************************)
(* instrumentPreamble.                                                     *)
(***************************************************************************)
\* push r11; push r10
PushRegs ==
    /\ pc = "push"
    /\ frames' = Push(<<reg["r10"], reg["r11"]>>)
    /\ pc' = "load"
    /\ UNCHANGED <<strategy, shadow, top, reg, scratch, at>>

\* mov r11, gs:8
LoadTop == SetReg("load", "r11", top, "fetch")

\* Mutant: the offset counts one push.
FetchRetOff == SetReg("fetch", "r10", Word(1), "save")

\* mov r10, [rsp + 16]
FetchRet == SetReg("fetch", "r10", Word(2), "save")

\* mov [r11], r10
SaveRet ==
    /\ pc = "save"
    /\ shadow' = [shadow EXCEPT ![reg["r11"]] = reg["r10"]]
    /\ pc' = "add"
    /\ UNCHANGED <<strategy, frames, top, reg, scratch, at>>

\* add r11, 8
AddTop == SetReg("add", "r11", reg["r11"] + 1, "settop")

\* mov gs:8, r11
StoreTop == SetTop("settop", "r11", "pop")

\* Mutant: the registers are popped in the order they were pushed.
PopRegsSwapped ==
    /\ pc = "pop"
    /\ reg' = [reg EXCEPT !["r11"] = Word(0), !["r10"] = Word(1)]
    /\ frames' = Pop(2)
    /\ pc' = "body"
    /\ UNCHANGED <<strategy, shadow, top, scratch, at>>

\* pop r10; pop r11
PopRegs ==
    /\ pc = "pop"
    /\ reg' = [reg EXCEPT !["r10"] = Word(0), !["r11"] = Word(1)]
    /\ frames' = Pop(2)
    /\ pc' = "body"
    /\ UNCHANGED <<strategy, shadow, top, scratch, at>>

-----------------------------------------------------------------------------
(***************************************************************************)
(* instrumentRet.  The register scavenger finds a free register, or r11 is *)
(* pushed first.                                                           *)
(***************************************************************************)
BeginRet ==
    /\ pc = "body"
    /\ frames # <<>> /\ ~Head(frames).leaf
    /\ \/ /\ scratch' = "free"
          /\ UNCHANGED frames
       \/ /\ scratch' = "r11"
          /\ frames' = Push(<<reg["r11"]>>)
    /\ pc' = "rload"
    /\ UNCHANGED <<strategy, shadow, top, reg, at>>

\* mov scratch, gs:8
RetLoadTop == SetReg("rload", scratch, top, "rsub")

\* sub scratch, 8
RetSubTop == SetReg("rsub", scratch, reg[scratch] - 1, "rsettop")

\* Mutant: the top is not written back.
RetKeepTop ==
    /\ pc = "rsettop"
    /\ pc' = "rfetch"
    /\ UNCHANGED <<strategy, frames, shadow, top, reg, scratch, at>>

\* mov gs:8, scratch
RetStoreTop == SetTop("rsettop", scratch, "rfetch")

\* mov scratch, [scratch]
RetFetch == SetReg("rfetch", scratch, shadow[reg[scratch]], "check")

\* Mutant: the offset does not count the push.
RspOffsetZero == 0

\* Where the return address is: above r11 if that was pushed.
RspOffset == IF scratch = "r11" THEN 1 ELSE 0

\* mov [rsp + RspOffset], scratch; or cmp and a jump to the trap block
CheckRet ==
    /\ pc = "check"
    /\ \/ /\ strategy = "BlindWrite"
          /\ frames' = SetWords([Head(frames).words EXCEPT
                                    ![RspOffset + 1] = reg[scratch]])
          /\ pc' = "rpop"
       \/ /\ strategy = "Trap"
          /\ pc' = IF Word(RspOffset) = reg[scratch] THEN "rpop" ELSE "trap"
          /\ UNCHANGED frames
    /\ UNCHANGED <<strategy, shadow, top, reg, scratch, at>>

\* pop scratch, if it was pushed
PopScratch ==
    /\ pc = "rpop"
    /\ \/ /\ scratch = "r11"
          /\ reg' = [reg EXCEPT !["r11"] = Word(0)]
          /\ frames' = Pop(1)
       \/ /\ scratch = "free"
          /\ UNCHANGED <<reg, frames>>
    /\ pc' = "ret"
    /\ UNCHANGED <<strategy, shadow, top, scratch, at>>

-----------------------------------------------------------------------------
(***************************************************************************)
(* The program.                                                            *)
(***************************************************************************)
\* runOnMachineFunction: only functions with calls are instrumented.
Entry(isLeaf) == IF isLeaf THEN "body" ELSE "push"

Call(s, isLeaf) ==
    /\ pc = "body"
    /\ Len(frames) < MaxDepth
    /\ frames # <<>> => ~Head(frames).leaf
    /\ frames' = <<Frame(s, isLeaf, None)>> \o frames
    /\ pc' = Entry(isLeaf)
    /\ UNCHANGED <<strategy, shadow, top, reg, scratch, at>>

\* The calls in progress when a signal arrives.
Interrupted == IF pc \in Exposed THEN [frames EXCEPT ![1].exposed = TRUE] ELSE frames

\* The kernel saves the registers and starts a handler, which returns to the
\* sigreturn stub.  The inserted code blocks no signal.
Signal(isLeaf) ==
    /\ pc # "wild"
    /\ Len(frames) < MaxDepth
    /\ frames' = <<Frame(Restorer, isLeaf,
                         [pc |-> pc, reg |-> reg, scratch |-> scratch])>> \o Interrupted
    /\ reg' = UserRegs
    /\ pc' = Entry(isLeaf)
    /\ UNCHANGED <<strategy, shadow, top, scratch, at>>

\* A function without calls returns with no check.
LeafRet ==
    /\ pc = "body"
    /\ frames # <<>> /\ Head(frames).leaf
    /\ pc' = "ret"
    /\ UNCHANGED <<strategy, frames, shadow, top, reg, scratch, at>>

\* ret; after a handler the stub restores the interrupted context.
Ret ==
    LET f == Head(frames) IN
    /\ pc = "ret"
    /\ Word(0) = f.site
    /\ at' = Word(0)
    /\ frames' = Tail(frames)
    /\ \/ /\ f.interrupted = None
          /\ pc' = "body"
          /\ reg' = [reg EXCEPT !["free"] = None]
          /\ scratch' = "free"
       \/ /\ f.interrupted # None
          /\ pc' = f.interrupted.pc
          /\ reg' = f.interrupted.reg
          /\ scratch' = f.interrupted.scratch
    /\ UNCHANGED <<strategy, shadow, top>>

\* ret to an address that is not the one the call left: control is lost, and
\* what the thread does then is not followed.
Stray ==
    /\ pc = "ret"
    /\ Word(0) # Head(frames).site
    /\ at' = Word(0)
    /\ pc' = "wild"
    /\ UNCHANGED <<strategy, frames, shadow, top, reg, scratch>>

\* A tail call is a return to the pass (isReturn): the callee is entered with
\* the return address of its caller.
TailCall(isLeaf) ==
    /\ pc = "ret"
    /\ frames' = [frames EXCEPT ![1].leaf = isLeaf, ![1].base = top]
    /\ reg' = [reg EXCEPT !["free"] = None]
    /\ scratch' = "free"
    /\ pc' = Entry(isLeaf)
    /\ UNCHANGED <<strategy, shadow, top, at>>

\* The label call j is at.
LabelOf(j) == IF j = 1 THEN pc
              ELSE IF frames[j - 1].interrupted = None THEN "body"
              ELSE frames[j - 1].interrupted.pc

\* A store of the program over the return address of a call in progress, that
\* of an interrupted function included.  The masking of stores
\* (shadow_stack/ShadowStack.cpp) keeps it out of the area.
Overwrite(j, w) ==
    LET f == frames[j] IN
    /\ pc = "body"
    /\ frames' = [frames EXCEPT
            ![j].words = [f.words EXCEPT ![Len(f.words)] = w],
            ![j].exposed = f.exposed \/ f.leaf \/ LabelOf(j) \in Unprotected]
    /\ UNCHANGED <<strategy, shadow, top, reg, scratch, pc, at>>

Inserted ==
    \/ PushRegs \/ LoadTop \/ FetchRet \/ SaveRet \/ AddTop \/ StoreTop \/ PopRegs
    \/ BeginRet \/ RetLoadTop \/ RetSubTop \/ RetStoreTop \/ RetFetch
    \/ CheckRet \/ PopScratch

Next ==
    \/ Inserted
    \/ \E isLeaf \in BOOLEAN : \/ \E s \in Sites : Call(s, isLeaf)
                              \/ Signal(isLeaf)
                              \/ TailCall(isLeaf)
    \/ LeafRet
    \/ Ret
    \/ Stray
    \/ \E j \in DOMAIN frames, w \in Sites \cup {Restorer} : Overwrite(j, w)

Spec == Init /\ [][Next]_vars

-----------------------------------------------------------------------------
(***************************************************************************)
(* Properties.                                                             *)
(***************************************************************************)
\* The labels at which a function has its entry in the area.
InArea == {"pop", "body", "rload", "rsub", "rsettop"}

Registered(j) == ~frames[j].leaf /\ LabelOf(j) \in InArea

\* Prologues and returns of callers, callees, tail callees and handlers are
\* balanced wherever signals arrive: the area holds exactly one entry, in order,
\* for each function whose prologue is done and whose return has not begun, and
\* the entry is its return address unless the call is exposed.
AreaMatches ==
    /\ \A j \in DOMAIN frames :
        /\ Registered(j) /\ ~frames[j].exposed => shadow[frames[j].base] = frames[j].site
        /\ frames[j].base + (IF Registered(j) THEN 1 ELSE 0)
            = IF j = 1 THEN top ELSE frames[j - 1].base
    /\ frames # <<>> => frames[Len(frames)].base = 0

\* With ViolationStrategy::Trap, the trap block is entered only when the return
\* address really was overwritten, or the call is exposed.
NoFalseTrap ==
    pc = "trap" => Head(frames).exposed \/ Word(RspOffset) # Head(frames).site

\* The inserted code leaves r10 and r11 to the function as the caller, or the
\* interrupted code, had them, spilled scratch register included.
RegsKept ==
    pc \in {"body", "ret"} => reg["r10"] = R10 /\ reg["r11"] = R11

CR == INSTANCE CallReturn WITH
        Sites <- Sites \cup {Restorer},
        calls <- [j \in DOMAIN frames |->
                    [site |-> frames[j].site, safe |-> ~frames[j].exposed]]

\* Every return, of a function or a handler, goes to the address its call left,
\* although the program overwrites return addresses on the stack: only that of
\* an exposed call may go astray.
ReturnsToCaller == CR!Spec
=============================================================================
