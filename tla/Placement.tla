------------------------------ MODULE Placement ------------------------------
(***************************************************************************)
(* Where the user-space runtime puts its pool (runtime/mapping.c, the      *)
(* constructor in runtime/main.c and MemPoolInit): setup_memory reads      *)
(* /proc/self/maps line by line, picks a gap between BASE and CEIL for the *)
(* pool and reserves every other gap with PROT_NONE mappings.              *)
(*                                                                         *)
(* Addresses are small numbers; PAGE and ALIGN stand for 4096 and 16.      *)
(* CEIL, like 0x7fffffffffff, is the last address of the page above        *)
(* TASK_SIZE.  mmap and the vma list are the kernel's (external).          *)
(***************************************************************************)
EXTENDS Integers, Sequences, FiniteSetsExt

CONSTANTS
    PAGE, ALIGN,
    TASK_SIZE,   \* end of the address space a process may map
    BASE,        \* lowest address setup_memory considers
    MEM_SIZE,    \* size of the pool, the min of setup_memory
    Maps,        \* the sets of vmas a process may start with
    MayFail      \* TRUE: mmap, malloc and fopen may fail

CEIL == TASK_SIZE + PAGE - 1

RoundDown(x, n) == n * (x \div n)
RoundUp(x, n)   == RoundDown(x + n - 1, n)

ASSUME PlacementConstants ==
    /\ {PAGE, ALIGN, TASK_SIZE, BASE, MEM_SIZE} \subseteq Nat \ {0}
    /\ PAGE % ALIGN = 0 /\ TASK_SIZE % PAGE = 0 /\ BASE % PAGE = 0
    /\ MEM_SIZE % PAGE = 0 /\ ALIGN < PAGE /\ BASE < TASK_SIZE
    /\ MayFail \in BOOLEAN
    /\ \A V \in Maps :
        /\ \E s \in V : {v \in V : v.use = "stack"} = {s}
        /\ \A v \in V : /\ v.hi \in 1 .. TASK_SIZE /\ v.lo \in 1 .. v.hi - 1
                       /\ v.lo % PAGE = 0 /\ v.hi % PAGE = 0
                       /\ v.use \in {"stack", "other"}
                       /\ \A w \in V \ {v} : v.hi <= w.lo \/ w.hi <= v.lo

VARIABLES
    pc,
    vmas,      \* the mappings of the process: [lo, hi, use]
    maps0,     \* ghost: those it started with
    unread,    \* the lines of /proc/self/maps that have not been read
    prev_hi,   \* end of the highest mapping read so far
    list,      \* the gaps found, highest first; then those reserve_all has yet
               \* to look at
    target,    \* [lo, hi] chosen by setup_memory
    jumped     \* ghost: a goto jumped over the initialisation of found

scanVars == <<unread, prev_hi>>
placeVars == <<pc, vmas, maps0, scanVars, list, target, jumped>>

Vma(lo, hi, use) == [lo |-> lo, hi |-> hi, use |-> use]
Overlap(v, lo, hi) == v.lo < hi /\ lo < v.hi
Free(lo, hi) == \A v \in vmas : ~Overlap(v, lo, hi)

-----------------------------------------------------------------------------
(***************************************************************************)
(* The kernel's mmap and munmap.                                           *)
(***************************************************************************)

\* What is left of vmas V when lo .. hi-1 is unmapped.
Without(V, lo, hi) ==
    {v \in V : ~Overlap(v, lo, hi)}
    \cup {[v EXCEPT !.hi = lo] : v \in {u \in V : Overlap(u, lo, hi) /\ u.lo < lo}}
    \cup {[v EXCEPT !.lo = hi] : v \in {u \in V : Overlap(u, lo, hi) /\ u.hi > hi}}

\* Where mmap without MAP_FIXED may put len bytes: at the page of the hint when
\* the range there is free and below TASK_SIZE, else in any free range.
Places(hint, len) ==
    LET a == RoundDown(hint, PAGE) IN
    IF a > 0 /\ a + len <= TASK_SIZE /\ Free(a, a + len)
    THEN {a}
    ELSE {b \in {PAGE * k : k \in 1 .. TASK_SIZE \div PAGE} :
                b + len <= TASK_SIZE /\ Free(b, b + len)}

-----------------------------------------------------------------------------
(***************************************************************************)
(* setup_memory.                                                           *)
(***************************************************************************)

Exit == pc' = "exit"

\* The line of /proc/self/maps above CEIL.
Vsyscall == Vma(CEIL + PAGE + 1, CEIL + 2 * PAGE + 1, "vsyscall")

\* fopen and the malloc of the line.
OpenMaps ==
    /\ pc = "maps"
    /\ pc' = "lines"
    /\ unread' = vmas \cup {Vsyscall}
    /\ prev_hi' = BASE
    /\ UNCHANGED <<vmas, maps0, list, target, jumped>>

\* fopen fails: -1.
NoMaps ==
    /\ pc = "maps" /\ MayFail
    /\ Exit
    /\ UNCHANGED <<vmas, maps0, scanVars, list, target, jumped>>

insert_ma(lo, hi) == list' = <<[lo |-> lo, hi |-> hi]>> \o list

\* The lines come in the order of the addresses.
NextLine(v) == pc = "lines" /\ v \in unread /\ \A w \in unread : v.lo <= w.lo

\* One round of the loop over the lines.
ReadLine(v) ==
    /\ NextLine(v)
    /\ unread' = unread \ {v}
    /\ IF v.lo <= CEIL
       THEN /\ IF v.lo > prev_hi THEN insert_ma(prev_hi, v.lo) ELSE UNCHANGED list
            /\ prev_hi' = IF v.hi > prev_hi THEN v.hi ELSE prev_hi
       ELSE UNCHANGED <<list, prev_hi>>
    /\ UNCHANGED <<pc, vmas, maps0, target, jumped>>

\* After the last line, the gap under CEIL.
LastGap ==
    /\ pc = "lines" /\ unread = {}
    /\ IF prev_hi < CEIL THEN insert_ma(prev_hi, CEIL) ELSE UNCHANGED list
    /\ pc' = "choose"
    /\ UNCHANGED <<vmas, maps0, scanVars, target, jumped>>

\* malloc fails, for the line or in insert_ma: the goto jumps over the
\* initialisation of found, so 0 or -1 is returned, with 0 and lo unset.
JumpOver ==
    /\ MayFail
    /\ \/ pc = "maps"
       \/ \E v \in unread : NextLine(v) /\ v.lo <= CEIL /\ v.lo > prev_hi
       \/ pc = "lines" /\ unread = {} /\ prev_hi < CEIL
    /\ jumped' = TRUE
    /\ \/ Exit /\ UNCHANGED target
       \/ /\ pc' = "pool"
          /\ \E a \in {0, BASE, CEIL} : target' = [lo |-> a, hi |-> a]
    /\ unread' = {} /\ prev_hi' = BASE /\ list' = <<>>
    /\ UNCHANGED <<vmas, maps0>>

Fits(g) == g.hi - g.lo >= MEM_SIZE

\* Mutant: the lower end is rounded down once too often.
TargetLow(g) ==
    [lo |-> RoundDown(g.hi - MEM_SIZE, ALIGN) - ALIGN, hi |-> RoundDown(g.hi, ALIGN)]

\* The upper end of a gap that is large enough.
Target(g) ==
    LET lo == IF g.hi - g.lo > MEM_SIZE THEN g.hi - MEM_SIZE ELSE g.lo
    IN [lo |-> RoundDown(lo, ALIGN), hi |-> RoundDown(g.hi, ALIGN)]

\* The first gap of the list that is large enough.
ChooseTarget ==
    /\ pc = "choose"
    /\ \/ \E i \in DOMAIN list :
            /\ Fits(list[i]) /\ \A j \in 1 .. i - 1 : ~Fits(list[j])
            /\ target' = Target(list[i])
            /\ pc' = "reserve"
       \/ /\ \A i \in DOMAIN list : ~Fits(list[i])
          /\ Exit
          /\ UNCHANGED target
    /\ UNCHANGED <<vmas, maps0, scanVars, list, jumped>>

\* Mutant: every gap from the target upwards is left alone.
SparedAbove(g) == g.hi > target.lo

\* The test of reserve_all: the gap with the target in it is left alone.
Spared(g) == ~(g.lo >= target.hi \/ g.hi <= target.lo)

\* reserve_all, one gap: MAP_FIXED replaces what is there and is refused
\* beyond TASK_SIZE; a failure makes setup_memory return -1.
Reserve ==
    LET g  == Head(list)
        hi == RoundUp(g.hi, PAGE)
    IN
    /\ pc = "reserve" /\ list # <<>>
    /\ list' = Tail(list)
    /\ \/ /\ Spared(g)
          /\ UNCHANGED <<pc, vmas>>
       \/ /\ ~Spared(g) /\ hi <= TASK_SIZE
          /\ vmas' = Without(vmas, g.lo, hi) \cup {Vma(g.lo, hi, "reserved")}
          /\ UNCHANGED pc
       \/ /\ ~Spared(g) /\ (hi > TASK_SIZE \/ MayFail)
          /\ Exit
          /\ UNCHANGED vmas
    /\ UNCHANGED <<maps0, scanVars, target, jumped>>

Reserved ==
    /\ pc = "reserve" /\ list = <<>>
    /\ pc' = "pool"
    /\ UNCHANGED <<vmas, maps0, scanVars, list, target, jumped>>

\* MemPoolInit: the target is only a hint, which mmap rounds down to a page.
MemPoolInit ==
    /\ pc = "pool"
    /\ \/ /\ \E a \in Places(target.lo, MEM_SIZE) :
                vmas' = vmas \cup {Vma(a, a + MEM_SIZE, "pool")}
          /\ pc' = "entry"
       \/ /\ MayFail \/ Places(target.lo, MEM_SIZE) = {}
          /\ Exit
          /\ UNCHANGED vmas
    /\ UNCHANGED <<maps0, scanVars, list, target, jumped>>

PlaceNext ==
    \/ OpenMaps \/ NoMaps
    \/ \E v \in unread : ReadLine(v)
    \/ LastGap \/ JumpOver \/ ChooseTarget
    \/ Reserve \/ Reserved \/ MemPoolInit

PlaceInit ==
    /\ pc = "maps"
    /\ maps0 \in Maps
    /\ vmas = maps0
    /\ unread = {}
    /\ prev_hi = BASE
    /\ list = <<>>
    /\ target = [lo |-> 0, hi |-> 0]
    /\ jumped = FALSE
=============================================================================
