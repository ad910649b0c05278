------------------------------- MODULE MaskPass -------------------------------
(***************************************************************************)
(* The IR pass that masks the addresses of stores (shadow_stack/           *)
(* ShadowStack.cpp), and the execution of the function it has changed.     *)
(*                                                                         *)
(* A function is a graph of basic blocks, numbered in layout order from    *)
(* the entry, 1.  It stores through one SSA pointer, defined at the start  *)
(* of block def; MaskedPtrs keeps different pointers apart, so one is      *)
(* enough.  The pass collects the stores in layout order, then visits      *)
(* them.  It may leave a store alone (known bits, scalar evolution), reuse *)
(* the mask of an earlier store that dominates it, or insert an `and'      *)
(* before it.  Control then flows along any path, and the pointer takes a  *)
(* new value whenever its block is entered.                                *)
(***************************************************************************)
EXTENDS Integers, Sequences, FiniteSets

CONSTANTS
    Blocks,     \* 1 .. the number of blocks
    BlockKinds, \* what a block may store: sequences of "plain" and "m-ignore"
    MASK,       \* one less than a power of two
    HighBits,   \* the values of the bits above MASK
    MAX,        \* the largest address
    Facts,      \* [range, zero, max]: the values the pointer takes, the bits
                \* computeKnownBits shows to be zero, the maximum SCEV gives
    Builds,     \* subsets of {"KNOWNBITS", "SCEV", "DOMTREE"}
    NULL

Entry == 1

Masked(v) == v % (MASK + 1)

Bit(v, b) == (v \div b) % 2

Addresses == 0 .. MAX

\* The mask keeps the low bits, and the analyses of LLVM are sound.
ASSUME MaskConstants ==
    /\ Entry \in Blocks /\ Blocks \subseteq Nat
    /\ NULL \notin Int
    /\ BlockKinds \subseteq Seq({"plain", "m-ignore"})
    /\ MASK \in Addresses /\ MAX \in Nat
    /\ \A v \in Addresses : (\A b \in HighBits : Bit(v, b) = 0) <=> v <= MASK
    /\ \A f \in Facts : /\ f.range \subseteq Addresses /\ f.max \in Addresses
                        /\ \A v \in f.range : /\ v <= f.max
                                              /\ \A b \in f.zero : Bit(v, b) = 0

VARIABLES
    succ, def, code,    \* the function: successors, block of the pointer's
                        \* definition (NULL: a literal, whose mask is folded),
                        \* the stores of a block
    fact, build,        \* what the analyses find; the optimisations compiled in
    bb, stores,         \* the next block to collect stores from, and the stores
                        \* [block, kind] collected
    todo,               \* number of the next store the pass looks at
    operand,            \* operand[i]: number of the store before which the mask
                        \* stands that store i uses, or NULL: the bare pointer
    MaskedPtr,          \* MaskedPtrs[DstPtr]: number of a store, or NULL
    block,              \* block in execution, NULL before and after
    val, masks,         \* the pointer and the results of the inserted `and's
    written             \* addresses written in the block, with the pointer then

fnVars == <<succ, def, code, fact, build>>
passVars == <<bb, stores, todo, operand, MaskedPtr>>
runVars == <<block, val, masks, written>>
vars == <<fnVars, passVars, runVars>>

-----------------------------------------------------------------------------
(***************************************************************************)
(* Dominance (external: LLVM's DominatorTree).                             *)
(***************************************************************************)

\* Blocks on paths from the entry that avoid block a: the least set that has the
\* entry and, but for a, the successors of its members.
Reached(a) ==
    {b \in Blocks \ {a} : \A R \in SUBSET Blocks :
        Entry \in R /\ (\A c \in R : succ[c] \ {a} \subseteq R) => a # Entry /\ b \in R}

\* DominatorTree::dominates for the first instructions of blocks: an unreachable
\* block is dominated by all and dominates nothing else.
BlockDominates(a, b) ==
    \/ b \notin Reached(NULL)
    \/ a \in Reached(NULL) /\ (a = b \/ b \notin Reached(a))

\* The mask inserted before store i against store j.
Dominates(i, j) ==
    IF stores[i].block = stores[j].block
    THEN i < j
    ELSE BlockDominates(stores[i].block, stores[j].block)

\* A verified function: the entry has no predecessor, a terminator has at most
\* two successors, the definition of the pointer dominates its uses.
Init ==
    /\ succ \in [Blocks -> {S \in SUBSET (Blocks \ {Entry}) : Cardinality(S) <= 2}]
    /\ def \in Blocks \cup {NULL}
    /\ code \in [Blocks -> BlockKinds]
    /\ \A b \in Blocks : code[b] # <<>> => def = NULL \/ BlockDominates(def, b)
    /\ fact \in Facts
    /\ build \in Builds
    /\ bb = 1
    /\ stores = <<>>
    /\ todo = 1
    /\ operand = <<>>
    /\ MaskedPtr = NULL
    /\ block = NULL
    /\ val = NULL
    /\ masks = <<>>
    /\ written = {}

-----------------------------------------------------------------------------
(***************************************************************************)
(* The pass.                                                               *)
(***************************************************************************)

\* Mutant: one of the bits is enough.
KnownAnyBit == "KNOWNBITS" \in build /\ HighBits \cap fact.zero # {}

\* All bits outside the mask are known to be zero.
knownBitsOpt == "KNOWNBITS" \in build /\ HighBits \subseteq fact.zero

\* Mutant: the least value is compared.
ScevMin == "SCEV" \in build /\ \E v \in fact.range : \A b \in HighBits : Bit(v, b) = 0

\* The largest value has no bit outside the mask.
scalarEvolutionOpt == "SCEV" \in build /\ \A b \in HighBits : Bit(fact.max, b) = 0

\* Mutant: any earlier mask will do.
ReuseAny(i) == "DOMTREE" \in build /\ MaskedPtr # NULL

\* An earlier mask of the pointer is no instruction or dominates store i.
domTreeOpt(i) ==
    /\ "DOMTREE" \in build
    /\ MaskedPtr # NULL
    /\ def = NULL \/ Dominates(MaskedPtr, i)

\* instrumentStores collects the stores of the next block.
Collect ==
    /\ bb \in Blocks
    /\ bb' = bb + 1
    /\ stores' = stores \o [p \in DOMAIN code[bb] |-> [block |-> bb, kind |-> code[bb][p]]]
    /\ operand' = [i \in DOMAIN stores' |-> NULL]
    /\ masks' = operand'
    /\ UNCHANGED <<fnVars, todo, MaskedPtr, block, val, written>>

\* instrumentStore, for the next store without m-ignore metadata.
InstrumentStore ==
    LET i == todo IN
    /\ bb \notin Blocks /\ todo <= Len(stores)
    /\ todo' = todo + 1
    /\ \/ /\ stores[i].kind = "m-ignore" \/ knownBitsOpt \/ scalarEvolutionOpt
          /\ UNCHANGED <<operand, MaskedPtr>>
       \/ /\ stores[i].kind = "plain" /\ ~knownBitsOpt /\ ~scalarEvolutionOpt
          /\ domTreeOpt(i)
          /\ operand' = [operand EXCEPT ![i] = MaskedPtr]
          /\ UNCHANGED MaskedPtr
       \/ /\ stores[i].kind = "plain" /\ ~knownBitsOpt /\ ~scalarEvolutionOpt
          /\ ~domTreeOpt(i)
          /\ operand' = [operand EXCEPT ![i] = i]
          /\ MaskedPtr' = i
    /\ UNCHANGED <<fnVars, bb, stores, runVars>>

-----------------------------------------------------------------------------
(***************************************************************************)
(* The compiled function.                                                  *)
(***************************************************************************)

\* Control enters block b and runs through it.
Enter(b) ==
    LET here == {i \in DOMAIN stores : stores[i].block = b}
        address(i) == CASE operand[i] = NULL -> val'
                        [] operand[i] # NULL /\ def = NULL -> Masked(val')
                        [] OTHER -> masks'[operand[i]]
    IN
    /\ block' = b
    /\ IF b = def \/ (b = Entry /\ def = NULL) THEN val' \in fact.range ELSE UNCHANGED val
    /\ masks' = [i \in DOMAIN stores |->
                    IF i \in here /\ operand[i] = i /\ def # NULL THEN Masked(val') ELSE masks[i]]
    /\ written' = {[kind |-> stores[i].kind, address |-> address(i), ptr |-> val'] :
                        i \in here}
    /\ UNCHANGED <<fnVars, passVars>>

Call == bb \notin Blocks /\ todo > Len(stores) /\ block = NULL /\ Enter(Entry)

Jump == block # NULL /\ \E b \in succ[block] : Enter(b)

Next == Collect \/ InstrumentStore \/ Call \/ Jump

Spec == Init /\ [][Next]_vars

-----------------------------------------------------------------------------
(***************************************************************************)
(* Properties.                                                             *)
(***************************************************************************)
\* No instrumented store, masked or left alone, on any path, writes above MASK:
\* what is up there (the kernel's shadow areas lie above bit 47) is out of reach
\* of the program's store instructions.
Confined ==
    \A w \in written : w.kind = "plain" =>
        w.address # NULL /\ \A b \in HighBits : Bit(w.address, b) = 0

\* A reused mask is the mask of the pointer as it is now: it has been computed
\* on every path to the store and, in a loop, in this iteration.  So a program
\* whose pointers stay below MASK writes where it wrote before the pass.
SameTarget == \A w \in written : w.kind = "plain" => w.address = Masked(w.ptr)
=============================================================================
