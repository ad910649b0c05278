---------------------------- MODULE MaskPassProofs ----------------------------
(***************************************************************************)
(* Proofs about MaskPass: for every control-flow graph, every layout of    *)
(* stores, every mask and every sound analysis, the function the pass has  *)
(* changed writes below MASK only, and where it wrote before.              *)
(*                                                                         *)
(* The argument is about paths.  Reached(a) is closed under the steps that *)
(* do not enter a, so a run that is outside Reached(a) has been through a; *)
(* and of two reachable blocks one can be reached without the other, so    *)
(* the block of a mask cannot be skipped by going round through the        *)
(* definition of the pointer again.                                        *)
(***************************************************************************)
EXTENDS MaskPass, SequenceTheorems, TLAPS

Kinds == {"plain", "m-ignore"}
StoreRecs == [block : Blocks, kind : Kinds]

\* The types of the function and of the pass.
MaskTypeOK ==
    /\ succ \in [Blocks -> SUBSET (Blocks \ {Entry})]
    /\ def \in Blocks \cup {NULL}
    /\ code \in [Blocks -> Seq(Kinds)]
    /\ fact \in Facts
    /\ bb \in Nat
    /\ stores \in Seq(StoreRecs)
    /\ todo \in Nat \ {0}
    /\ operand \in [DOMAIN stores -> DOMAIN stores \cup {NULL}]
    /\ DOMAIN masks = DOMAIN stores
    /\ MaskedPtr \in DOMAIN stores \cup {NULL}
    /\ block \in Blocks \cup {NULL}

\* The definition of the pointer dominates its uses, also once collected.
UsesDominated ==
    /\ \A b \in Blocks : code[b] # <<>> => def = NULL \/ BlockDominates(def, b)
    /\ \A i \in DOMAIN stores : def = NULL \/ BlockDominates(def, stores[i].block)

\* What the pass has decided so far.
PassInv ==
    /\ \A i \in DOMAIN stores :
        /\ i >= todo => operand[i] = NULL
        /\ i < todo /\ stores[i].kind = "plain" /\ operand[i] = NULL
              => knownBitsOpt \/ scalarEvolutionOpt
        /\ operand[i] # NULL =>
              /\ operand[operand[i]] = operand[i]
              /\ operand[i] = i \/ def = NULL \/ Dominates(operand[i], i)
    /\ MaskedPtr # NULL => operand[MaskedPtr] = MaskedPtr
    /\ bb \in Blocks => todo = 1 /\ MaskedPtr = NULL
    /\ block # NULL => bb \notin Blocks /\ todo > Len(stores)

\* The pointer is defined once control has been through def, and a mask is the
\* mask of the pointer's present value once control has been through its block.
RunInv ==
    block # NULL =>
        /\ block \in Reached(NULL)
        /\ def = NULL => val \in fact.range
        /\ def # NULL => block \in Reached(def) \/ val \in fact.range
        /\ \A j \in DOMAIN stores :
            operand[j] = j /\ def # NULL /\ stores[j].block \in Reached(NULL)
                => block \in Reached(stores[j].block) \/ masks[j] = Masked(val)

MaskInv == MaskTypeOK /\ UsesDominated /\ PassInv /\ RunInv /\ SameTarget /\ Confined

-----------------------------------------------------------------------------
(***************************************************************************)
(* Masks and dominance.                                                    *)
(***************************************************************************)

\* The `and' with MASK yields an address below MASK, and leaves one that already
\* is below alone.
LEMMA MaskedRange ==
    ASSUME NEW v \in Addresses
    PROVE  /\ Masked(v) \in Addresses /\ Masked(v) <= MASK
           /\ v <= MASK => Masked(v) = v
<1>1. MASK \in Nat /\ v \in Nat /\ MASK <= MAX /\ MAX \in Nat
  BY MaskConstants DEF Addresses
<1>2. MASK + 1 \in Nat /\ MASK + 1 > 0
  BY <1>1
<1>3. v % (MASK + 1) \in 0 .. MASK
  BY <1>1, <1>2
<1>4. v <= MASK => v % (MASK + 1) = v
  BY <1>1, <1>2
<1> QED
  BY <1>1, <1>3, <1>4 DEF Masked, Addresses

\* An address below MASK has none of the bits the program must not set.
LEMMA LowAddress ==
    ASSUME NEW v \in Addresses
    PROVE  (\A b \in HighBits : Bit(v, b) = 0) <=> v <= MASK
BY MaskConstants

\* NULL is no block, no store number and no address.
LEMMA NullApart == NULL \notin Blocks /\ NULL \notin Nat /\ NULL # Entry
<1>1. NULL \notin Int /\ Blocks \subseteq Nat
  BY MaskConstants
<1>2. \A n \in Nat : n \in Int
  OBVIOUS
<1>3. NULL \notin Nat
  BY <1>1, <1>2, Zenon
<1>4. Entry \in Nat
  BY DEF Entry
<1> QED
  BY <1>1, <1>3, <1>4, Zenon

\* A path that avoids block a starts at the entry and does not end in a.
LEMMA ReachedStart ==
    ASSUME NEW a
    PROVE  /\ a # Entry => Entry \in Reached(a)
           /\ a \notin Reached(a)
           /\ Reached(a) \subseteq Blocks
BY MaskConstants DEF Reached

\* Such a path goes on along every edge that does not enter a.
LEMMA ReachedStep ==
    ASSUME NEW a, NEW c \in Reached(a), NEW b \in succ[c], b # a,
           succ \in [Blocks -> SUBSET (Blocks \ {Entry})]
    PROVE  b \in Reached(a)
<1>1. c \in Blocks /\ b \in Blocks
  BY DEF Reached
<1>2. ASSUME NEW R \in SUBSET Blocks, Entry \in R, \A e \in R : succ[e] \ {a} \subseteq R
      PROVE  a # Entry /\ b \in R
  <2>1. a # Entry /\ c \in R
    BY <1>2 DEF Reached
  <2> QED
    BY <1>2, <2>1
<1> QED
  BY <1>1, <1>2 DEF Reached

\* Of two reachable blocks, one is reached by a path that avoids the other: no
\* two blocks dominate each other.
LEMMA ReachedEither ==
    ASSUME succ \in [Blocks -> SUBSET (Blocks \ {Entry})],
           NEW a \in Reached(NULL), NEW d \in Reached(NULL), a # d
    PROVE  a \in Reached(d) \/ d \in Reached(a)
<1> SUFFICES ASSUME a \notin Reached(d), d \notin Reached(a)
             PROVE  FALSE
  OBVIOUS
<1>a. CASE a = Entry
  BY <1>a, ReachedStart
<1>b. CASE d = Entry
  BY <1>b, ReachedStart
<1>c. CASE a # Entry /\ d # Entry
  <2> DEFINE R == Reached(a) \cap Reached(d)
  <2>1. R \in SUBSET Blocks /\ Entry \in R /\ a \notin R
    BY <1>c, ReachedStart
  <2>2. ASSUME NEW c \in R, NEW b \in succ[c]
        PROVE  b \in R
    <3>1. b # a
      <4> SUFFICES ASSUME b = a PROVE FALSE
        OBVIOUS
      <4>1. b # d /\ c \in Reached(d)
        OBVIOUS
      <4> QED
        BY <4>1, ReachedStep
    <3>2. b # d
      <4> SUFFICES ASSUME b = d PROVE FALSE
        OBVIOUS
      <4>1. b # a /\ c \in Reached(a)
        OBVIOUS
      <4> QED
        BY <4>1, ReachedStep
    <3> QED
      BY <3>1, <3>2, ReachedStep
  <2>3. \A c \in R : succ[c] \ {NULL} \subseteq R
    BY <2>2
  <2> HIDE DEF R
  <2>4. a \in R
    BY <2>1, <2>3 DEF Reached
  <2> QED
    BY <2>1, <2>4
<1> QED
  BY <1>a, <1>b, <1>c

\* Paths and dominance are the function's: no step of pass or run changes them.
LEMMA DominanceStays ==
    ASSUME succ' = succ
    PROVE  /\ \A a : Reached(a)' = Reached(a)
           /\ \A a, b : BlockDominates(a, b)' = BlockDominates(a, b)
BY DEF Reached, BlockDominates

-----------------------------------------------------------------------------
(***************************************************************************)
(* The invariant holds at first and through the pass.                      *)
(***************************************************************************)

\* A function about to be instrumented satisfies the invariant.
LEMMA MaskInit == Init => MaskInv
<1> SUFFICES ASSUME Init PROVE MaskInv
  OBVIOUS
<1>1. BlockKinds \subseteq Seq(Kinds)
  BY MaskConstants DEF Kinds
<1>2. stores \in Seq(StoreRecs) /\ DOMAIN stores = {} /\ DOMAIN operand = {} /\ DOMAIN masks = {}
  BY DEF Init
<1>3. code \in [Blocks -> Seq(Kinds)]
  BY <1>1 DEF Init
<1>4. operand \in [DOMAIN stores -> DOMAIN stores \cup {NULL}]
  BY <1>2 DEF Init
<1>5. MaskTypeOK
  BY <1>2, <1>3, <1>4 DEF Init, MaskTypeOK
<1>6. UsesDominated
  BY <1>2 DEF Init, UsesDominated
<1>7. PassInv /\ RunInv
  BY <1>2 DEF Init, PassInv, RunInv
<1>8. SameTarget /\ Confined
  BY DEF Init, SameTarget, Confined
<1> QED
  BY <1>5, <1>6, <1>7, <1>8 DEF MaskInv

\* Collecting the stores of a block keeps the invariant: they are stores of that
\* block, and none has been looked at.
LEMMA MaskCollect ==
    ASSUME MaskInv, Collect
    PROVE  MaskInv'
<1> DEFINE t == [p \in DOMAIN code[bb] |-> [block |-> bb, kind |-> code[bb][p]]]
<1> USE DEF MaskInv
<1>1. /\ bb \in Blocks /\ code[bb] \in Seq(Kinds) /\ stores \in Seq(StoreRecs)
      /\ fact \in Facts /\ bb \in Nat /\ todo = 1 /\ MaskedPtr = NULL
  BY DEF Collect, MaskTypeOK, PassInv
<1>2. t \in Seq(StoreRecs) /\ DOMAIN t = DOMAIN code[bb]
  <2>1. Len(code[bb]) \in Nat /\ DOMAIN code[bb] = 1 .. Len(code[bb])
    BY <1>1
  <2>2. ASSUME NEW p \in DOMAIN code[bb]
        PROVE  [block |-> bb, kind |-> code[bb][p]] \in StoreRecs
    <3>1. code[bb][p] \in Kinds
      BY <1>1, <2>1, ElementOfSeq
    <3> QED
      BY <1>1, <3>1 DEF StoreRecs
  <2>3. t \in [1 .. Len(code[bb]) -> StoreRecs]
    BY <2>1, <2>2
  <2> QED
    BY <2>1, <2>3
<1>3. \A p \in DOMAIN t : t[p].block = bb
  OBVIOUS
<1>4. DOMAIN t # {} => code[bb] # <<>>
  BY <1>1
<1> HIDE DEF t
<1>5. stores' = stores \o t /\ bb' = bb + 1
  BY DEF Collect, t
<1>6. /\ stores' \in Seq(StoreRecs)
      /\ Len(stores') = Len(stores) + Len(t)
      /\ \A i \in 1 .. Len(stores) : stores'[i] = stores[i]
      /\ \A i \in Len(stores) + 1 .. Len(stores) + Len(t) : stores'[i] = t[i - Len(stores)]
  BY <1>1, <1>2, <1>5 DEF StoreRecs
<1>7. ASSUME NEW i \in DOMAIN stores'
      PROVE  \/ i \in DOMAIN stores /\ stores'[i] = stores[i]
             \/ i - Len(stores) \in DOMAIN t /\ stores'[i] = t[i - Len(stores)]
  <2>1. i \in 1 .. Len(stores) + Len(t) /\ Len(stores) \in Nat /\ Len(t) \in Nat
    BY <1>1, <1>2, <1>6
  <2>a. CASE i <= Len(stores)
    BY <2>a, <2>1, <1>1, <1>6
  <2>b. CASE i > Len(stores)
    BY <2>b, <2>1, <1>2, <1>6
  <2> QED
    BY <2>1, <2>a, <2>b
<1>8. /\ operand' = [i \in DOMAIN stores' |-> NULL] /\ masks' = operand'
      /\ UNCHANGED <<succ, def, code, fact, build, todo, MaskedPtr, block, val, written>>
  BY DEF Collect, fnVars
<1>9. block = NULL
  BY <1>1 DEF PassInv
<1>10. MaskTypeOK'
  BY <1>1, <1>5, <1>6, <1>8 DEF MaskTypeOK
<1>11. /\ \A b \in Blocks : code'[b] # <<>> => def' = NULL \/ BlockDominates(def, b)'
  BY <1>8, DominanceStays DEF UsesDominated
<1>12. ASSUME NEW i \in DOMAIN stores'
       PROVE  def' = NULL \/ BlockDominates(def, stores'[i].block)
  <2>a. CASE i \in DOMAIN stores /\ stores'[i] = stores[i]
    BY <2>a, <1>8 DEF UsesDominated
  <2>b. CASE i - Len(stores) \in DOMAIN t /\ stores'[i] = t[i - Len(stores)]
    BY <2>b, <1>1, <1>3, <1>4, <1>8 DEF UsesDominated
  <2> QED
    BY <1>7, <2>a, <2>b
<1>13. UsesDominated'
  BY <1>8, <1>11, <1>12, DominanceStays DEF UsesDominated
<1>14. PassInv'
  BY <1>1, <1>6, <1>8, <1>9 DEF PassInv
<1>15. RunInv' /\ SameTarget' /\ Confined'
  BY <1>8, <1>9 DEF RunInv, SameTarget, Confined
<1> QED
  BY <1>10, <1>13, <1>14, <1>15

\* A visit to a store keeps the invariant: a mask is reused only by a store it
\* dominates, and a store that has its own mask is not given another.
LEMMA MaskInstrument ==
    ASSUME MaskInv, InstrumentStore
    PROVE  MaskInv'
<1> USE DEF MaskInv
<1>1. /\ bb \notin Blocks /\ todo \in Nat \ {0} /\ todo \in DOMAIN stores /\ todo' = todo + 1
      /\ stores \in Seq(StoreRecs) /\ MaskedPtr \in DOMAIN stores \cup {NULL}
      /\ operand \in [DOMAIN stores -> DOMAIN stores \cup {NULL}]
  BY DEF InstrumentStore, MaskTypeOK
<1>2. UNCHANGED <<succ, def, code, fact, build, bb, stores, block, val, masks, written>>
  BY DEF InstrumentStore, fnVars, runVars
<1>3. block = NULL
  BY <1>1 DEF PassInv
<1>4. DOMAIN stores \subseteq Nat \ {0} /\ NULL \notin DOMAIN stores
  BY <1>1, NullApart
<1>5. /\ operand' \in [DOMAIN stores -> DOMAIN stores \cup {NULL}]
      /\ MaskedPtr' \in DOMAIN stores \cup {NULL}
  BY <1>1 DEF InstrumentStore
<1>6. MaskTypeOK'
  BY <1>1, <1>2, <1>5 DEF MaskTypeOK
<1>7. UsesDominated'
  BY <1>2, DominanceStays DEF UsesDominated
<1>8. RunInv' /\ SameTarget' /\ Confined'
  BY <1>2, <1>3 DEF RunInv, SameTarget, Confined
<1>9. /\ knownBitsOpt' = knownBitsOpt /\ scalarEvolutionOpt' = scalarEvolutionOpt
      /\ \A i, j : Dominates(i, j)' = Dominates(i, j)
  BY <1>2, DominanceStays DEF knownBitsOpt, scalarEvolutionOpt, Dominates
<1>10. operand[todo] = NULL
  BY <1>1 DEF PassInv
<1>11. stores[todo].kind \in Kinds
  <2>1. stores[todo] \in StoreRecs
    BY <1>1
  <2> QED
    BY <2>1 DEF StoreRecs
<1> DEFINE Use(o, i) == /\ o[o[i]] = o[i]
                        /\ o[i] = i \/ def = NULL \/ Dominates(o[i], i)
<1>12. /\ \A i \in DOMAIN stores :
            /\ i >= todo => operand[i] = NULL
            /\ i < todo /\ stores[i].kind = "plain" /\ operand[i] = NULL
                  => knownBitsOpt \/ scalarEvolutionOpt
            /\ operand[i] # NULL => Use(operand, i)
       /\ MaskedPtr # NULL => operand[MaskedPtr] = MaskedPtr
  BY DEF PassInv
<1>13. /\ \A i \in DOMAIN stores :
            /\ i >= todo' => operand'[i] = NULL
            /\ i < todo' /\ stores[i].kind = "plain" /\ operand'[i] = NULL
                  => knownBitsOpt \/ scalarEvolutionOpt
            /\ operand'[i] # NULL => Use(operand', i)
       /\ MaskedPtr' # NULL => operand'[MaskedPtr'] = MaskedPtr'
  <2>a. CASE /\ stores[todo].kind = "m-ignore" \/ knownBitsOpt \/ scalarEvolutionOpt
             /\ UNCHANGED <<operand, MaskedPtr>>
    <3>1. ASSUME NEW i \in DOMAIN stores, i < todo', stores[i].kind = "plain", operand[i] = NULL
          PROVE  knownBitsOpt \/ scalarEvolutionOpt
      BY <2>a, <3>1, <1>1, <1>4, <1>12
    <3>2. \A i \in DOMAIN stores : i >= todo' => operand[i] = NULL
      BY <1>1, <1>4, <1>12
    <3> QED
      BY <2>a, <3>1, <3>2, <1>12
  <2>b. CASE /\ domTreeOpt(todo)
             /\ operand' = [operand EXCEPT ![todo] = MaskedPtr]
             /\ UNCHANGED MaskedPtr
    <3>1. MaskedPtr \in DOMAIN stores /\ operand[MaskedPtr] = MaskedPtr
      BY <2>b, <1>1, <1>12 DEF domTreeOpt
    <3>2. MaskedPtr # todo /\ operand'[MaskedPtr] = MaskedPtr /\ operand'[todo] = MaskedPtr
      BY <2>b, <3>1, <1>1, <1>4, <1>10
    <3>3. \A i \in DOMAIN stores \ {todo} : operand'[i] = operand[i]
      BY <2>b, <1>1
    <3>4. Use(operand', todo)
      BY <2>b, <3>2 DEF domTreeOpt
    <3>5. ASSUME NEW i \in DOMAIN stores \ {todo}, operand'[i] # NULL
          PROVE  Use(operand', i)
      <4>1. operand[i] # NULL /\ Use(operand, i) /\ operand'[i] = operand[i]
        BY <3>3, <3>5, <1>12
      <4>2. operand[i] \in DOMAIN stores /\ operand[i] # todo
        BY <4>1, <1>1, <1>4, <1>10
      <4> QED
        BY <4>1, <4>2, <3>3
    <3>6. \A i \in DOMAIN stores : i >= todo' => operand'[i] = NULL
      BY <1>1, <1>4, <1>12, <3>3
    <3>7. \A i \in DOMAIN stores : i < todo' /\ stores[i].kind = "plain" /\ operand'[i] = NULL
                  => knownBitsOpt \/ scalarEvolutionOpt
      BY <1>1, <1>4, <1>12, <3>1, <3>2, <3>3
    <3> QED
      BY <2>b, <3>1, <3>2, <3>4, <3>5, <3>6, <3>7
  <2>c. CASE operand' = [operand EXCEPT ![todo] = todo] /\ MaskedPtr' = todo
    <3>1. operand'[todo] = todo
      BY <2>c, <1>1
    <3>2. \A i \in DOMAIN stores \ {todo} : operand'[i] = operand[i]
      BY <2>c, <1>1
    <3>3. ASSUME NEW i \in DOMAIN stores \ {todo}, operand'[i] # NULL
          PROVE  Use(operand', i)
      <4>1. operand[i] # NULL /\ Use(operand, i) /\ operand'[i] = operand[i]
        BY <3>2, <3>3, <1>12
      <4>2. operand[i] \in DOMAIN stores /\ operand[i] # todo
        BY <4>1, <1>1, <1>4, <1>10
      <4> QED
        BY <4>1, <4>2, <3>2
    <3>4. \A i \in DOMAIN stores : i >= todo' => operand'[i] = NULL
      BY <1>1, <1>4, <1>12, <3>2
    <3>5. \A i \in DOMAIN stores : i < todo' /\ stores[i].kind = "plain" /\ operand'[i] = NULL
                  => knownBitsOpt \/ scalarEvolutionOpt
      BY <1>1, <1>4, <1>12, <3>1, <3>2
    <3>6. Use(operand', todo)
      BY <3>1
    <3> QED
      BY <2>c, <3>1, <3>3, <3>4, <3>5, <3>6
  <2> QED
    BY <2>a, <2>b, <2>c DEF InstrumentStore
<1> HIDE DEF Use
<1>14. \A i \in DOMAIN stores : Use(operand', i) =>
            /\ operand'[operand'[i]] = operand'[i]
            /\ operand'[i] = i \/ def' = NULL \/ Dominates(operand[i], i)'
  <2>1. ASSUME NEW i
        PROVE  Dominates(operand[i], i)' = Dominates(operand'[i], i)
    BY <1>2 DEF Dominates, BlockDominates, Reached
  <2> QED
    BY <1>2, <2>1 DEF Use
<1>15. PassInv'
  BY <1>1, <1>2, <1>3, <1>9, <1>13, <1>14 DEF PassInv
<1> QED
  BY <1>6, <1>7, <1>8, <1>15

-----------------------------------------------------------------------------
(***************************************************************************)
(* The invariant holds through a run of the function.                      *)
(***************************************************************************)

\* The first block a call enters is the entry, every other one is a successor
\* of the block before: both are reachable, and a path that avoided some other
\* block still does.
LEMMA EntersReached ==
    ASSUME MaskInv, NEW b, \/ block = NULL /\ b = Entry
                           \/ block # NULL /\ b \in succ[block]
    PROVE  /\ b \in Blocks /\ b \in Reached(NULL)
           /\ \A a : a # b /\ (block = NULL \/ block \in Reached(a)) => b \in Reached(a)
<1> USE DEF MaskInv
<1>1. succ \in [Blocks -> SUBSET (Blocks \ {Entry})]
  BY DEF MaskTypeOK
<1>a. CASE block = NULL /\ b = Entry
  BY <1>a, ReachedStart, NullApart, MaskConstants
<1>b. CASE block # NULL /\ b \in succ[block]
  <2>1. block \in Reached(NULL) /\ block \in Blocks
    BY <1>b DEF RunInv, MaskTypeOK
  <2>2. b \in Blocks /\ b # NULL
    BY <1>1, <1>b, <2>1, NullApart
  <2>3. b \in Reached(NULL)
    BY <1>1, <1>b, <2>1, <2>2, ReachedStep
  <2>4. \A a : a # b /\ block \in Reached(a) => b \in Reached(a)
    BY <1>1, <1>b, ReachedStep
  <2> QED
    BY <1>b, <2>2, <2>3, <2>4
<1> QED
  BY <1>a, <1>b

\* A reachable block with a store is not reached round the definition of the
\* pointer.
LEMMA UseAfterDef ==
    ASSUME MaskInv, def # NULL, NEW i \in DOMAIN stores, stores[i].block \in Reached(NULL)
    PROVE  stores[i].block \notin Reached(def) /\ def \in Reached(NULL)
<1>1. BlockDominates(def, stores[i].block)
  BY DEF MaskInv, UsesDominated
<1> QED
  BY <1>1, ReachedStart DEF BlockDominates

\* After a step into block b the pointer has a value of its range, unless b is
\* reached round its definition.
LEMMA EnterVal ==
    ASSUME MaskInv, NEW b, Enter(b), \/ block = NULL /\ b = Entry
                                     \/ block # NULL /\ b \in succ[block]
    PROVE  val' \in fact.range \/ (def # NULL /\ b \in Reached(def))
<1>1. /\ b \in Blocks
      /\ \A a : a # b /\ (block = NULL \/ block \in Reached(a)) => b \in Reached(a)
  BY EntersReached
<1>a. CASE b = def \/ (b = Entry /\ def = NULL)
  BY <1>a DEF Enter
<1>b. CASE ~(b = def \/ (b = Entry /\ def = NULL))
  <2>1. val' = val
    BY <1>b DEF Enter
  <2>2. block # NULL => val \in fact.range \/ (def # NULL /\ block \in Reached(def))
    BY DEF MaskInv, RunInv
  <2> QED
    BY <1>1, <1>b, <2>1, <2>2
<1> QED
  BY <1>a, <1>b

\* After that step a mask holds the mask of the pointer's value, unless b is
\* reached round the block of the mask.
LEMMA EnterMask ==
    ASSUME MaskInv, NEW b, Enter(b), \/ block = NULL /\ b = Entry
                                     \/ block # NULL /\ b \in succ[block],
           NEW j \in DOMAIN stores, operand[j] = j, def # NULL,
           stores[j].block \in Reached(NULL)
    PROVE  b \in Reached(stores[j].block) \/ masks'[j] = Masked(val')
<1> DEFINE a == stores[j].block
<1>1. /\ b \in Reached(NULL)
      /\ \A c : c # b /\ (block = NULL \/ block \in Reached(c)) => b \in Reached(c)
  BY EntersReached
<1>2. masks'[j] = IF a = b THEN Masked(val') ELSE masks[j]
  BY DEF Enter
<1>3. succ \in [Blocks -> SUBSET (Blocks \ {Entry})]
  BY DEF MaskInv, MaskTypeOK
<1>4. a \notin Reached(def) /\ def \in Reached(NULL)
  BY UseAfterDef
<1>a. CASE a = b
  BY <1>2, <1>a
<1>b. CASE a # b /\ b = def
  <2>1. a \in Reached(def) \/ def \in Reached(a)
    BY <1>b, <1>3, <1>4, ReachedEither
  <2> QED
    BY <1>b, <1>4, <2>1
<1>c. CASE a # b /\ b # def
  <2>1. val' = val /\ masks'[j] = masks[j]
    BY <1>c, <1>2 DEF Enter
  <2>2. block # NULL => block \in Reached(a) \/ masks[j] = Masked(val)
    BY DEF MaskInv, RunInv
  <2> QED
    BY <1>c, <1>1, <2>1, <2>2
<1> QED
  BY <1>a, <1>b, <1>c

\* A plain store of block b, when control enters it, writes to the masked value
\* of the pointer, which is an address below MASK.
LEMMA EnterWrites ==
    ASSUME MaskInv, NEW b, Enter(b), \/ block = NULL /\ b = Entry
                                     \/ block # NULL /\ b \in succ[block],
           bb \notin Blocks, todo > Len(stores),
           NEW i \in DOMAIN stores, stores[i].block = b, stores[i].kind = "plain",
           NEW address, address = CASE operand[i] = NULL -> val'
                                    [] operand[i] # NULL /\ def = NULL -> Masked(val')
                                    [] OTHER -> masks'[operand[i]]
    PROVE  /\ address = Masked(val')
           /\ val' \in Addresses
<1>1. b \in Reached(NULL)
  BY EntersReached
<1>2. def # NULL => b \notin Reached(def)
  BY <1>1, UseAfterDef
<1>3. val' \in fact.range /\ fact \in Facts
  BY <1>2, EnterVal DEF MaskInv, MaskTypeOK
<1>4. val' \in Addresses /\ val' <= fact.max /\ fact.max \in Addresses
  BY <1>3, MaskConstants
<1>5. i < todo /\ stores \in Seq(StoreRecs) /\ operand[i] \in DOMAIN stores \cup {NULL}
  BY DEF MaskInv, MaskTypeOK
<1>a. CASE operand[i] = NULL
  <2>1. knownBitsOpt \/ scalarEvolutionOpt
    BY <1>a, <1>5 DEF MaskInv, PassInv
  <2>2. ASSUME knownBitsOpt PROVE val' <= MASK
    <3>1. \A c \in HighBits : Bit(val', c) = 0
      BY <2>2, <1>3, MaskConstants DEF knownBitsOpt
    <3> QED
      BY <3>1, <1>4, LowAddress
  <2>3. ASSUME scalarEvolutionOpt PROVE val' <= MASK
    <3>1. fact.max <= MASK
      BY <2>3, <1>4, LowAddress DEF scalarEvolutionOpt
    <3> QED
      BY <3>1, <1>4, MaskConstants DEF Addresses
  <2> QED
    BY <1>a, <1>4, <2>1, <2>2, <2>3, MaskedRange
<1>b. CASE operand[i] # NULL /\ def = NULL
  BY <1>b, <1>4
<1>c. CASE operand[i] # NULL /\ def # NULL
  <2> DEFINE j == operand[i]
  <2>1. j \in DOMAIN stores /\ operand[j] = j /\ (j = i \/ Dominates(j, i))
    BY <1>c, <1>5 DEF MaskInv, PassInv
  <2>2. stores[j].block \in Reached(NULL) /\ b \notin Reached(stores[j].block)
    BY <1>1, <2>1, ReachedStart DEF Dominates, BlockDominates
  <2>3. masks'[j] = Masked(val')
    BY <1>c, <2>1, <2>2, EnterMask
  <2> QED
    BY <1>c, <1>4, <2>3
<1> QED
  BY <1>a, <1>b, <1>c

\* A step of the function into a block keeps the invariant.
LEMMA MaskEnter ==
    ASSUME MaskInv, NEW b, Enter(b), \/ block = NULL /\ b = Entry
                                     \/ block # NULL /\ b \in succ[block],
           bb \notin Blocks, todo > Len(stores)
    PROVE  MaskInv'
<1>1. b \in Blocks /\ b \in Reached(NULL) /\ b # NULL
  BY EntersReached, NullApart
<1>2. /\ block' = b
      /\ UNCHANGED <<succ, def, code, fact, build, bb, stores, todo, operand, MaskedPtr>>
      /\ DOMAIN masks' = DOMAIN stores
  BY DEF Enter, fnVars, passVars
<1>3. MaskTypeOK'
  BY <1>1, <1>2 DEF MaskInv, MaskTypeOK
<1>4. UsesDominated'
  BY <1>2, DominanceStays DEF MaskInv, UsesDominated
<1>5. \A i : Dominates(operand[i], i)' = Dominates(operand[i], i)
  BY <1>2 DEF Dominates, BlockDominates, Reached
<1>6. knownBitsOpt' = knownBitsOpt /\ scalarEvolutionOpt' = scalarEvolutionOpt
  BY <1>2 DEF knownBitsOpt, scalarEvolutionOpt
<1>7. PassInv'
  BY <1>2, <1>5, <1>6 DEF MaskInv, PassInv
<1>8. RunInv'
  <2>1. val' \in fact.range \/ (def # NULL /\ b \in Reached(def))
    BY EnterVal
  <2>2. \A j \in DOMAIN stores :
            operand[j] = j /\ def # NULL /\ stores[j].block \in Reached(NULL)
                => b \in Reached(stores[j].block) \/ masks'[j] = Masked(val')
    BY EnterMask
  <2>3. /\ Reached(NULL)' = Reached(NULL) /\ Reached(def)' = Reached(def)
        /\ \A j : Reached(stores[j].block)' = Reached(stores[j].block)
        /\ Masked(val)' = Masked(val')
    BY <1>2 DEF Reached, Masked
  <2> QED
    BY <1>1, <1>2, <2>1, <2>2, <2>3 DEF RunInv
<1>9. ASSUME NEW w \in written', w.kind = "plain"
      PROVE  /\ w.address = Masked(w.ptr)
             /\ w.address # NULL /\ \A c \in HighBits : Bit(w.address, c) = 0
  <2> DEFINE address(i) == CASE operand[i] = NULL -> val'
                             [] operand[i] # NULL /\ def = NULL -> Masked(val')
                             [] OTHER -> masks'[operand[i]]
  <2>1. PICK i \in DOMAIN stores :
            /\ stores[i].block = b
            /\ w = [kind |-> stores[i].kind, address |-> address(i), ptr |-> val']
    BY <1>9 DEF Enter
  <2>2. w.kind = stores[i].kind /\ w.address = address(i) /\ w.ptr = val'
    BY <2>1
  <2>3. address(i) = Masked(val') /\ val' \in Addresses
    BY <2>1, <2>2, <1>9, EnterWrites
  <2> HIDE DEF address
  <2>4. w.address = Masked(val') /\ w.address \in Addresses /\ w.address <= MASK
    BY <2>2, <2>3, MaskedRange
  <2>5. \A c \in HighBits : Bit(w.address, c) = 0
    BY <2>4, LowAddress
  <2>6. w.address \in Nat
    BY <2>4 DEF Addresses
  <2> QED
    BY <2>2, <2>4, <2>5, <2>6, NullApart
<1>10. SameTarget' /\ Confined'
  BY <1>9 DEF SameTarget, Confined, Masked, Bit
<1> QED
  BY <1>3, <1>4, <1>7, <1>8, <1>10 DEF MaskInv

\* Every step keeps the invariant.
LEMMA MaskStep == MaskInv /\ [Next]_vars => MaskInv'
<1> SUFFICES ASSUME MaskInv, [Next]_vars PROVE MaskInv'
  OBVIOUS
<1>a. CASE Collect
  BY <1>a, MaskCollect
<1>b. CASE InstrumentStore
  BY <1>b, MaskInstrument
<1>c. CASE Call
  BY <1>c, MaskEnter DEF Call
<1>d. CASE Jump
  <2>1. PICK b \in succ[block] : Enter(b)
    BY <1>d DEF Jump
  <2>2. block # NULL /\ bb \notin Blocks /\ todo > Len(stores)
    BY <1>d DEF Jump, MaskInv, PassInv
  <2> QED
    BY <2>1, <2>2, MaskEnter
<1>e. CASE UNCHANGED vars
  <2>1. UNCHANGED <<succ, def, code, fact, build, bb, stores, todo, operand, MaskedPtr,
                    block, val, masks, written>>
    BY <1>e DEF vars, fnVars, passVars, runVars
  <2>2. MaskTypeOK' /\ UsesDominated'
    BY <2>1 DEF MaskInv, MaskTypeOK, UsesDominated, BlockDominates, Reached
  <2>3. PassInv'
    BY <2>1 DEF MaskInv, PassInv, Dominates, BlockDominates, Reached, knownBitsOpt,
                scalarEvolutionOpt
  <2>4. RunInv'
    BY <2>1 DEF MaskInv, RunInv, Reached, Masked
  <2>5. SameTarget' /\ Confined'
    BY <2>1 DEF MaskInv, SameTarget, Confined, Masked, Bit
  <2> QED
    BY <2>2, <2>3, <2>4, <2>5 DEF MaskInv
<1> QED
  BY <1>a, <1>b, <1>c, <1>d, <1>e DEF Next

-----------------------------------------------------------------------------
\* The mask a store uses is the mask of the pointer as it is when the store is
\* reached, on every path through every function, loops included: reusing the
\* mask of a store that dominates it, or leaving it out on the word of the
\* analyses, does not change where a pointer below MASK leads.
THEOREM MaskSameTarget == Spec => []SameTarget
<1>1. MaskInv => SameTarget
  BY DEF MaskInv
<1> QED
  BY <1>1, MaskInit, MaskStep, PTL DEF Spec

\* No store the pass is to instrument writes above MASK, on any path, whichever
\* optimisations are compiled in.
THEOREM MaskConfined == Spec => []Confined
<1>1. MaskInv => Confined
  BY DEF MaskInv
<1> QED
  BY <1>1, MaskInit, MaskStep, PTL DEF Spec
=============================================================================
