-------------------------- MODULE ShadowCallsProofs --------------------------
(***************************************************************************)
(* Proofs about ShadowCalls, for any program, depth of calls and           *)
(* interleaving with signals, the exposed instructions included.           *)
(***************************************************************************)
EXTENDS ShadowCalls, SequenceTheorems, TLAPS

Frames == [words : Seq(Words), leaf : BOOLEAN, interrupted : Contexts \cup {None},
           site : Sites \cup {Restorer}, base : Nat, exposed : BOOLEAN]

Sorts ==
    /\ strategy \in {"BlindWrite", "Trap"}
    /\ frames \in Seq(Frames) /\ Len(frames) <= MaxDepth
    /\ shadow \in [0 .. MaxDepth - 1 -> Words]
    /\ top \in Nat
    /\ reg \in Registers
    /\ scratch \in {"r11", "free"}
    /\ pc \in Labels

\* The registers, the scratch register and the top of the area when call j goes
\* on; for a caller only r10 and r11 count.
RegOf(j) == IF j = 1 THEN reg
            ELSE IF frames[j - 1].interrupted = None THEN UserRegs
            ELSE frames[j - 1].interrupted.reg
ScratchOf(j) == IF j = 1 THEN scratch
                ELSE IF frames[j - 1].interrupted = None THEN "free"
                ELSE frames[j - 1].interrupted.scratch
TopAt(j) == IF j = 1 THEN top ELSE frames[j - 1].base

\* The program's values are in r10 and r11.
Intact(rg) == rg["r10"] = R10 /\ rg["r11"] = R11

\* Where the return address is, and what is spilled, between BeginRet and
\* PopScratch with scratch register sc.
Place(sc) == IF sc = "r11" THEN 2 ELSE 1
Spilled(f, rg, sc) ==
    /\ Len(f.words) = Place(sc)
    /\ rg["r10"] = R10
    /\ IF sc = "r11" THEN f.words[1] = R11 ELSE rg["r11"] = R11

Pushed(f) ==
    /\ Len(f.words) = 3
    /\ f.words[1] = R10 /\ f.words[2] = R11

Pushing   == {"load", "fetch", "save", "add", "settop", "pop"}
Returning == {"rload", "rsub", "rsettop", "rfetch", "check", "rpop", "trap"}

\* A call f whose entry is in the area when it is at label l.
Listed(f, l) == ~f.leaf /\ l \in InArea

\* v is the address call f has to return to, as far as the code protects it.
IsSite(f, v) == f.exposed \/ v = f.site

\* What the inserted code has on the stack and in the registers at label l.
StackAt(f, l, rg, sc) ==
    /\ f.leaf => l \in {"body", "ret", "wild"} /\ IsSite(f, f.words[1])
    /\ l \in {"push", "body", "ret"} => Len(f.words) = 1
    /\ l \in {"push", "ret"} => IsSite(f, f.words[1])
    /\ l \in Pushing => Pushed(f)
    /\ l \in {"load", "fetch"} => IsSite(f, f.words[3])
    /\ l \in Returning => Spilled(f, rg, sc)
    /\ l = "rpop" => IsSite(f, f.words[Place(sc)])
    /\ l = "trap" => f.exposed \/ f.words[Place(sc)] # f.site

RegsAt(f, l, rg, sc) ==
    /\ l \in {"push", "body", "ret"} => Intact(rg)
    /\ l \in {"fetch", "save", "add"} => rg["r11"] = f.base
    /\ l = "save" => IsSite(f, rg["r10"])
    /\ l = "settop" => rg["r11"] = f.base + 1
    /\ l = "rsub" => rg[sc] = f.base + 1
    /\ l \in {"rsettop", "rfetch"} => rg[sc] = f.base
    /\ l = "check" => IsSite(f, rg[sc])

\* The same for the area, t being its top.
AreaAt(f, l, t) ==
    /\ t = f.base + (IF Listed(f, l) THEN 1 ELSE 0)
    /\ ~f.leaf /\ l \in InArea \cup Exposed => IsSite(f, shadow[f.base])

Sound(j) ==
    /\ StackAt(frames[j], LabelOf(j), RegOf(j), ScratchOf(j))
    /\ RegsAt(frames[j], LabelOf(j), RegOf(j), ScratchOf(j))
    /\ AreaAt(frames[j], LabelOf(j), TopAt(j))

\* The entries of the callers are below those of their callees, and they fit.
Chain ==
    /\ \A k \in DOMAIN frames : \A j \in 1 .. k - 1 :
            frames[k].base + (IF Registered(k) THEN 1 ELSE 0) <= frames[j].base
    /\ \A j \in DOMAIN frames : frames[j].base + j <= Len(frames)

\* A call that a signal interrupted at an exposed instruction is exposed.
Marked ==
    \A j \in DOMAIN frames : j # 1 /\ LabelOf(j) \in Exposed => frames[j].exposed

\* The program that makes the outermost call.
Bottom ==
    LET n == Len(frames) + 1 IN
    LabelOf(n) = "body" /\ Intact(RegOf(n)) /\ TopAt(n) = 0

\* The inductive invariant of the inserted code.
CallInv ==
    Sorts /\ (\A j \in DOMAIN frames : Sound(j)) /\ Chain /\ Marked /\ Bottom

-----------------------------------------------------------------------------
(***************************************************************************)
(* Instructions that touch the innermost call only.                        *)
(***************************************************************************)

\* The calls in progress are well-typed.
LEMMA FrameSorts ==
    ASSUME Sorts, NEW j \in DOMAIN frames
    PROVE  /\ j \in 1 .. Len(frames) /\ frames[j] \in Frames
           /\ frames[j].words \in Seq(Words) /\ frames[j].leaf \in BOOLEAN
           /\ frames[j].interrupted \in Contexts \cup {None}
           /\ frames[j].site \in Sites \cup {Restorer} /\ frames[j].base \in Nat
           /\ frames[j].exposed \in BOOLEAN
<1>1. j \in 1 .. Len(frames) /\ frames[j] \in Frames
    BY DEF Sorts
<1> QED
    BY <1>1 DEF Frames

\* The callers stay as they are, and the innermost call keeps what they depend on.
SameCallers ==
    /\ Len(frames') = Len(frames)
    /\ \A j \in 2 .. Len(frames) : frames'[j] = frames[j]
    /\ frames'[1].interrupted = frames[1].interrupted
    /\ frames'[1].base = frames[1].base

\* So does the innermost call, but for its words.
SameCalls ==
    /\ SameCallers
    /\ frames'[1].leaf = frames[1].leaf
    /\ frames'[1].site = frames[1].site
    /\ frames'[1].exposed = frames[1].exposed

\* Such a step leaves the callers sound: the only entry it may write is above
\* theirs.
LEMMA InnerStep ==
    ASSUME CallInv, frames # <<>>, Sorts', SameCallers, Sound(1)',
           \A i \in 0 .. MaxDepth - 1 : i # frames[1].base => shadow'[i] = shadow[i]
    PROVE  CallInv'
<1>0. /\ Sorts /\ Chain /\ Marked /\ Bottom
      /\ DOMAIN frames = 1 .. Len(frames) /\ Len(frames) \in Nat
      /\ DOMAIN frames' = 1 .. Len(frames) /\ 1 \in DOMAIN frames /\ MaxDepth \in Nat
      /\ Len(frames) <= MaxDepth
    BY CallConstants DEF CallInv, Sorts, SameCallers
<1>1. ASSUME NEW j \in Nat, 2 <= j, j <= Len(frames) + 1
      PROVE  /\ LabelOf(j)' = LabelOf(j) /\ RegOf(j)' = RegOf(j)
             /\ ScratchOf(j)' = ScratchOf(j) /\ TopAt(j)' = TopAt(j)
    <2>1. /\ frames'[j - 1].interrupted = frames[j - 1].interrupted
          /\ frames'[j - 1].base = frames[j - 1].base /\ j # 1
        <3>1. CASE j = 2
            BY <3>1 DEF SameCallers
        <3>2. CASE j # 2
            BY <1>0, <1>1, <3>2 DEF SameCallers
        <3> QED
            BY <1>1, <3>1, <3>2
    <2> QED
        BY <2>1 DEF LabelOf, RegOf, ScratchOf, TopAt
<1>2. ASSUME NEW j \in 2 .. Len(frames) PROVE Sound(j)'
    <2>0. j \in DOMAIN frames /\ Sound(j) /\ frames'[j] = frames[j] /\ frames[j].base \in Nat
        BY <1>0, <1>2, FrameSorts DEF CallInv, SameCallers
    <2>1. /\ LabelOf(j)' = LabelOf(j) /\ RegOf(j)' = RegOf(j)
          /\ ScratchOf(j)' = ScratchOf(j) /\ TopAt(j)' = TopAt(j)
        BY <1>0, <1>1, <1>2
    <2>2. ASSUME ~frames[j].leaf, ~frames[j].exposed, LabelOf(j) \in InArea \cup Exposed
          PROVE  shadow'[frames[j].base] = shadow[frames[j].base]
        <3>1. LabelOf(j) \in InArea
            BY <1>0, <1>2, <2>0, <2>2 DEF Marked
        <3>2. frames[j].base + 1 <= frames[1].base
            BY <1>0, <2>0, <2>2, <3>1 DEF Chain, Registered
        <3>3. frames[j].base + j <= Len(frames) /\ frames[1].base \in Nat
            BY <1>0, <2>0, FrameSorts DEF Chain
        <3> QED
            BY <1>0, <2>0, <3>2, <3>3
    <2>3. AreaAt(frames[j], LabelOf(j), TopAt(j))'
        BY <2>0, <2>1, <2>2 DEF Sound, AreaAt, Listed, IsSite
    <2> QED
        BY <2>0, <2>1, <2>3 DEF Sound, StackAt, RegsAt, Spilled, Pushed, IsSite
<1>3. \A j \in DOMAIN frames' : Sound(j)'
    BY <1>0, <1>2
<1>4. Chain'
    <2>1. ASSUME NEW k \in 1 .. Len(frames), NEW j \in 1 .. k - 1
          PROVE  frames'[k].base + (IF Registered(k)' THEN 1 ELSE 0) <= frames'[j].base
        <3>1. k \in 2 .. Len(frames) /\ j \in 1 .. Len(frames)
            BY <1>0, <2>1
        <3>2. Registered(k)' = Registered(k) /\ frames'[k].base = frames[k].base
            BY <1>0, <1>1, <3>1 DEF Registered, SameCallers
        <3>3. frames'[j].base = frames[j].base
            BY <1>0, <3>1 DEF SameCallers
        <3> QED
            BY <1>0, <2>1, <3>2, <3>3 DEF Chain
    <2>2. ASSUME NEW j \in 1 .. Len(frames) PROVE frames'[j].base + j <= Len(frames)
        <3>1. frames'[j].base = frames[j].base
            BY <1>0, <2>2 DEF SameCallers
        <3> QED
            BY <1>0, <2>2, <3>1 DEF Chain
    <2> QED
        BY <1>0, <2>1, <2>2 DEF Chain, SameCallers
<1>5. Bottom'
    BY <1>0, <1>1 DEF Bottom, SameCallers
<1>6. Marked'
    BY <1>0, <1>1 DEF Marked, SameCallers
<1> QED
    BY <1>3, <1>4, <1>5, <1>6 DEF CallInv

\* The inserted code runs in a call, and the entry of that call fits.
LEMMA Innermost ==
    ASSUME CallInv, pc # "body" \/ frames # <<>>
    PROVE  /\ frames # <<>> /\ 1 \in DOMAIN frames /\ frames[1] \in Frames
           /\ Head(frames) = frames[1] /\ Sorts /\ Sound(1)
           /\ LabelOf(1) = pc /\ RegOf(1) = reg /\ ScratchOf(1) = scratch /\ TopAt(1) = top
           /\ frames[1].base \in 0 .. MaxDepth - 1
<1>1. frames # <<>>
    BY DEF CallInv, Bottom, LabelOf
<1>2. 1 \in DOMAIN frames /\ Sorts /\ Len(frames) \in Nat
    BY <1>1 DEF CallInv, Sorts
<1>3. frames[1] \in Frames /\ frames[1].base \in Nat
    BY <1>2, FrameSorts
<1>4. frames[1].base + 1 <= Len(frames) /\ Len(frames) <= MaxDepth
    BY <1>2 DEF CallInv, Chain, Sorts
<1>5. frames[1].base \in 0 .. MaxDepth - 1
    BY <1>2, <1>3, <1>4, CallConstants
<1> QED
    BY <1>1, <1>2, <1>3, <1>5 DEF CallInv, LabelOf, RegOf, ScratchOf, TopAt

\* A store to the words of the innermost call.
LEMMA WordsSet ==
    ASSUME Sorts, frames # <<>>, NEW ws \in Seq(Words), frames' = SetWords(ws)
    PROVE  /\ frames' \in Seq(Frames) /\ SameCalls /\ frames'[1].words = ws
<1>1. 1 \in 1 .. Len(frames) /\ frames \in Seq(Frames) /\ frames[1] \in Frames
    BY DEF Sorts
<1> DEFINE f == [frames[1] EXCEPT !.words = ws]
<1>2. frames' = [frames EXCEPT ![1] = f]
    BY DEF SetWords
<1>3. /\ f \in Frames /\ f.words = ws /\ f.leaf = frames[1].leaf
      /\ f.interrupted = frames[1].interrupted /\ f.site = frames[1].site
      /\ f.base = frames[1].base /\ f.exposed = frames[1].exposed
    BY <1>1 DEF Frames
<1> HIDE DEF f
<1>4. frames' \in Seq(Frames) /\ Len(frames') = Len(frames) /\ frames'[1] = f
    BY <1>1, <1>2, <1>3
<1>5. \A j \in 2 .. Len(frames) : frames'[j] = frames[j]
    BY <1>1, <1>2, <1>3
<1> QED
    BY <1>3, <1>4, <1>5 DEF SameCalls, SameCallers

\* The innermost call is sound.
Here ==
    /\ StackAt(frames[1], pc, reg, scratch)
    /\ RegsAt(frames[1], pc, reg, scratch)
    /\ AreaAt(frames[1], pc, top)

\* A step of the innermost call that keeps the callers keeps the invariant.
LEMMA HereStep ==
    ASSUME CallInv, frames # <<>>, Sorts', SameCalls, Here',
           \A i \in 0 .. MaxDepth - 1 : i # frames[1].base => shadow'[i] = shadow[i]
    PROVE  CallInv'
<1>1. Sound(1)'
    BY DEF Here, Sound, LabelOf, RegOf, ScratchOf, TopAt
<1> QED
    BY <1>1, InnerStep DEF SameCalls

\* Where the thread is, in the terms of Here.
LEMMA HereNow ==
    ASSUME CallInv, pc # "body" \/ frames # <<>>
    PROVE  /\ frames # <<>> /\ Head(frames) = frames[1] /\ Sorts /\ Here
           /\ frames[1].words \in Seq(Words) /\ frames[1].leaf \in BOOLEAN
           /\ frames[1].site \in Words /\ frames[1].base \in Nat /\ frames[1].exposed \in BOOLEAN
           /\ frames[1].base \in 0 .. MaxDepth - 1
<1>1. 1 \in DOMAIN frames /\ Sorts /\ frames # <<>> /\ Head(frames) = frames[1]
    BY Innermost
<1>2. /\ frames[1].words \in Seq(Words) /\ frames[1].leaf \in BOOLEAN
      /\ frames[1].site \in Words /\ frames[1].base \in Nat /\ frames[1].exposed \in BOOLEAN
    BY <1>1, FrameSorts DEF Words
<1>3. Here /\ frames[1].base \in 0 .. MaxDepth - 1
    BY Innermost DEF Sound, Here
<1> QED
    BY <1>1, <1>2, <1>3

\* The instructions that load a register.
LEMMA RegisterStep ==
    ASSUME CallInv, NEW from \in Labels, from # "body", NEW r \in {"r10", "r11", "free"},
           NEW v \in Words, NEW to \in Labels, SetReg(from, r, v, to), Here'
    PROVE  CallInv'
<1>1. Sorts /\ frames # <<>>
    BY HereNow DEF SetReg
<1>2. Sorts'
    BY <1>1 DEF Sorts, SetReg, Registers
<1>3. SameCalls /\ shadow' = shadow
    BY DEF SetReg, SameCalls, SameCallers
<1> QED
    BY <1>1, <1>2, <1>3, HereStep

\* What a push leaves on the stack.
LEMMA PushTwo ==
    ASSUME NEW a \in Words, NEW b \in Words, NEW s \in Seq(Words), Len(s) = 1
    PROVE  /\ <<a, b>> \o s \in Seq(Words) /\ Len(<<a, b>> \o s) = 3
           /\ (<<a, b>> \o s)[1] = a /\ (<<a, b>> \o s)[2] = b
           /\ (<<a, b>> \o s)[3] = s[1]
<1> DEFINE p == <<a, b>>
<1>1. p \in Seq(Words) /\ Len(p) = 2 /\ p[1] = a /\ p[2] = b
    OBVIOUS
<1> HIDE DEF p
<1>2. /\ p \o s \in Seq(Words) /\ Len(p \o s) = 3
      /\ \A i \in 1 .. 3 : (p \o s)[i] = IF i <= 2 THEN p[i] ELSE s[i - 2]
    BY <1>1, ConcatProperties
<1>3. (p \o s)[1] = a /\ (p \o s)[2] = b /\ (p \o s)[3] = s[1]
    BY <1>1, <1>2
<1> QED
    BY <1>2, <1>3 DEF p

\* The same for a push of one register.
LEMMA PushOne ==
    ASSUME NEW a \in Words, NEW s \in Seq(Words), Len(s) = 1
    PROVE  /\ <<a>> \o s \in Seq(Words) /\ Len(<<a>> \o s) = 2
           /\ (<<a>> \o s)[1] = a /\ (<<a>> \o s)[2] = s[1]
<1> DEFINE p == <<a>>
<1>1. p \in Seq(Words) /\ Len(p) = 1 /\ p[1] = a
    OBVIOUS
<1> HIDE DEF p
<1>2. /\ p \o s \in Seq(Words) /\ Len(p \o s) = 2
      /\ \A i \in 1 .. 2 : (p \o s)[i] = IF i <= 1 THEN p[i] ELSE s[i - 1]
    BY <1>1, ConcatProperties
<1>3. (p \o s)[1] = a /\ (p \o s)[2] = s[1]
    BY <1>1, <1>2
<1> QED
    BY <1>2, <1>3 DEF p

\* The instructions of the prologue keep the invariant.
LEMMA PrologueNext ==
    ASSUME CallInv,
           PushRegs \/ LoadTop \/ FetchRet \/ SaveRet \/ AddTop \/ StoreTop \/ PopRegs
    PROVE  CallInv'
<1>0. pc # "body"
    BY DEF PushRegs, LoadTop, FetchRet, SaveRet, AddTop, StoreTop, PopRegs, SetReg, SetTop
<1>1. /\ frames # <<>> /\ Head(frames) = frames[1] /\ Sorts /\ Here
      /\ frames[1].words \in Seq(Words) /\ frames[1].leaf \in BOOLEAN
      /\ frames[1].site \in Words /\ frames[1].base \in Nat /\ frames[1].exposed \in BOOLEAN
      /\ frames[1].base \in 0 .. MaxDepth - 1
    BY <1>0, HereNow
<1>2. /\ reg \in Registers /\ top \in Nat /\ shadow \in [0 .. MaxDepth - 1 -> Words]
      /\ reg["r10"] \in Words /\ reg["r11"] \in Words
    BY <1>1 DEF Sorts, Registers
<1> USE DEF Labels, Pushing, Returning, InArea, Exposed
<1>3. CASE PushRegs
    <2> DEFINE ws == <<reg["r10"], reg["r11"]>> \o frames[1].words
    <2>1. /\ StackAt(frames[1], "push", reg, scratch) /\ RegsAt(frames[1], "push", reg, scratch)
          /\ AreaAt(frames[1], "push", top)
        BY <1>1, <1>3 DEF Here, PushRegs
    <2>2. Len(frames[1].words) = 1 /\ IsSite(frames[1], frames[1].words[1]) /\ ~frames[1].leaf
        BY <2>1 DEF StackAt
    <2>3. /\ ws \in Seq(Words) /\ Len(ws) = 3 /\ ws[1] = reg["r10"] /\ ws[2] = reg["r11"]
          /\ IsSite(frames[1], ws[3])
        BY <1>1, <1>2, <2>2, PushTwo
    <2>4. frames' = SetWords(ws)
        BY <1>1, <1>3 DEF PushRegs, Push
    <2> HIDE DEF ws
    <2>5. frames' \in Seq(Frames) /\ SameCalls /\ frames'[1].words = ws
        BY <1>1, <2>3, <2>4, WordsSet
    <2>6. /\ pc' = "load" /\ reg' = reg /\ shadow' = shadow /\ top' = top
          /\ scratch' = scratch /\ strategy' = strategy
        BY <1>3 DEF PushRegs
    <2>7. Sorts'
        BY <1>1, <2>5, <2>6 DEF Sorts, SameCalls, SameCallers
    <2>8. Here'
        BY <2>1, <2>2, <2>3, <2>5, <2>6
           DEF Here, StackAt, RegsAt, AreaAt, Listed, Pushed, Intact, IsSite, SameCalls, SameCallers
    <2> QED
        BY <1>1, <2>5, <2>6, <2>7, <2>8, HereStep
<1>4. CASE LoadTop
    <2>1. /\ pc = "load" /\ reg' = [reg EXCEPT !["r11"] = top] /\ pc' = "fetch"
          /\ frames' = frames /\ shadow' = shadow /\ top' = top /\ scratch' = scratch
        BY <1>4 DEF LoadTop, SetReg
    <2>2. Here'
        BY <1>1, <1>2, <2>1
           DEF Here, StackAt, RegsAt, AreaAt, Listed, Pushed, Registers
    <2> QED
        BY <1>2, <1>4, <2>2, RegisterStep DEF LoadTop, Words
<1>5. CASE FetchRet
    <2>1. IsSite(frames[1], Word(2)) /\ Word(2) \in Words
        BY <1>1, <1>5 DEF FetchRet, SetReg, Here, StackAt, Pushed, Word
    <2>2. /\ pc = "fetch" /\ reg' = [reg EXCEPT !["r10"] = Word(2)] /\ pc' = "save"
          /\ frames' = frames /\ shadow' = shadow /\ top' = top /\ scratch' = scratch
        BY <1>5, <2>1 DEF FetchRet, SetReg
    <2>3. Here'
        BY <1>1, <1>2, <2>1, <2>2
           DEF Here, StackAt, RegsAt, AreaAt, Listed, Pushed, Registers
    <2> QED
        BY <1>1, <1>2, <1>5, <2>1, <2>3, RegisterStep DEF FetchRet
<1>6. CASE SaveRet
    <2>1. /\ pc = "save" /\ shadow' = [shadow EXCEPT ![reg["r11"]] = reg["r10"]]
          /\ pc' = "add" /\ frames' = frames /\ top' = top /\ reg' = reg
          /\ scratch' = scratch /\ strategy' = strategy
        BY <1>6 DEF SaveRet
    <2>2. reg["r11"] = frames[1].base /\ IsSite(frames[1], reg["r10"])
        BY <1>1, <2>1 DEF Here, RegsAt
    <2>3. /\ shadow' \in [0 .. MaxDepth - 1 -> Words]
          /\ IsSite(frames[1], shadow'[frames[1].base])
          /\ \A i \in 0 .. MaxDepth - 1 : i # frames[1].base => shadow'[i] = shadow[i]
        BY <1>1, <1>2, <2>1, <2>2
    <2>4. Sorts' /\ SameCalls
        BY <1>1, <2>1, <2>3 DEF Sorts, SameCalls, SameCallers
    <2>5. Here'
        BY <1>1, <2>1, <2>2, <2>3
           DEF Here, StackAt, RegsAt, AreaAt, Listed, Pushed
    <2> QED
        BY <1>1, <2>3, <2>4, <2>5, HereStep
<1>7. CASE AddTop
    <2>1. /\ pc = "add" /\ reg' = [reg EXCEPT !["r11"] = reg["r11"] + 1] /\ pc' = "settop"
          /\ frames' = frames /\ shadow' = shadow /\ top' = top /\ scratch' = scratch
        BY <1>7 DEF AddTop, SetReg
    <2>2. reg["r11"] = frames[1].base
        BY <1>1, <2>1 DEF Here, RegsAt
    <2>3. Here'
        BY <1>1, <1>2, <2>1, <2>2
           DEF Here, StackAt, RegsAt, AreaAt, Listed, Pushed, Registers
    <2>4. reg["r11"] + 1 \in Words
        BY <1>1, <2>2 DEF Words
    <2> QED
        BY <1>7, <2>3, <2>4, RegisterStep DEF AddTop
<1>8. CASE StoreTop
    <2>1. /\ pc = "settop" /\ top' = reg["r11"] /\ pc' = "pop" /\ frames' = frames
          /\ shadow' = shadow /\ reg' = reg /\ scratch' = scratch /\ strategy' = strategy
        BY <1>8 DEF StoreTop, SetTop
    <2>2. reg["r11"] = frames[1].base + 1
        BY <1>1, <2>1 DEF Here, RegsAt
    <2>3. Sorts' /\ SameCalls
        BY <1>1, <2>1, <2>2 DEF Sorts, SameCalls, SameCallers
    <2>4. Here'
        BY <1>1, <2>1, <2>2
           DEF Here, StackAt, RegsAt, AreaAt, Listed, Pushed
    <2> QED
        BY <1>1, <2>1, <2>3, <2>4, HereStep
<1>9. CASE PopRegs
    <2> DEFINE ws == SubSeq(frames[1].words, 3, Len(frames[1].words))
    <2>1. /\ StackAt(frames[1], "pop", reg, scratch) /\ AreaAt(frames[1], "pop", top)
        BY <1>1, <1>9 DEF Here, PopRegs
    <2>2. /\ Len(frames[1].words) = 3 /\ frames[1].words[1] = R10 /\ frames[1].words[2] = R11
          /\ ~frames[1].leaf
        BY <2>1 DEF StackAt, Pushed
    <2>3. ws \in Seq(Words) /\ Len(ws) = 1
        BY <1>1, <2>2
    <2>4. frames' = SetWords(ws)
        BY <1>1, <1>9 DEF PopRegs, Pop
    <2> HIDE DEF ws
    <2>5. frames' \in Seq(Frames) /\ SameCalls /\ frames'[1].words = ws
        BY <1>1, <2>3, <2>4, WordsSet
    <2>6. /\ pc' = "body" /\ reg' = [reg EXCEPT !["r10"] = R10, !["r11"] = R11]
          /\ shadow' = shadow /\ top' = top /\ scratch' = scratch /\ strategy' = strategy
        <3>1. Word(0) = R10 /\ Word(1) = R11
            BY <1>1, <2>2 DEF Word
        <3> QED
            BY <1>9, <3>1 DEF PopRegs
    <2>7. reg' \in Registers /\ Intact(reg')
        BY <1>2, <2>6 DEF Registers, Words, Intact
    <2>8. Sorts'
        BY <1>1, <2>5, <2>6, <2>7 DEF Sorts, SameCalls, SameCallers
    <2>9. Here'
        BY <2>1, <2>2, <2>3, <2>5, <2>6, <2>7
           DEF Here, StackAt, RegsAt, AreaAt, Listed, IsSite, SameCalls, SameCallers
    <2> QED
        BY <1>1, <2>5, <2>6, <2>8, <2>9, HereStep
<1> QED
    BY <1>3, <1>4, <1>5, <1>6, <1>7, <1>8, <1>9

\* The instructions before a return keep the invariant.
LEMMA EpilogueNext ==
    ASSUME CallInv,
           \/ BeginRet \/ RetLoadTop \/ RetSubTop \/ RetStoreTop \/ RetFetch \/ CheckRet
           \/ PopScratch
    PROVE  CallInv'
<1>0. pc # "body" \/ frames # <<>>
    BY DEF BeginRet, RetLoadTop, RetSubTop, RetStoreTop, RetFetch, CheckRet, PopScratch,
           SetReg, SetTop
<1>1. /\ frames # <<>> /\ Head(frames) = frames[1] /\ Sorts /\ Here
      /\ frames[1].words \in Seq(Words) /\ frames[1].leaf \in BOOLEAN
      /\ frames[1].site \in Words /\ frames[1].base \in Nat /\ frames[1].exposed \in BOOLEAN
      /\ frames[1].base \in 0 .. MaxDepth - 1
    BY <1>0, HereNow
<1>2. /\ reg \in Registers /\ top \in Nat /\ shadow \in [0 .. MaxDepth - 1 -> Words]
      /\ reg["r10"] \in Words /\ reg["r11"] \in Words /\ scratch \in {"r11", "free"}
    BY <1>1 DEF Sorts, Registers
<1> USE DEF Labels, Pushing, Returning, InArea, Exposed
<1>3. CASE BeginRet
    <2>1. /\ pc = "body" /\ ~frames[1].leaf /\ pc' = "rload" /\ reg' = reg
          /\ shadow' = shadow /\ top' = top /\ strategy' = strategy
        BY <1>1, <1>3 DEF BeginRet
    <2>2. /\ Len(frames[1].words) = 1 /\ Intact(reg)
          /\ top = frames[1].base + 1 /\ IsSite(frames[1], shadow[frames[1].base])
        BY <1>1, <2>1 DEF Here, StackAt, RegsAt, AreaAt, Listed
    <2>3. CASE scratch' = "free" /\ frames' = frames
        <3>1. Sorts' /\ SameCalls
            BY <1>1, <2>1, <2>3 DEF Sorts, SameCalls, SameCallers
        <3>2. Here'
            BY <1>1, <2>1, <2>2, <2>3
               DEF Here, StackAt, RegsAt, AreaAt, Listed, Spilled, Place, Intact
        <3> QED
            BY <1>1, <2>1, <3>1, <3>2, HereStep
    <2>4. CASE scratch' = "r11" /\ frames' = Push(<<reg["r11"]>>)
        <3> DEFINE ws == <<reg["r11"]>> \o frames[1].words
        <3>1. ws \in Seq(Words) /\ Len(ws) = 2 /\ ws[1] = reg["r11"]
            BY <1>1, <1>2, <2>2, PushOne
        <3>2. frames' = SetWords(ws)
            BY <1>1, <2>4 DEF Push
        <3> HIDE DEF ws
        <3>3. frames' \in Seq(Frames) /\ SameCalls /\ frames'[1].words = ws
            BY <1>1, <3>1, <3>2, WordsSet
        <3>4. Sorts'
            BY <1>1, <2>1, <2>4, <3>3 DEF Sorts, SameCalls, SameCallers
        <3>5. Here'
            BY <1>1, <2>1, <2>2, <2>4, <3>1, <3>3
               DEF Here, StackAt, RegsAt, AreaAt, Listed, Spilled, Place, Intact, IsSite,
                   SameCalls, SameCallers
        <3> QED
            BY <1>1, <2>1, <3>3, <3>4, <3>5, HereStep
    <2> QED
        BY <1>3, <2>3, <2>4 DEF BeginRet
<1>4. CASE RetLoadTop
    <2>1. /\ pc = "rload" /\ reg' = [reg EXCEPT ![scratch] = top] /\ pc' = "rsub"
          /\ frames' = frames /\ shadow' = shadow /\ top' = top /\ scratch' = scratch
        BY <1>4 DEF RetLoadTop, SetReg
    <2>2. /\ reg'[scratch] = top /\ reg'["r10"] = reg["r10"]
          /\ scratch = "free" => reg'["r11"] = reg["r11"]
        BY <1>2, <2>1 DEF Registers
    <2>3. Here'
        BY <1>1, <1>2, <2>1, <2>2
           DEF Here, StackAt, RegsAt, AreaAt, Listed, Spilled
    <2> QED
        BY <1>2, <1>4, <2>3, RegisterStep DEF RetLoadTop, Words
<1>5. CASE RetSubTop
    <2>1. /\ pc = "rsub" /\ reg' = [reg EXCEPT ![scratch] = reg[scratch] - 1] /\ pc' = "rsettop"
          /\ frames' = frames /\ shadow' = shadow /\ top' = top /\ scratch' = scratch
        BY <1>5 DEF RetSubTop, SetReg
    <2>2. reg[scratch] - 1 = frames[1].base
        BY <1>1, <2>1 DEF Here, RegsAt
    <2>3. /\ reg'[scratch] = frames[1].base /\ reg'["r10"] = reg["r10"]
          /\ scratch = "free" => reg'["r11"] = reg["r11"]
        BY <1>2, <2>1, <2>2 DEF Registers
    <2>4. Here'
        BY <1>1, <1>2, <2>1, <2>3
           DEF Here, StackAt, RegsAt, AreaAt, Listed, Spilled
    <2>5. reg[scratch] - 1 \in Words
        BY <1>1, <2>2 DEF Words
    <2> QED
        BY <1>2, <1>5, <2>4, <2>5, RegisterStep DEF RetSubTop
<1>6. CASE RetStoreTop
    <2>1. /\ pc = "rsettop" /\ top' = reg[scratch] /\ pc' = "rfetch" /\ frames' = frames
          /\ shadow' = shadow /\ reg' = reg /\ scratch' = scratch /\ strategy' = strategy
        BY <1>6 DEF RetStoreTop, SetTop
    <2>2. reg[scratch] = frames[1].base
        BY <1>1, <2>1 DEF Here, RegsAt
    <2>3. Sorts' /\ SameCalls
        BY <1>1, <2>1, <2>2 DEF Sorts, SameCalls, SameCallers
    <2>4. Here'
        BY <1>1, <2>1, <2>2
           DEF Here, StackAt, RegsAt, AreaAt, Listed, Spilled
    <2> QED
        BY <1>1, <2>1, <2>3, <2>4, HereStep
<1>7. CASE RetFetch
    <2>1. /\ pc = "rfetch" /\ reg' = [reg EXCEPT ![scratch] = shadow[reg[scratch]]]
          /\ pc' = "check" /\ frames' = frames /\ shadow' = shadow /\ top' = top
          /\ scratch' = scratch
        BY <1>7 DEF RetFetch, SetReg
    <2>2. ~frames[1].leaf /\ reg[scratch] = frames[1].base
        BY <1>1, <2>1 DEF Here, RegsAt, StackAt
    <2>3. IsSite(frames[1], shadow[reg[scratch]]) /\ shadow[reg[scratch]] \in Words
        BY <1>1, <1>2, <2>1, <2>2 DEF Here, AreaAt
    <2>4. /\ IsSite(frames[1], reg'[scratch]) /\ reg'["r10"] = reg["r10"]
          /\ scratch = "free" => reg'["r11"] = reg["r11"]
        BY <1>2, <2>1, <2>3 DEF Registers
    <2>5. Here'
        BY <1>1, <1>2, <2>1, <2>4
           DEF Here, StackAt, RegsAt, AreaAt, Listed, Spilled
    <2> QED
        BY <1>1, <1>2, <1>7, <2>3, <2>5, RegisterStep DEF RetFetch
<1>8. CASE CheckRet
    <2>1. /\ pc = "check" /\ shadow' = shadow /\ top' = top /\ reg' = reg
          /\ scratch' = scratch /\ strategy' = strategy
        BY <1>8 DEF CheckRet
    <2>2. /\ IsSite(frames[1], reg[scratch]) /\ ~frames[1].leaf /\ top = frames[1].base
          /\ reg[scratch] \in Words /\ Spilled(frames[1], reg, scratch)
        <3>1. reg[scratch] \in Words
            BY <1>2 DEF Registers
        <3> QED
            BY <1>1, <2>1, <3>1 DEF Here, StackAt, RegsAt, AreaAt, Listed
    <2>3. RspOffset + 1 = Place(scratch) /\ Place(scratch) \in 1 .. Len(frames[1].words)
        BY <1>2, <2>2 DEF RspOffset, Place, Spilled
    <2>4. CASE frames' = SetWords([frames[1].words EXCEPT ![RspOffset + 1] = reg[scratch]])
               /\ pc' = "rpop"
        <3> DEFINE ws == [frames[1].words EXCEPT ![Place(scratch)] = reg[scratch]]
        <3>1. /\ ws \in Seq(Words) /\ Len(ws) = Len(frames[1].words)
              /\ ws[Place(scratch)] = reg[scratch]
              /\ scratch = "r11" => ws[1] = frames[1].words[1]
            BY <1>1, <2>2, <2>3 DEF Place, Spilled
        <3>2. frames' = SetWords(ws)
            BY <2>2, <2>3, <2>4
        <3> HIDE DEF ws
        <3>3. frames' \in Seq(Frames) /\ SameCalls /\ frames'[1].words = ws
            BY <1>1, <3>1, <3>2, WordsSet
        <3>4. Sorts'
            BY <1>1, <2>1, <2>4, <3>3 DEF Sorts, SameCalls, SameCallers
        <3>5. Here'
            BY <1>1, <1>2, <2>1, <2>2, <2>4, <3>1, <3>3
               DEF Here, StackAt, RegsAt, AreaAt, Listed, Spilled, IsSite, SameCalls, SameCallers
        <3> QED
            BY <1>1, <2>1, <3>3, <3>4, <3>5, HereStep
    <2>5. CASE /\ pc' = IF Word(RspOffset) = reg[scratch] THEN "rpop" ELSE "trap"
               /\ frames' = frames
        <3>1. Word(RspOffset) = frames[1].words[Place(scratch)]
            BY <1>1, <2>3 DEF Word
        <3>2. Sorts' /\ SameCalls
            BY <1>1, <2>1, <2>5 DEF Sorts, SameCalls, SameCallers
        <3>3. Here'
            BY <1>1, <2>1, <2>2, <2>5, <3>1
               DEF Here, StackAt, RegsAt, AreaAt, Listed, Spilled, IsSite
        <3> QED
            BY <1>1, <2>1, <3>2, <3>3, HereStep
    <2> QED
        BY <1>1, <1>8, <2>4, <2>5 DEF CheckRet
<1>9. CASE PopScratch
    <2>1. /\ pc = "rpop" /\ pc' = "ret" /\ shadow' = shadow /\ top' = top
          /\ scratch' = scratch /\ strategy' = strategy
        BY <1>9 DEF PopScratch
    <2>2. /\ IsSite(frames[1], frames[1].words[Place(scratch)]) /\ ~frames[1].leaf
          /\ top = frames[1].base /\ Spilled(frames[1], reg, scratch)
        BY <1>1, <2>1 DEF Here, StackAt, AreaAt, Listed
    <2>3. CASE scratch = "free" /\ reg' = reg /\ frames' = frames
        <3>1. Sorts' /\ SameCalls
            BY <1>1, <2>1, <2>3 DEF Sorts, SameCalls, SameCallers
        <3>2. Here'
            BY <1>1, <2>1, <2>2, <2>3
               DEF Here, StackAt, RegsAt, AreaAt, Listed, Spilled, Place, Intact
        <3> QED
            BY <1>1, <2>1, <3>1, <3>2, HereStep
    <2>4. CASE /\ scratch = "r11" /\ reg' = [reg EXCEPT !["r11"] = Word(0)]
               /\ frames' = Pop(1)
        <3> DEFINE ws == SubSeq(frames[1].words, 2, Len(frames[1].words))
        <3>1. /\ Len(frames[1].words) = 2 /\ frames[1].words[1] = R11
              /\ IsSite(frames[1], frames[1].words[2]) /\ reg["r10"] = R10
            BY <2>2, <2>4 DEF Spilled, Place
        <3>2. ws \in Seq(Words) /\ Len(ws) = 1 /\ IsSite(frames[1], ws[1])
            BY <1>1, <3>1
        <3>3. frames' = SetWords(ws)
            BY <1>1, <2>4 DEF Pop
        <3> HIDE DEF ws
        <3>4. frames' \in Seq(Frames) /\ SameCalls /\ frames'[1].words = ws
            BY <1>1, <3>2, <3>3, WordsSet
        <3>5. Word(0) = R11
            BY <1>1, <3>1 DEF Word
        <3>6. reg' \in Registers /\ Intact(reg')
            BY <1>2, <2>4, <3>1, <3>5 DEF Registers, Words, Intact
        <3>7. Sorts'
            BY <1>1, <2>1, <3>4, <3>6 DEF Sorts, SameCalls, SameCallers
        <3>8. Here'
            BY <1>1, <2>1, <2>2, <3>2, <3>4, <3>6
               DEF Here, StackAt, RegsAt, AreaAt, Listed, IsSite, SameCalls, SameCallers
        <3> QED
            BY <1>1, <2>1, <3>4, <3>7, <3>8, HereStep
    <2> QED
        BY <1>9, <2>3, <2>4 DEF PopScratch
<1> QED
    BY <1>3, <1>4, <1>5, <1>6, <1>7, <1>8, <1>9

-----------------------------------------------------------------------------
(***************************************************************************)
(* Calls, signals and returns.                                             *)
(***************************************************************************)

\* The calls c are those in progress, but that the innermost may be exposed.
Keeps(c) ==
    /\ c \in Seq(Frames) /\ Len(c) = Len(frames)
    /\ \A j \in 1 .. Len(frames) :
        /\ c[j].words = frames[j].words /\ c[j].leaf = frames[j].leaf
        /\ c[j].interrupted = frames[j].interrupted /\ c[j].site = frames[j].site
        /\ c[j].base = frames[j].base
        /\ frames[j].exposed => c[j].exposed

\* What the prologue and the body of a new call rely on.
LEMMA CallStep ==
    ASSUME CallInv, Len(frames) < MaxDepth, NEW c, Keeps(c),
           frames # <<>> /\ pc \in Exposed => c[1].exposed,
           NEW f \in Frames, f.base = top, Len(f.words) = 1, f.words[1] = f.site,
           frames' = <<f>> \o c, pc' = Entry(f.leaf),
           reg' \in Registers, Intact(reg'),
           shadow' = shadow, top' = top, scratch' = scratch, strategy' = strategy,
           \/ f.interrupted = None /\ pc = "body"
           \/ /\ f.interrupted = [pc |-> pc, reg |-> reg, scratch |-> scratch]
              /\ f.interrupted # None
    PROVE  CallInv'
<1>0. /\ Sorts /\ Chain /\ Marked /\ Bottom /\ frames \in Seq(Frames) /\ Len(frames) \in Nat
      /\ DOMAIN frames = 1 .. Len(frames) /\ top \in Nat /\ f.base \in Nat
      /\ f.leaf \in BOOLEAN
    BY DEF CallInv, Sorts, Frames
<1>1. /\ frames' \in Seq(Frames) /\ Len(frames') = Len(frames) + 1 /\ frames'[1] = f
      /\ \A j \in 1 .. Len(frames) : frames'[j + 1] = c[j]
      /\ DOMAIN frames' = 1 .. Len(frames) + 1
    <2>1. <<f>> \in Seq(Frames) /\ Len(<<f>>) = 1 /\ <<f>>[1] = f
        OBVIOUS
    <2>2. /\ frames' \in Seq(Frames) /\ Len(frames') = Len(frames) + 1
          /\ \A i \in 1 .. 1 + Len(frames) :
                frames'[i] = IF i <= 1 THEN f ELSE c[i - 1]
        BY <1>0, <2>1, ConcatProperties DEF Keeps
    <2> QED
        BY <1>0, <2>2
<1>2. ASSUME NEW j \in 1 .. Len(frames) + 1
      PROVE  /\ LabelOf(j + 1)' = LabelOf(j) /\ TopAt(j + 1)' = TopAt(j)
             /\ \/ RegOf(j + 1)' = RegOf(j) /\ ScratchOf(j + 1)' = ScratchOf(j)
                \/ LabelOf(j) = "body" /\ RegOf(j + 1)' = UserRegs
    <2>0. j + 1 # 1 /\ (j + 1) - 1 = j
        BY <1>0, <1>2
    <2>1. CASE j = 1
        BY <1>1, <2>0, <2>1 DEF LabelOf, TopAt, RegOf, ScratchOf
    <2>2. CASE j # 1
        <3>1. /\ frames'[j].interrupted = frames[j - 1].interrupted
              /\ frames'[j].base = frames[j - 1].base
            BY <1>0, <1>1, <1>2, <2>2 DEF Keeps
        <3> QED
            BY <2>0, <2>2, <3>1 DEF LabelOf, TopAt, RegOf, ScratchOf
    <2> QED
        BY <2>1, <2>2
<1>3. Intact(UserRegs)
    BY DEF Intact, UserRegs
<1>4. ASSUME NEW j \in 1 .. Len(frames) PROVE Sound(j + 1)'
    <2>0. Sound(j) /\ frames'[j + 1] = c[j] /\ j \in 1 .. Len(frames) + 1
        BY <1>0, <1>1, <1>4 DEF CallInv
    <2>5. /\ c[j].words = frames[j].words /\ c[j].leaf = frames[j].leaf
          /\ c[j].site = frames[j].site /\ c[j].base = frames[j].base
          /\ \A v : IsSite(frames[j], v) => IsSite(c[j], v)
          /\ frames[j].exposed => c[j].exposed
        BY <1>4 DEF Keeps, IsSite
    <2>1. LabelOf(j + 1)' = LabelOf(j) /\ TopAt(j + 1)' = TopAt(j)
        BY <1>2, <2>0
    <2>2. AreaAt(frames[j + 1], LabelOf(j + 1), TopAt(j + 1))'
        BY <2>0, <2>1, <2>5 DEF Sound, AreaAt, Listed
    <2>3. CASE RegOf(j + 1)' = RegOf(j) /\ ScratchOf(j + 1)' = ScratchOf(j)
        <3>1. StackAt(frames[j + 1], LabelOf(j + 1), RegOf(j + 1), ScratchOf(j + 1))'
            BY <2>0, <2>1, <2>3, <2>5 DEF Sound, StackAt, Pushed, Spilled
        <3>2. RegsAt(frames[j + 1], LabelOf(j + 1), RegOf(j + 1), ScratchOf(j + 1))'
            BY <2>0, <2>1, <2>3, <2>5 DEF Sound, RegsAt
        <3> QED
            BY <2>2, <3>1, <3>2 DEF Sound
    <2>4. CASE LabelOf(j) = "body" /\ RegOf(j + 1)' = UserRegs
        <3>1. StackAt(frames[j + 1], LabelOf(j + 1), RegOf(j + 1), ScratchOf(j + 1))'
            BY <2>0, <2>1, <2>4, <2>5 DEF Sound, StackAt, Pushing, Returning
        <3>2. RegsAt(frames[j + 1], LabelOf(j + 1), RegOf(j + 1), ScratchOf(j + 1))'
            BY <1>3, <2>0, <2>1, <2>4 DEF Sound, RegsAt, Intact
        <3> QED
            BY <2>2, <3>1, <3>2 DEF Sound
    <2> QED
        BY <1>2, <2>0, <2>3, <2>4
<1>5. Sound(1)'
    <2>1. LabelOf(1)' = Entry(f.leaf) /\ RegOf(1)' = reg' /\ TopAt(1)' = f.base
        BY DEF LabelOf, RegOf, TopAt
    <2>2. Entry(f.leaf) \in {"push", "body"} /\ (f.leaf <=> Entry(f.leaf) = "body")
        BY <1>0 DEF Entry
    <2>3. StackAt(frames[1], LabelOf(1), RegOf(1), ScratchOf(1))'
        BY <1>1, <2>1, <2>2 DEF StackAt, Pushing, Returning, IsSite
    <2>4. RegsAt(frames[1], LabelOf(1), RegOf(1), ScratchOf(1))'
        BY <1>1, <2>1, <2>2 DEF RegsAt
    <2>5. AreaAt(frames[1], LabelOf(1), TopAt(1))'
        BY <1>0, <1>1, <2>1, <2>2 DEF AreaAt, Listed, InArea, Exposed
    <2> QED
        BY <2>3, <2>4, <2>5 DEF Sound
<1>6. \A j \in DOMAIN frames' : Sound(j)'
    <2> SUFFICES ASSUME NEW k \in 1 .. Len(frames) + 1, k # 1 PROVE Sound(k)'
        BY <1>1, <1>5
    <2>1. k - 1 \in 1 .. Len(frames) /\ (k - 1) + 1 = k
        BY <1>0
    <2> QED
        BY <1>4, <2>1
<1>7. ASSUME NEW k \in 1 .. Len(frames)
      PROVE  frames[k].base + (IF Registered(k) THEN 1 ELSE 0) <= top
    <2>1. frames[k].base \in Nat /\ frames[1].base \in Nat /\ 1 \in DOMAIN frames
        <3>1. k \in DOMAIN frames /\ 1 \in DOMAIN frames
            BY <1>0, <1>7
        <3> QED
            BY <1>0, <3>1, FrameSorts, Zenon
    <2>2. top = frames[1].base + (IF Registered(1) THEN 1 ELSE 0)
        BY <2>1 DEF CallInv, Sound, AreaAt, Listed, Registered, TopAt
    <2>3. CASE k = 1
        BY <2>1, <2>2, <2>3
    <2>4. CASE k # 1
        <3>1. frames[k].base + (IF Registered(k) THEN 1 ELSE 0) <= frames[1].base
            <4>1. k \in DOMAIN frames /\ 1 \in 1 .. k - 1
                BY <1>0, <1>7, <2>4
            <4> QED
                BY <1>0, <4>1, Zenon DEF Chain
        <3>2. frames[1].base <= top
            BY <2>1, <2>2
        <3>3. frames[k].base + (IF Registered(k) THEN 1 ELSE 0) \in Nat
            BY <2>1
        <3> QED
            BY <1>0, <2>1, <3>1, <3>2, <3>3
    <2> QED
        BY <2>3, <2>4
<1>8. top <= Len(frames)
    <2>1. CASE frames = <<>>
        BY <1>0, <2>1 DEF Bottom, TopAt
    <2>2. CASE frames # <<>>
        <3>1. 1 \in DOMAIN frames /\ frames[1].base \in Nat
            BY <1>0, <2>2, FrameSorts
        <3>2. top <= frames[1].base + 1
            BY <3>1 DEF CallInv, Sound, AreaAt, TopAt
        <3>3. frames[1].base + 1 <= Len(frames)
            BY <1>0, <3>1 DEF Chain
        <3> QED
            BY <1>0, <3>1, <3>2, <3>3
    <2> QED
        BY <2>1, <2>2
<1>9. Chain'
    <2>1. ASSUME NEW k \in 1 .. Len(frames) + 1, NEW j \in 1 .. k - 1
          PROVE  frames'[k].base + (IF Registered(k)' THEN 1 ELSE 0) <= frames'[j].base
        <3>1. k - 1 \in 1 .. Len(frames) /\ (k - 1) + 1 = k
            BY <1>0, <2>1
        <3>2. /\ frames'[k].base = frames[k - 1].base /\ frames'[k].leaf = frames[k - 1].leaf
              /\ LabelOf(k)' = LabelOf(k - 1)
            BY <1>0, <1>1, <1>2, <3>1 DEF Keeps
        <3>3. Registered(k)' = Registered(k - 1)
            BY <3>2 DEF Registered
        <3>4. CASE j = 1
            BY <1>1, <1>7, <3>1, <3>2, <3>3, <3>4
        <3>5. CASE j # 1
            <4>1. j - 1 \in 1 .. (k - 1) - 1 /\ frames'[j].base = frames[j - 1].base
                BY <1>0, <1>1, <2>1, <3>1, <3>5 DEF Keeps
            <4> QED
                BY <1>0, <3>1, <3>2, <3>3, <4>1 DEF Chain
        <3> QED
            BY <3>4, <3>5
    <2>2. ASSUME NEW j \in 1 .. Len(frames) + 1
          PROVE  frames'[j].base + j <= Len(frames) + 1
        <3>1. CASE j = 1
            BY <1>0, <1>1, <1>8, <3>1
        <3>2. CASE j # 1
            <4>1. j - 1 \in 1 .. Len(frames) /\ frames'[j].base = frames[j - 1].base
                BY <1>0, <1>1, <2>2, <3>2 DEF Keeps
            <4>2. frames[j - 1].base + (j - 1) <= Len(frames) /\ frames[j - 1].base \in Nat
                BY <1>0, <4>1, FrameSorts DEF Chain
            <4>3. \A b \in Nat : b + (j - 1) <= Len(frames) => b + j <= Len(frames) + 1
                BY <1>0
            <4> QED
                BY <4>1, <4>2, <4>3
        <3> QED
            BY <3>1, <3>2
    <2> QED
        BY <1>1, <2>1, <2>2 DEF Chain
<1>10. Bottom'
    <2>1. Len(frames) + 1 \in 1 .. Len(frames) + 1 /\ Len(frames') + 1 = (Len(frames) + 1) + 1
        BY <1>0, <1>1
    <2> QED
        BY <1>0, <1>2, <1>3, <2>1 DEF Bottom
<1>11. Sorts'
    BY <1>0, <1>1, CallConstants DEF Sorts, Entry, Labels
<1>12. Marked'
    <2> SUFFICES ASSUME NEW k \in 1 .. Len(frames) + 1, k # 1, LabelOf(k)' \in Exposed
                 PROVE  frames'[k].exposed
        BY <1>1 DEF Marked
    <2>1. k - 1 \in 1 .. Len(frames) /\ (k - 1) + 1 = k /\ k - 1 \in 1 .. Len(frames) + 1
        BY <1>0
    <2>2. frames'[k] = c[k - 1] /\ LabelOf(k - 1) \in Exposed
        BY <1>1, <1>2, <2>1
    <2>3. CASE k = 2
        <3>1. k - 1 = 1 /\ frames # <<>>
            BY <1>0, <2>1, <2>3
        <3> QED
            BY <2>2, <3>1 DEF LabelOf
    <2>4. CASE k # 2
        <3>1. frames[k - 1].exposed
            BY <1>0, <2>1, <2>2, <2>4 DEF Marked
        <3> QED
            BY <2>1, <2>2, <3>1 DEF Keeps
    <2> QED
        BY <2>3, <2>4
<1> QED
    BY <1>6, <1>9, <1>10, <1>11, <1>12 DEF CallInv

\* A signal changes nothing else about the calls in progress.
LEMMA InterruptedKeeps ==
    ASSUME CallInv
    PROVE  Keeps(Interrupted) /\ (frames # <<>> /\ pc \in Exposed => Interrupted[1].exposed)
<1>0. frames \in Seq(Frames) /\ \A j \in 1 .. Len(frames) : frames[j] \in Frames
    BY DEF CallInv, Sorts
<1>1. CASE pc \in Exposed
    <2>1. frames # <<>>
        BY <1>1, Innermost DEF Exposed
    <2> DEFINE f == [frames[1] EXCEPT !.exposed = TRUE]
    <2>2. Interrupted = [frames EXCEPT ![1] = f]
        BY <1>1 DEF Interrupted
    <2>3. /\ f \in Frames /\ f.words = frames[1].words /\ f.leaf = frames[1].leaf
          /\ f.interrupted = frames[1].interrupted /\ f.site = frames[1].site
          /\ f.base = frames[1].base /\ f.exposed
        <3>1. frames[1] \in Frames
            BY <1>0, <2>1
        <3> QED
            BY <3>1 DEF Frames
    <2> HIDE DEF f
    <2>4. /\ Interrupted \in Seq(Frames) /\ Len(Interrupted) = Len(frames)
          /\ Interrupted[1] = f
          /\ \A j \in 1 .. Len(frames) : j # 1 => Interrupted[j] = frames[j]
        BY <1>0, <2>1, <2>2, <2>3
    <2> QED
        BY <2>3, <2>4 DEF Keeps
<1>2. CASE pc \notin Exposed
    BY <1>0, <1>2 DEF Keeps, Interrupted
<1> QED
    BY <1>1, <1>2

\* A call and a signal.
LEMMA EnterNext ==
    ASSUME CallInv, NEW isLeaf \in BOOLEAN,
           (\E s \in Sites : Call(s, isLeaf)) \/ Signal(isLeaf)
    PROVE  CallInv'
<1>0. Sorts /\ top \in Nat /\ reg \in Registers
    BY DEF CallInv, Sorts
<1>1. ASSUME NEW s \in Sites, Call(s, isLeaf) PROVE CallInv'
    <2> DEFINE f == Frame(s, isLeaf, None)
    <2>1. /\ f \in Frames /\ f.base = top /\ Len(f.words) = 1 /\ f.words[1] = f.site
          /\ f.leaf = isLeaf /\ f.interrupted = None
        <3>1. <<s>> \in Seq(Words)
            BY DEF Words
        <3> QED
            BY <1>0, <3>1 DEF Frame, Frames
    <2>2. /\ pc = "body" /\ Len(frames) < MaxDepth /\ frames' = <<f>> \o frames
          /\ pc' = Entry(isLeaf) /\ reg' = reg
          /\ shadow' = shadow /\ top' = top /\ scratch' = scratch /\ strategy' = strategy
        BY <1>1 DEF Call
    <2> HIDE DEF f
    <2>3. Intact(reg)
        <3>1. CASE frames = <<>>
            BY <3>1 DEF CallInv, Bottom, RegOf
        <3>2. CASE frames # <<>>
            BY <2>2, <3>2, HereNow DEF Here, RegsAt
        <3> QED
            BY <3>1, <3>2
    <2>4. Keeps(frames) /\ pc \notin Exposed
        BY <1>0, <2>2 DEF Keeps, Sorts, Exposed
    <2> QED
        BY <1>0, <2>1, <2>2, <2>3, <2>4, CallStep
<1>2. CASE Signal(isLeaf)
    <2> DEFINE c == [pc |-> pc, reg |-> reg, scratch |-> scratch]
               f == Frame(Restorer, isLeaf, c)
    <2>1. c \in Contexts /\ c # None
        <3>1. pc # "wild"
            BY <1>2 DEF Signal
        <3> QED
            BY <1>0, <3>1, CallConstants DEF Sorts, Contexts
    <2>2. /\ f \in Frames /\ f.base = top /\ Len(f.words) = 1 /\ f.words[1] = f.site
          /\ f.leaf = isLeaf /\ f.interrupted = c
        <3>1. <<Restorer>> \in Seq(Words)
            BY DEF Words
        <3> HIDE DEF c
        <3> QED
            BY <1>0, <2>1, <3>1 DEF Frame, Frames
    <2>3. /\ Len(frames) < MaxDepth /\ frames' = <<f>> \o Interrupted
          /\ pc' = Entry(isLeaf) /\ reg' = UserRegs
          /\ shadow' = shadow /\ top' = top /\ scratch' = scratch /\ strategy' = strategy
        BY <1>2 DEF Signal
    <2>4. UserRegs \in Registers /\ Intact(UserRegs)
        BY DEF UserRegs, Registers, Intact, Words
    <2> HIDE DEF f
    <2>5. Keeps(Interrupted) /\ (frames # <<>> /\ pc \in Exposed => Interrupted[1].exposed)
        BY InterruptedKeeps
    <2> QED
        BY <1>0, <2>1, <2>2, <2>3, <2>4, <2>5, CallStep
<1> QED
    BY <1>1, <1>2

\* A return: the caller, or the code the signal interrupted, goes on where it was.
LEMMA RetNext == ASSUME CallInv, Ret PROVE CallInv'
<1>0. /\ Sorts /\ Chain /\ Marked /\ Bottom /\ frames \in Seq(Frames) /\ Len(frames) \in Nat
      /\ DOMAIN frames = 1 .. Len(frames) /\ pc = "ret" /\ frames # <<>>
      /\ Head(frames) = frames[1] /\ 1 \in DOMAIN frames /\ Len(frames) \in Nat \ {0}
    BY Innermost DEF CallInv, Sorts, Ret
<1>1. /\ Intact(reg) /\ top = frames[1].base
      /\ frames[1].interrupted \in Contexts \cup {None} /\ reg \in Registers
    <2>1. frames[1].interrupted \in Contexts \cup {None} /\ frames[1].base \in Nat
        BY <1>0, FrameSorts
    <2>2. Here /\ reg \in Registers
        BY <1>0, HereNow DEF Sorts
    <2> QED
        BY <1>0, <2>1, <2>2 DEF Here, RegsAt, AreaAt, Listed, InArea
<1>2. /\ frames' \in Seq(Frames) /\ Len(frames') = Len(frames) - 1
      /\ \A j \in 1 .. Len(frames) - 1 : frames'[j] = frames[j + 1]
      /\ DOMAIN frames' = 1 .. Len(frames) - 1
    BY <1>0 DEF Ret
<1>3. /\ shadow' = shadow /\ top' = top /\ strategy' = strategy
      /\ \/ /\ frames[1].interrupted = None
            /\ pc' = "body" /\ reg' = [reg EXCEPT !["free"] = None] /\ scratch' = "free"
         \/ /\ frames[1].interrupted # None
            /\ pc' = frames[1].interrupted.pc
            /\ reg' = frames[1].interrupted.reg
            /\ scratch' = frames[1].interrupted.scratch
    BY <1>0 DEF Ret
<1>4. /\ pc' \in Labels /\ reg' \in Registers /\ scratch' \in {"r11", "free"}
    <2>1. CASE frames[1].interrupted = None
        BY <1>1, <1>3, <2>1 DEF Labels, Registers, Words
    <2>2. CASE frames[1].interrupted # None
        BY <1>1, <1>3, <2>2, CallConstants DEF Contexts
    <2> QED
        BY <2>1, <2>2
<1>5. ASSUME NEW j \in 1 .. Len(frames)
      PROVE  /\ LabelOf(j)' = LabelOf(j + 1) /\ TopAt(j)' = TopAt(j + 1)
             /\ \/ RegOf(j)' = RegOf(j + 1) /\ ScratchOf(j)' = ScratchOf(j + 1)
                \/ LabelOf(j)' = "body" /\ Intact(RegOf(j)')
    <2>0. j + 1 # 1 /\ (j + 1) - 1 = j
        BY <1>0, <1>5
    <2>1. CASE j = 1
        <3>1. TopAt(1)' = TopAt(2)
            BY <1>1, <1>3 DEF TopAt
        <3>2. CASE frames[1].interrupted = None
            <4>1. Intact(reg')
                BY <1>1, <1>3, <3>2 DEF Intact, Registers
            <4> QED
                BY <1>3, <2>1, <3>1, <3>2, <4>1 DEF LabelOf, RegOf
        <3>3. CASE frames[1].interrupted # None
            BY <1>3, <2>1, <3>1, <3>3 DEF LabelOf, RegOf, ScratchOf
        <3> QED
            BY <3>2, <3>3
    <2>2. CASE j # 1
        <3>1. frames'[j - 1] = frames[j]
            BY <1>0, <1>2, <1>5, <2>2
        <3> QED
            BY <2>0, <2>2, <3>1 DEF LabelOf, TopAt, RegOf, ScratchOf
    <2> QED
        BY <2>1, <2>2
<1>6. ASSUME NEW j \in DOMAIN frames' PROVE Sound(j)'
    <2>0. /\ j \in 1 .. Len(frames) /\ j + 1 \in DOMAIN frames /\ frames'[j] = frames[j + 1]
        BY <1>0, <1>2, <1>6
    <2>1. Sound(j + 1)
        BY <2>0 DEF CallInv
    <2>2. LabelOf(j)' = LabelOf(j + 1) /\ TopAt(j)' = TopAt(j + 1)
        BY <1>5, <2>0
    <2>3. AreaAt(frames[j], LabelOf(j), TopAt(j))'
        BY <1>3, <2>0, <2>1, <2>2 DEF Sound, AreaAt, Listed, IsSite
    <2>4. CASE RegOf(j)' = RegOf(j + 1) /\ ScratchOf(j)' = ScratchOf(j + 1)
        BY <2>0, <2>1, <2>2, <2>3, <2>4 DEF Sound, StackAt, RegsAt, Pushed, Spilled, IsSite
    <2>5. CASE LabelOf(j)' = "body" /\ Intact(RegOf(j)')
        <3>1. StackAt(frames[j], LabelOf(j), RegOf(j), ScratchOf(j))'
            BY <2>0, <2>1, <2>2, <2>5 DEF Sound, StackAt, Pushing, Returning, IsSite
        <3>2. RegsAt(frames[j], LabelOf(j), RegOf(j), ScratchOf(j))'
            BY <2>0, <2>1, <2>2, <2>5 DEF RegsAt, Intact
        <3> QED
            BY <2>3, <3>1, <3>2 DEF Sound
    <2> QED
        BY <1>5, <2>0, <2>4, <2>5
<1>7. Chain'
    <2>1. ASSUME NEW k \in 1 .. Len(frames) - 1, NEW j \in 1 .. k - 1
          PROVE  frames'[k].base + (IF Registered(k)' THEN 1 ELSE 0) <= frames'[j].base
        <3>1. /\ k \in 1 .. Len(frames) /\ k + 1 \in DOMAIN frames /\ j \in 1 .. Len(frames) - 1
              /\ j + 1 \in 1 .. (k + 1) - 1
            BY <1>0, <2>1
        <3>2. /\ frames'[k] = frames[k + 1] /\ frames'[j] = frames[j + 1]
              /\ LabelOf(k)' = LabelOf(k + 1)
            BY <1>2, <1>5, <2>1, <3>1
        <3>3. Registered(k)' = Registered(k + 1)
            BY <3>2 DEF Registered
        <3> QED
            BY <1>0, <3>1, <3>2, <3>3 DEF Chain
    <2>2. ASSUME NEW j \in 1 .. Len(frames) - 1
          PROVE  frames'[j].base + j <= Len(frames) - 1
        <3>1. j + 1 \in DOMAIN frames /\ frames'[j] = frames[j + 1]
            BY <1>0, <1>2, <2>2
        <3>2. frames[j + 1].base + (j + 1) <= Len(frames) /\ frames[j + 1].base \in Nat
            BY <1>0, <3>1, FrameSorts DEF Chain
        <3> QED
            BY <1>0, <3>1, <3>2
    <2> QED
        BY <1>2, <2>1, <2>2 DEF Chain
<1>8. Bottom'
    <2>1. Len(frames) \in 1 .. Len(frames) /\ Len(frames') + 1 = Len(frames)
        BY <1>0, <1>2
    <2> QED
        BY <1>0, <1>5, <2>1 DEF Bottom
<1>9. Sorts'
    BY <1>0, <1>2, <1>3, <1>4, CallConstants DEF Sorts
<1>10. Marked'
    <2> SUFFICES ASSUME NEW j \in 1 .. Len(frames) - 1, LabelOf(j)' \in Exposed
                 PROVE  frames'[j].exposed
        BY <1>2 DEF Marked
    <2>1. j \in 1 .. Len(frames) /\ j + 1 \in DOMAIN frames /\ j + 1 # 1
        BY <1>0
    <2> QED
        BY <1>0, <1>2, <1>5, <2>1 DEF Marked
<1> QED
    BY <1>6, <1>7, <1>8, <1>9, <1>10 DEF CallInv

\* A return that goes astray keeps the calls below it.
LEMMA StrayNext == ASSUME CallInv, Stray PROVE CallInv'
<1>0. /\ frames # <<>> /\ Sorts /\ Here /\ frames[1].leaf \in BOOLEAN
    BY HereNow DEF Stray
<1>1. /\ pc = "ret" /\ pc' = "wild" /\ strategy' = strategy /\ frames' = frames
      /\ shadow' = shadow /\ top' = top /\ reg' = reg /\ scratch' = scratch
    BY DEF Stray
<1>2. Sorts' /\ SameCalls
    BY <1>0, <1>1 DEF Sorts, Labels, SameCalls, SameCallers
<1>3. Here'
    BY <1>0, <1>1
       DEF Here, StackAt, RegsAt, AreaAt, Listed, InArea, Exposed, Pushing, Returning
<1> QED
    BY <1>0, <1>1, <1>2, <1>3, HereStep

\* A tail call takes the place of its caller, whose entry is gone.
LEMMA TailCallNext == ASSUME CallInv, NEW isLeaf \in BOOLEAN, TailCall(isLeaf) PROVE CallInv'
<1>0. /\ pc = "ret" /\ frames # <<>> /\ Sorts /\ Here /\ frames[1].base \in Nat
      /\ frames[1].words \in Seq(Words)
    BY HereNow DEF TailCall
<1>1. /\ 1 \in 1 .. Len(frames) /\ frames \in Seq(Frames) /\ frames[1] \in Frames
      /\ reg \in Registers
    BY <1>0 DEF Sorts
<1>2. /\ top = frames[1].base /\ Intact(reg) /\ Len(frames[1].words) = 1
      /\ IsSite(frames[1], frames[1].words[1])
    BY <1>0 DEF Here, StackAt, RegsAt, AreaAt, Listed, InArea
<1> DEFINE f == [frames[1] EXCEPT !.leaf = isLeaf, !.base = top]
<1>3. frames' = [frames EXCEPT ![1] = f]
    BY DEF TailCall
<1>4. /\ f \in Frames /\ f.words = frames[1].words /\ f.leaf = isLeaf
      /\ f.interrupted = frames[1].interrupted /\ f.site = frames[1].site
      /\ f.base = frames[1].base /\ f.exposed = frames[1].exposed
    BY <1>0, <1>1, <1>2 DEF Frames
<1> HIDE DEF f
<1>5. /\ frames' \in Seq(Frames) /\ Len(frames') = Len(frames) /\ frames'[1] = f
      /\ \A j \in 2 .. Len(frames) : frames'[j] = frames[j]
    BY <1>1, <1>3, <1>4
<1>6. SameCallers
    BY <1>4, <1>5 DEF SameCallers
<1>7. /\ reg' = [reg EXCEPT !["free"] = None] /\ scratch' = "free" /\ pc' = Entry(isLeaf)
      /\ strategy' = strategy /\ shadow' = shadow /\ top' = top
    BY DEF TailCall
<1>8. reg' \in Registers /\ Intact(reg')
    BY <1>1, <1>2, <1>7 DEF Registers, Words, Intact
<1>9. Entry(isLeaf) \in {"push", "body"} /\ (isLeaf <=> Entry(isLeaf) = "body")
    BY DEF Entry
<1>10. Sorts'
    BY <1>0, <1>5, <1>7, <1>8, <1>9 DEF Sorts, Labels
<1>11. Here'
    <2>1. StackAt(frames[1], pc, reg, scratch)'
        BY <1>2, <1>4, <1>5, <1>7, <1>9 DEF StackAt, Pushing, Returning, IsSite
    <2>2. RegsAt(frames[1], pc, reg, scratch)'
        BY <1>7, <1>8, <1>9 DEF RegsAt
    <2>3. AreaAt(frames[1], pc, top)'
        BY <1>0, <1>2, <1>4, <1>5, <1>7, <1>9 DEF AreaAt, Listed, InArea, Exposed
    <2> QED
        BY <2>1, <2>2, <2>3 DEF Here
<1>12. Sound(1)'
    BY <1>11 DEF Here, Sound, LabelOf, RegOf, ScratchOf, TopAt
<1> QED
    BY <1>0, <1>6, <1>7, <1>10, <1>12, InnerStep

\* A function without calls goes to its return.
LEMMA LeafRetNext == ASSUME CallInv, LeafRet PROVE CallInv'
<1>0. /\ frames # <<>> /\ Sorts /\ Here /\ frames[1].leaf
    BY HereNow DEF LeafRet
<1>1. /\ pc = "body" /\ pc' = "ret" /\ strategy' = strategy /\ frames' = frames
      /\ shadow' = shadow /\ top' = top /\ reg' = reg /\ scratch' = scratch
    BY DEF LeafRet
<1>2. Sorts' /\ SameCalls
    BY <1>0, <1>1 DEF Sorts, Labels, SameCalls, SameCallers
<1>3. Here'
    BY <1>0, <1>1
       DEF Here, StackAt, RegsAt, AreaAt, Listed, Intact, Pushing, Returning
<1> QED
    BY <1>0, <1>1, <1>2, <1>3, HereStep

\* Call f after a store of w over its return address.
Overwritten(f, w, e) ==
    [f EXCEPT !.words = [f.words EXCEPT ![Len(f.words)] = w], !.exposed = e]

\* What the store leaves of the call.
LEMMA OverwriteFrame ==
    ASSUME NEW f \in Frames, Len(f.words) # 0, NEW w \in Words, NEW e \in BOOLEAN,
           f.exposed => e, NEW g, g = Overwritten(f, w, e)
    PROVE  /\ g \in Frames /\ Len(g.words) = Len(f.words)
           /\ \A i \in 1 .. Len(f.words) - 1 : g.words[i] = f.words[i]
           /\ g.leaf = f.leaf /\ g.interrupted = f.interrupted
           /\ g.site = f.site /\ g.base = f.base /\ g.exposed = e
           /\ \A v : IsSite(f, v) => IsSite(g, v)
<1> DEFINE ws == [f.words EXCEPT ![Len(f.words)] = w]
<1>1. f.words \in Seq(Words)
    BY DEF Frames
<1>2. /\ ws \in Seq(Words) /\ Len(ws) = Len(f.words)
      /\ \A i \in 1 .. Len(f.words) - 1 : ws[i] = f.words[i]
    BY <1>1
<1>5. g = [f EXCEPT !.words = ws, !.exposed = e]
    BY DEF Overwritten
<1> HIDE DEF ws
<1>3. /\ g \in Frames /\ g.words = ws /\ g.leaf = f.leaf /\ g.interrupted = f.interrupted
      /\ g.site = f.site /\ g.base = f.base /\ g.exposed = e
    BY <1>2, <1>5 DEF Frames
<1>4. \A v : IsSite(f, v) => IsSite(g, v)
    BY <1>3 DEF IsSite
<1> QED
    BY <1>2, <1>3, <1>4

\* A call has its return address on the stack.
LEMMA HasWords ==
    ASSUME CallInv, pc # "wild", NEW j \in DOMAIN frames
    PROVE  Len(frames[j].words) # 0
<1>1. /\ StackAt(frames[j], LabelOf(j), RegOf(j), ScratchOf(j))
      /\ frames[j].words \in Seq(Words) /\ Sorts
    BY FrameSorts DEF CallInv, Sound
<1>2. LabelOf(j) \in Labels \ {"wild"}
    <2>1. CASE j = 1
        BY <1>1, <2>1 DEF LabelOf, Sorts
    <2>2. CASE j # 1
        <3>1. j - 1 \in DOMAIN frames
            BY <1>1, <2>2 DEF Sorts
        <3>2. frames[j - 1].interrupted \in Contexts \cup {None}
            BY <1>1, <3>1, FrameSorts
        <3> QED
            BY <2>2, <3>2 DEF LabelOf, Contexts, Labels
    <2> QED
        BY <2>1, <2>2
<1>3. LabelOf(j) \in {"push", "body", "ret"} \cup Pushing \cup Returning
    BY <1>2 DEF Pushing, Returning, Labels
<1>4. \A sc : Place(sc) # 0
    BY DEF Place
<1> QED
    BY <1>1, <1>3, <1>4 DEF StackAt, Pushed, Spilled

\* A store over a return address: where the inserted code does not protect it the
\* call becomes exposed.
LEMMA OverwriteNext ==
    ASSUME CallInv, NEW j \in DOMAIN frames, NEW w \in Sites \cup {Restorer}, Overwrite(j, w)
    PROVE  CallInv'
<1>0. /\ Sorts /\ Chain /\ Marked /\ Bottom /\ frames \in Seq(Frames) /\ j \in 1 .. Len(frames)
      /\ DOMAIN frames = 1 .. Len(frames) /\ frames[j] \in Frames
    BY DEF CallInv, Sorts
<1>1. /\ strategy' = strategy
      /\ shadow' = shadow /\ top' = top /\ reg' = reg /\ scratch' = scratch /\ pc' = pc
    BY DEF Overwrite
<1> DEFINE e == frames[j].exposed \/ frames[j].leaf \/ LabelOf(j) \in Unprotected
           f == Overwritten(frames[j], w, e)
<1>2. frames' = [frames EXCEPT ![j] = f]
    BY <1>0 DEF Overwrite, Overwritten, Frames
<1>3. /\ f \in Frames /\ Len(f.words) = Len(frames[j].words)
      /\ \A i \in 1 .. Len(frames[j].words) - 1 : f.words[i] = frames[j].words[i]
      /\ f.leaf = frames[j].leaf
      /\ f.interrupted = frames[j].interrupted /\ f.site = frames[j].site
      /\ f.base = frames[j].base /\ f.exposed = e
      /\ \A v : IsSite(frames[j], v) => IsSite(f, v)
    <2>1. /\ e \in BOOLEAN /\ (frames[j].exposed => e)
          /\ w \in Words /\ Len(frames[j].words) # 0
        BY <1>0, FrameSorts, HasWords DEF Words, Overwrite
    <2> HIDE DEF e
    <2> QED
        BY <1>0, <2>1, OverwriteFrame
<1> HIDE DEF e, f
<1>4. /\ frames' \in Seq(Frames) /\ Len(frames') = Len(frames) /\ frames'[j] = f
      /\ \A k \in 1 .. Len(frames) : k # j => frames'[k] = frames[k]
      /\ DOMAIN frames' = 1 .. Len(frames)
    BY <1>0, <1>2, <1>3
<1>5. \A k \in 1 .. Len(frames) :
        /\ frames'[k].leaf = frames[k].leaf /\ frames'[k].base = frames[k].base
        /\ frames'[k].interrupted = frames[k].interrupted
        /\ frames'[k].site = frames[k].site
        /\ \A v : IsSite(frames[k], v) => IsSite(frames'[k], v)
        /\ frames[k].exposed => frames'[k].exposed
    BY <1>3, <1>4 DEF e
<1>6. ASSUME NEW k \in 1 .. Len(frames) + 1
      PROVE  /\ LabelOf(k)' = LabelOf(k) /\ RegOf(k)' = RegOf(k)
             /\ ScratchOf(k)' = ScratchOf(k) /\ TopAt(k)' = TopAt(k)
    <2>1. CASE k = 1
        BY <1>1, <2>1 DEF LabelOf, RegOf, ScratchOf, TopAt
    <2>2. CASE k # 1
        <3>1. k - 1 \in 1 .. Len(frames)
            BY <1>0, <1>6, <2>2
        <3> QED
            BY <1>5, <2>2, <3>1 DEF LabelOf, RegOf, ScratchOf, TopAt
    <2> QED
        BY <2>1, <2>2
<1>7. ASSUME NEW k \in 1 .. Len(frames) PROVE Sound(k)'
    <2>0. Sound(k) /\ k \in 1 .. Len(frames) + 1
        BY <1>0, <1>7 DEF CallInv
    <2>1. /\ LabelOf(k)' = LabelOf(k) /\ RegOf(k)' = RegOf(k)
          /\ ScratchOf(k)' = ScratchOf(k) /\ TopAt(k)' = TopAt(k)
        BY <1>6, <2>0
    <2>2. AreaAt(frames[k], LabelOf(k), TopAt(k))'
        BY <1>1, <1>5, <2>0, <2>1 DEF Sound, AreaAt, Listed
    <2>3. RegsAt(frames[k], LabelOf(k), RegOf(k), ScratchOf(k))'
        BY <1>5, <2>0, <2>1 DEF Sound, RegsAt, Intact
    <2>4. StackAt(frames[k], LabelOf(k), RegOf(k), ScratchOf(k))'
        <3>1. CASE k = j
            <4>1. StackAt(frames[j], LabelOf(j), RegOf(j), ScratchOf(j))
                BY <2>0, <3>1 DEF Sound
            <4>2. f.leaf \/ LabelOf(j) \in Unprotected => f.exposed
                BY <1>3 DEF e
            <4>3. StackAt(f, LabelOf(j), RegOf(j), ScratchOf(j))
                <5>1. \A v : f.leaf \/ LabelOf(j) \in Unprotected => IsSite(f, v)
                    BY <4>2 DEF IsSite
                <5>2. LabelOf(j) \in Pushing => Pushed(f)
                    <6>1. \A n \in {3} : 1 \in 1 .. n - 1 /\ 2 \in 1 .. n - 1
                        OBVIOUS
                    <6>2. \A i \in 1 .. Len(frames[j].words) - 1 :
                            f.words[i] = frames[j].words[i]
                        BY <1>3
                    <6> QED
                        BY <1>3, <4>1, <6>1, <6>2 DEF StackAt, Pushed
                <5>3. LabelOf(j) \in Returning => Spilled(f, RegOf(j), ScratchOf(j))
                    BY <1>3, <4>1 DEF StackAt, Spilled, Place
                <5> QED
                    BY <1>3, <4>1, <4>2, <5>1, <5>2, <5>3 DEF StackAt, Unprotected
            <4> QED
                BY <1>4, <2>1, <3>1, <4>3 DEF StackAt, Pushed, Spilled, IsSite
        <3>2. CASE k # j
            BY <1>4, <2>0, <2>1, <3>2 DEF Sound, StackAt, Pushed, Spilled, IsSite
        <3> QED
            BY <3>1, <3>2
    <2> QED
        BY <2>2, <2>3, <2>4 DEF Sound
<1>8. Chain'
    <2>1. ASSUME NEW k \in 1 .. Len(frames) PROVE Registered(k)' = Registered(k)
        BY <1>0, <1>5, <1>6, <2>1 DEF Registered
    <2>2. ASSUME NEW k \in 1 .. Len(frames), NEW i \in 1 .. k - 1
          PROVE  frames'[k].base + (IF Registered(k)' THEN 1 ELSE 0) <= frames'[i].base
        <3>1. i \in 1 .. Len(frames)
            BY <1>0, <2>2
        <3> QED
            BY <1>0, <1>5, <2>1, <2>2, <3>1 DEF Chain
    <2> QED
        BY <1>0, <1>4, <1>5, <2>2 DEF Chain
<1>9. Bottom'
    <2>1. Len(frames) + 1 \in 1 .. Len(frames) + 1
        BY <1>0
    <2> QED
        BY <1>0, <1>4, <1>6, <2>1 DEF Bottom
<1>10. Sorts'
    BY <1>0, <1>1, <1>4 DEF Sorts
<1>11. Marked'
    BY <1>0, <1>4, <1>5, <1>6 DEF Marked
<1> QED
    BY <1>4, <1>7, <1>8, <1>9, <1>10, <1>11 DEF CallInv

\* The program starts outside any call, with its own registers.
LEMMA CallInvInit == Init => CallInv
<1> SUFFICES ASSUME Init PROVE CallInv
    OBVIOUS
<1>1. /\ frames = <<>> /\ Len(frames) = 0 /\ DOMAIN frames = {} /\ top = 0 /\ pc = "body"
      /\ reg = UserRegs /\ scratch = "free" /\ strategy \in {"BlindWrite", "Trap"}
      /\ shadow = [i \in 0 .. MaxDepth - 1 |-> None]
    BY DEF Init
<1>2. UserRegs \in Registers /\ Intact(UserRegs)
    BY DEF UserRegs, Registers, Intact, Words
<1>3. Sorts
    BY <1>1, <1>2, CallConstants DEF Sorts, Labels, Words
<1>4. Bottom
    BY <1>1, <1>2 DEF Bottom, LabelOf, RegOf, TopAt
<1> QED
    BY <1>1, <1>3, <1>4 DEF CallInv, Chain, Marked

\* Every instruction, call, signal, return and store keeps the invariant.
LEMMA CallInvNext == CallInv /\ [Next]_vars => CallInv'
<1> SUFFICES ASSUME CallInv, [Next]_vars PROVE CallInv'
    OBVIOUS
<1>1. CASE Inserted
    BY <1>1, PrologueNext, EpilogueNext DEF Inserted
<1>2. ASSUME NEW isLeaf \in BOOLEAN,
             (\E s \in Sites : Call(s, isLeaf)) \/ Signal(isLeaf) \/ TailCall(isLeaf)
      PROVE  CallInv'
    BY <1>2, EnterNext, TailCallNext
<1>3. CASE LeafRet
    BY <1>3, LeafRetNext
<1>4. CASE Ret
    BY <1>4, RetNext
<1>5. ASSUME NEW j \in DOMAIN frames, NEW w \in Sites \cup {Restorer}, Overwrite(j, w)
      PROVE  CallInv'
    BY <1>5, OverwriteNext
<1>7. CASE Stray
    BY <1>7, StrayNext
<1>6. CASE UNCHANGED vars
    BY <1>6 DEF vars, CallInv, Sorts, Sound, StackAt, RegsAt, AreaAt, Listed, Chain, Bottom,
                LabelOf, RegOf, ScratchOf, TopAt, Registered, Intact, Pushed, Spilled, Marked,
                IsSite
<1> QED
    BY <1>1, <1>2, <1>3, <1>4, <1>5, <1>6, <1>7 DEF Next

\* At every instruction the stack, the registers and the area hold what the
\* inserted code relies on, for the running call and for every call below it.
THEOREM CallsInvariant == Spec => []CallInv
    BY CallInvInit, CallInvNext, PTL DEF Spec

-----------------------------------------------------------------------------
(***************************************************************************)
(* What follows.                                                           *)
(***************************************************************************)

\* Prologues and returns are balanced (X86ShadowStack.cpp, instrumentPreamble
\* and instrumentRet) wherever signals arrive: the area holds, in order, an entry
\* for exactly the calls between the two, the return address unless the call is
\* exposed.
THEOREM CallsAreaMatches == Spec => []AreaMatches
<1>1. CallInv => AreaMatches
    <2> SUFFICES ASSUME CallInv PROVE AreaMatches
        OBVIOUS
    <2>1. ASSUME NEW j \in DOMAIN frames
          PROVE  /\ Registered(j) /\ ~frames[j].exposed
                        => shadow[frames[j].base] = frames[j].site
                 /\ frames[j].base + (IF Registered(j) THEN 1 ELSE 0) = TopAt(j)
        BY DEF CallInv, Sound, AreaAt, Listed, Registered, IsSite
    <2>2. ASSUME frames # <<>> PROVE frames[Len(frames)].base = 0
        <3>1. Sorts /\ Len(frames) \in DOMAIN frames /\ Len(frames) \in Nat
            BY <2>2 DEF CallInv, Sorts
        <3>2. frames[Len(frames)].base \in Nat
            BY <3>1, FrameSorts
        <3>3. frames[Len(frames)].base + Len(frames) <= Len(frames)
            BY <3>1 DEF CallInv, Chain
        <3> QED
            BY <3>1, <3>2, <3>3
    <2> QED
        BY <2>1, <2>2 DEF AreaMatches, TopAt
<1> QED
    BY <1>1, CallsInvariant, PTL

\* With ViolationStrategy::Trap a call whose return address nobody overwrote
\* never enters the trap block, unless a handler ran at one of its three exposed
\* instructions.
THEOREM CallsNoFalseTrap == Spec => []NoFalseTrap
<1>1. CallInv => NoFalseTrap
    <2> SUFFICES ASSUME CallInv, pc = "trap", ~Head(frames).exposed
                 PROVE  Word(RspOffset) # Head(frames).site
        BY DEF NoFalseTrap
    <2>1. Head(frames) = frames[1] /\ Here
        BY HereNow
    <2>2. frames[1].words[Place(scratch)] # frames[1].site
        BY <2>1 DEF Here, StackAt
    <2> QED
        BY <2>1, <2>2 DEF Word, RspOffset, Place
<1> QED
    BY <1>1, CallsInvariant, PTL

\* The inserted code gives r10 and r11 back as it found them.
THEOREM CallsRegsKept == Spec => []RegsKept
<1>1. CallInv => RegsKept
    <2> SUFFICES ASSUME CallInv, pc \in {"body", "ret"} PROVE Intact(reg)
        BY DEF RegsKept, Intact
    <2>1. CASE frames = <<>>
        BY <2>1 DEF CallInv, Bottom, RegOf
    <2>2. CASE frames # <<>>
        BY <2>2, HereNow DEF Here, RegsAt
    <2> QED
        BY <2>1, <2>2
<1> QED
    BY <1>1, CallsInvariant, PTL

-----------------------------------------------------------------------------
(***************************************************************************)
(* The inserted code implements CallReturn.                                *)
(***************************************************************************)

\* The calls c as CallReturn sees them.
AsCall(f) == [site |-> f.site, safe |-> ~f.exposed]
AsCalls(c) == [j \in DOMAIN c |-> AsCall(c[j])]
Abstract == [site : Sites \cup {Restorer}, safe : BOOLEAN]

\* They are a sequence.
LEMMA CallsSeq ==
    ASSUME NEW c \in Seq(Frames)
    PROVE  /\ AsCalls(c) \in Seq(Abstract) /\ Len(AsCalls(c)) = Len(c)
           /\ AsCalls(c) \in [1 .. Len(c) -> Abstract]
           /\ \A j \in 1 .. Len(c) : AsCalls(c)[j] = AsCall(c[j])
<1>1. /\ Len(c) \in Nat /\ DOMAIN c = 1 .. Len(c)
      /\ \A j \in 1 .. Len(c) : c[j] \in Frames
    OBVIOUS
<1>2. \A f \in Frames : AsCall(f) \in Abstract
    BY DEF Frames, AsCall, Abstract
<1>3. AsCalls(c) \in [1 .. Len(c) -> Abstract]
    BY <1>1, <1>2 DEF AsCalls
<1>4. AsCalls(c) \in Seq(Abstract) /\ Len(AsCalls(c)) = Len(c)
    BY <1>1, <1>3
<1> QED
    BY <1>1, <1>3, <1>4 DEF AsCalls

\* Calls that look alike.
LEMMA CallsSame ==
    ASSUME NEW c \in Seq(Frames), NEW d \in Seq(Frames), Len(c) = Len(d),
           \A j \in 1 .. Len(c) : c[j].site = d[j].site /\ c[j].exposed = d[j].exposed
    PROVE  AsCalls(c) = AsCalls(d)
<1>1. DOMAIN c = 1 .. Len(c) /\ DOMAIN d = 1 .. Len(c)
    OBVIOUS
<1>2. \A j \in 1 .. Len(c) : AsCall(c[j]) = AsCall(d[j])
    BY DEF AsCall
<1> QED
    BY <1>1, <1>2 DEF AsCalls

\* A sequence with an element in front.
LEMMA Prepend ==
    ASSUME NEW S, NEW a \in S, NEW s \in Seq(S)
    PROVE  /\ <<a>> \o s \in Seq(S) /\ Len(<<a>> \o s) = 1 + Len(s)
           /\ (<<a>> \o s)[1] = a
           /\ \A i \in 2 .. 1 + Len(s) : (<<a>> \o s)[i] = s[i - 1]
<1> DEFINE p == <<a>>
<1>1. p \in Seq(S) /\ Len(p) = 1 /\ p[1] = a /\ Len(s) \in Nat
    OBVIOUS
<1> HIDE DEF p
<1>2. /\ p \o s \in Seq(S) /\ Len(p \o s) = 1 + Len(s)
      /\ \A i \in 1 .. 1 + Len(s) : (p \o s)[i] = IF i <= 1 THEN p[i] ELSE s[i - 1]
    <2>1. p \o s \in Seq(S) /\ Len(p \o s) = Len(p) + Len(s)
        BY <1>1, ConcatProperties, Zenon
    <2>2. \A i \in 1 .. Len(p) + Len(s) :
            (p \o s)[i] = IF i <= Len(p) THEN p[i] ELSE s[i - Len(p)]
        BY <1>1, ConcatProperties, Zenon
    <2> QED
        BY <1>1, <2>1, <2>2
<1>3. (p \o s)[1] = a /\ \A i \in 2 .. 1 + Len(s) : (p \o s)[i] = s[i - 1]
    BY <1>1, <1>2
<1> QED
    BY <1>2, <1>3 DEF p

\* A call and a signal add theirs in front.
LEMMA CallsEnter ==
    ASSUME NEW c \in Seq(Frames), NEW f \in Frames
    PROVE  AsCalls(<<f>> \o c) = <<AsCall(f)>> \o AsCalls(c)
<1> DEFINE d == <<f>> \o c
           a == <<AsCall(f)>> \o AsCalls(c)
<1>1. /\ AsCalls(c) \in Seq(Abstract) /\ Len(AsCalls(c)) = Len(c) /\ Len(c) \in Nat
      /\ \A j \in 1 .. Len(c) : AsCalls(c)[j] = AsCall(c[j])
    BY CallsSeq
<1>2. AsCall(f) \in Abstract
    BY DEF Frames, AsCall, Abstract
<1>3. /\ d \in Seq(Frames) /\ Len(d) = 1 + Len(c) /\ d[1] = f
      /\ \A i \in 2 .. 1 + Len(c) : d[i] = c[i - 1]
    BY Prepend
<1>4. /\ a \in Seq(Abstract) /\ Len(a) = 1 + Len(c) /\ a[1] = AsCall(f)
      /\ \A i \in 2 .. 1 + Len(c) : a[i] = AsCalls(c)[i - 1]
    BY <1>1, <1>2, Prepend
<1> HIDE DEF a, d
<1>5. /\ AsCalls(d) \in [1 .. 1 + Len(c) -> Abstract]
      /\ \A i \in 1 .. 1 + Len(c) : AsCalls(d)[i] = AsCall(d[i])
    BY <1>3, CallsSeq
<1>6. ASSUME NEW i \in 1 .. 1 + Len(c) PROVE AsCalls(d)[i] = a[i]
    <2>1. CASE i = 1
        BY <1>3, <1>4, <1>5, <2>1
    <2>2. CASE i # 1
        <3>1. i - 1 \in 1 .. Len(c) /\ i \in 2 .. 1 + Len(c)
            BY <1>1, <1>6, <2>2
        <3> QED
            BY <1>1, <1>3, <1>4, <1>5, <3>1
    <2> QED
        BY <2>1, <2>2
<1>7. a \in [1 .. 1 + Len(c) -> Abstract]
    BY <1>4, LenProperties
<1>8. AsCalls(d) = a
    BY <1>5, <1>6, <1>7
<1> QED
    BY <1>8 DEF a, d

\* A return takes the first of them away.
LEMMA CallsTail ==
    ASSUME NEW c \in Seq(Frames), c # <<>>
    PROVE  /\ AsCalls(c) # <<>> /\ Head(AsCalls(c)) = AsCall(c[1])
           /\ AsCalls(Tail(c)) = Tail(AsCalls(c))
<1>1. /\ Len(c) \in Nat /\ Len(c) # 0
      /\ AsCalls(c) \in Seq(Abstract) /\ Len(AsCalls(c)) = Len(c)
      /\ \A j \in 1 .. Len(c) : AsCalls(c)[j] = AsCall(c[j])
    BY CallsSeq
<1>2. AsCalls(c) # <<>> /\ Head(AsCalls(c)) = AsCall(c[1])
    BY <1>1
<1>3. /\ Tail(c) \in Seq(Frames) /\ Len(Tail(c)) = Len(c) - 1
      /\ \A j \in 1 .. Len(c) - 1 : Tail(c)[j] = c[j + 1]
    OBVIOUS
<1>4. /\ AsCalls(Tail(c)) \in [1 .. Len(c) - 1 -> Abstract]
      /\ \A j \in 1 .. Len(c) - 1 : AsCalls(Tail(c))[j] = AsCall(c[j + 1])
    BY <1>3, CallsSeq
<1>5. /\ Tail(AsCalls(c)) \in Seq(Abstract)
      /\ Len(Tail(AsCalls(c))) = Len(AsCalls(c)) - 1
      /\ \A j \in 1 .. Len(Tail(AsCalls(c))) : Tail(AsCalls(c))[j] = AsCalls(c)[j + 1]
    BY <1>1, <1>2, HeadTailProperties, Zenon
<1>6. \A j \in 1 .. Len(c) - 1 : Tail(AsCalls(c))[j] = AsCall(c[j + 1])
    BY <1>1, <1>5
<1>7. Tail(AsCalls(c)) \in [1 .. Len(c) - 1 -> Abstract]
    BY <1>1, <1>5, LenProperties
<1> DEFINE a == AsCalls(Tail(c))
           b == Tail(AsCalls(c))
<1>8. /\ a \in [1 .. Len(c) - 1 -> Abstract] /\ b \in [1 .. Len(c) - 1 -> Abstract]
      /\ \A j \in 1 .. Len(c) - 1 : a[j] = b[j]
    BY <1>4, <1>6, <1>7
<1> HIDE DEF a, b
<1>9. a = b
    BY <1>8
<1> QED
    BY <1>2, <1>9 DEF a, b

\* A call that is harmed.
LEMMA CallsHarmed ==
    ASSUME NEW c \in Seq(Frames), NEW d \in Seq(Frames), Len(c) = Len(d),
           NEW j \in 1 .. Len(c), d[j].exposed,
           \A i \in 1 .. Len(c) : /\ d[i].site = c[i].site
                                  /\ i # j => d[i].exposed = c[i].exposed
    PROVE  AsCalls(d) = [AsCalls(c) EXCEPT ![j].safe = FALSE]
<1>1. /\ AsCalls(c) \in [1 .. Len(c) -> Abstract] /\ AsCalls(d) \in [1 .. Len(c) -> Abstract]
      /\ \A i \in 1 .. Len(c) : AsCalls(c)[i] = AsCall(c[i]) /\ AsCalls(d)[i] = AsCall(d[i])
    BY CallsSeq
<1> DEFINE a == [AsCall(c[j]) EXCEPT !.safe = FALSE]
           h == [AsCalls(c) EXCEPT ![j] = a]
<1>2. [AsCalls(c) EXCEPT ![j].safe = FALSE] = h
    BY <1>1
<1>3. a = AsCall(d[j]) /\ a \in Abstract
    <2>1. AsCall(d[j]) \in Abstract
        BY <1>1
    <2>2. (~d[j].exposed) = FALSE /\ d[j].site = c[j].site
        OBVIOUS
    <2>3. /\ AsCall(d[j]) = [site |-> c[j].site, safe |-> FALSE]
          /\ AsCall(c[j]) = [site |-> c[j].site, safe |-> ~c[j].exposed]
        BY <2>2 DEF AsCall
    <2>4. ASSUME NEW x, NEW y \in BOOLEAN
          PROVE  [[site |-> x, safe |-> y] EXCEPT !.safe = FALSE] = [site |-> x, safe |-> FALSE]
        <3> DEFINE r == [site |-> x, safe |-> y]
                   s == [r EXCEPT !.safe = FALSE]
        <3>1. \A z \in BOOLEAN :
                [site |-> x, safe |-> z] = [k \in {"site", "safe"} |-> IF k = "site" THEN x ELSE z]
            OBVIOUS
        <3>2. s = [k \in {"site", "safe"} |-> IF k = "site" THEN x ELSE FALSE]
            BY <3>1
        <3> QED
            BY <3>1, <3>2
    <2>5. a = AsCall(d[j])
        BY <2>3, <2>4
    <2> QED
        BY <2>1, <2>5
<1> HIDE DEF a
<1>4. h \in [1 .. Len(c) -> Abstract] /\ \A i \in 1 .. Len(c) : h[i] = AsCalls(d)[i]
    <2>1. \A i \in 1 .. Len(c) : i # j => AsCall(c[i]) = AsCall(d[i])
        BY DEF AsCall
    <2> QED
        BY <1>1, <1>3, <2>1
<1> HIDE DEF h
<1> QED
    BY <1>1, <1>2, <1>4

\* An instruction of the innermost call and a tail call leave the calls alone.
LEMMA CallsQuiet ==
    ASSUME CallInv, CallInv',
           \/ Inserted \/ LeafRet \/ UNCHANGED vars
           \/ \E isLeaf \in BOOLEAN : TailCall(isLeaf)
    PROVE  AsCalls(frames') = AsCalls(frames) /\ at' = at
<1>0. /\ frames \in Seq(Frames) /\ frames' \in Seq(Frames) /\ Len(frames) \in Nat
      /\ \A j \in 1 .. Len(frames) : frames[j] \in Frames
    BY DEF CallInv, Sorts
<1>1. ASSUME NEW ws, frames' = SetWords(ws) PROVE AsCalls(frames') = AsCalls(frames)
    <2>1. /\ Len(frames') = Len(frames)
          /\ \A j \in 1 .. Len(frames) : /\ frames'[j].site = frames[j].site
                                         /\ frames'[j].exposed = frames[j].exposed
        BY <1>0, <1>1 DEF SetWords, Frames
    <2> QED
        BY <1>0, <2>1, CallsSame
<1>2. ASSUME frames' = frames PROVE AsCalls(frames') = AsCalls(frames)
    BY <1>2
<1>3. CASE Inserted
    BY <1>1, <1>2, <1>3
       DEF Inserted, PushRegs, LoadTop, FetchRet, SaveRet, AddTop, StoreTop, PopRegs, BeginRet,
           RetLoadTop, RetSubTop, RetStoreTop, RetFetch, CheckRet, PopScratch, SetReg, SetTop,
           Push, Pop
<1>4. ASSUME NEW isLeaf \in BOOLEAN, TailCall(isLeaf)
      PROVE  AsCalls(frames') = AsCalls(frames) /\ at' = at
    <2>1. frames' = [frames EXCEPT ![1].leaf = isLeaf, ![1].base = top] /\ at' = at
        BY <1>4 DEF TailCall
    <2>2. /\ Len(frames') = Len(frames)
          /\ \A j \in 1 .. Len(frames) : /\ frames'[j].site = frames[j].site
                                         /\ frames'[j].exposed = frames[j].exposed
        BY <1>0, <2>1 DEF Frames
    <2> QED
        BY <1>0, <2>1, <2>2, CallsSame
<1>5. CASE LeafRet
    BY <1>2, <1>5 DEF LeafRet
<1>6. CASE UNCHANGED vars
    BY <1>2, <1>6 DEF vars
<1> QED
    BY <1>3, <1>4, <1>5, <1>6

\* A store over a return address harms its call or leaves it alone.
LEMMA CallsOverwritten ==
    ASSUME CallInv, CallInv', NEW j \in DOMAIN frames, NEW w \in Sites \cup {Restorer},
           Overwrite(j, w)
    PROVE  \/ AsCalls(frames') = AsCalls(frames)
           \/ AsCalls(frames') = [AsCalls(frames) EXCEPT ![j].safe = FALSE]
<1>0. /\ frames \in Seq(Frames) /\ frames' \in Seq(Frames) /\ j \in 1 .. Len(frames)
      /\ \A i \in 1 .. Len(frames) : frames[i] \in Frames
    BY DEF CallInv, Sorts
<1> DEFINE e == frames[j].exposed \/ frames[j].leaf \/ LabelOf(j) \in Unprotected
           f == Overwritten(frames[j], w, e)
<1>1. frames' = [frames EXCEPT ![j] = f]
    BY <1>0 DEF Overwrite, Overwritten, Frames
<1>2. /\ e \in BOOLEAN /\ (frames[j].exposed => e)
      /\ frames[j].exposed \in BOOLEAN /\ w \in Words /\ Len(frames[j].words) # 0
    BY <1>0, HasWords DEF Frames, Words, Overwrite
<1> HIDE DEF e
<1>6. f.site = frames[j].site /\ f.exposed = e
    BY <1>0, <1>2, OverwriteFrame
<1> HIDE DEF f
<1>3. /\ Len(frames') = Len(frames) /\ frames'[j].exposed = e
      /\ \A i \in 1 .. Len(frames) : /\ frames'[i].site = frames[i].site
                                     /\ i # j => frames'[i].exposed = frames[i].exposed
    BY <1>0, <1>1, <1>6
<1>4. CASE e
    <2>1. frames'[j].exposed
        BY <1>3, <1>4
    <2> QED
        BY <1>0, <1>3, <2>1, CallsHarmed
<1>5. CASE ~e
    <2>1. frames'[j].exposed = frames[j].exposed
        BY <1>0, <1>2, <1>3, <1>5 DEF Frames
    <2>2. \A i \in 1 .. Len(frames) : /\ frames[i].site = frames'[i].site
                                      /\ frames[i].exposed = frames'[i].exposed
        BY <1>3, <2>1
    <2> QED
        BY <1>0, <1>3, <2>2, CallsSame
<1> QED
    BY <1>4, <1>5

\* The inserted code implements CallReturn (X86ShadowStack.cpp): every return, of
\* a function or of a signal handler, goes to the address its call left, whatever
\* the program stores over the return addresses on its stack and wherever signals
\* arrive, unless the call is exposed.
THEOREM CallsReturnToCaller == Spec => ReturnsToCaller
<1>1. Init => CR!Init
    BY DEF Init, CR!Init
<1>2. CallInv /\ CallInv' /\ [Next]_vars => [CR!Next]_(CR!vars)
    <2> SUFFICES ASSUME CallInv, CallInv', [Next]_vars
                 PROVE  CR!Next \/ (AsCalls(frames') = AsCalls(frames) /\ at' = at)
        BY DEF CR!vars, AsCalls, AsCall
    <2>0. /\ frames \in Seq(Frames) /\ top \in Nat /\ reg \in Registers /\ Sorts
          /\ Len(frames) \in Nat
        BY DEF CallInv, Sorts
    <2> DEFINE calls == [j \in DOMAIN frames |->
                            [site |-> frames[j].site, safe |-> ~frames[j].exposed]]
    <2>9. calls = AsCalls(frames) /\ calls' = AsCalls(frames')
        BY DEF AsCalls, AsCall
    <2> HIDE DEF calls
    <2>1. CASE Ret
        <3>1. /\ frames # <<>> /\ Head(frames) = frames[1] /\ frames' = Tail(frames)
              /\ at' = frames[1].site
            BY <2>1, HereNow DEF Ret
        <3>2. /\ calls # <<>> /\ Head(calls) = AsCall(frames[1])
              /\ calls' = Tail(calls)
            BY <2>0, <2>9, <3>1, CallsTail
        <3>3. at' = Head(calls).site
            BY <3>1, <3>2 DEF AsCall
        <3> QED
            BY <3>2, <3>3 DEF CR!Next, CR!Return, calls
    <2>2. ASSUME NEW s \in Sites, NEW isLeaf \in BOOLEAN, Call(s, isLeaf) PROVE CR!Next
        <3> DEFINE f == Frame(s, isLeaf, None)
        <3>1. <<s>> \in Seq(Words)
            BY DEF Words
        <3>2. f \in Frames /\ AsCall(f) = [site |-> s, safe |-> TRUE]
            BY <2>0, <3>1 DEF Frame, Frames, AsCall
        <3>3. frames' = <<f>> \o frames /\ at' = at
            BY <2>2 DEF Call
        <3> HIDE DEF f
        <3>4. calls' = <<[site |-> s, safe |-> TRUE]>> \o calls
            BY <2>0, <2>9, <3>2, <3>3, CallsEnter
        <3> QED
            BY <3>3, <3>4 DEF CR!Next, CR!Call, CR!Enter, calls
    <2>3. ASSUME NEW isLeaf \in BOOLEAN, Signal(isLeaf) PROVE CR!Next
        <3> DEFINE c == [pc |-> pc, reg |-> reg, scratch |-> scratch]
                   f == Frame(Restorer, isLeaf, c)
        <3>1. <<Restorer>> \in Seq(Words) /\ c \in Contexts
            BY <2>0, <2>3 DEF Words, Contexts, Signal, Sorts
        <3>2. frames' = <<f>> \o Interrupted /\ at' = at
            BY <2>3 DEF Signal
        <3> HIDE DEF c
        <3>3. f \in Frames /\ AsCall(f) = [site |-> Restorer, safe |-> TRUE]
            BY <2>0, <3>1 DEF Frame, Frames, AsCall
        <3> HIDE DEF f
        <3>4. Keeps(Interrupted) /\ (frames # <<>> /\ pc \in Exposed => Interrupted[1].exposed)
            BY InterruptedKeeps
        <3>5. Interrupted \in Seq(Frames)
            BY <3>4 DEF Keeps
        <3>6. calls' = <<[site |-> Restorer, safe |-> TRUE]>> \o AsCalls(Interrupted)
            BY <2>0, <2>9, <3>2, <3>3, <3>5, CallsEnter
        <3>7. CASE pc \in Exposed
            <4>1. frames # <<>> /\ 1 \in 1 .. Len(frames)
                BY <2>0, <3>7, Innermost DEF Exposed
            <4>2. \A i \in 1 .. Len(frames) :
                    /\ Interrupted[i].site = frames[i].site
                    /\ i # 1 => Interrupted[i].exposed = frames[i].exposed
                <5>1. \A i \in 1 .. Len(frames) : i # 1 => Interrupted[i] = frames[i]
                    BY <2>0, <3>7, <4>1 DEF Interrupted
                <5> QED
                    BY <3>4, <5>1 DEF Keeps
            <4>3. AsCalls(Interrupted) = [calls EXCEPT ![1].safe = FALSE]
                BY <2>0, <2>9, <3>4, <3>5, <3>7, <4>1, <4>2, CallsHarmed DEF Keeps
            <4>4. calls # <<>>
                BY <2>0, <2>9, <4>1, CallsTail
            <4> QED
                BY <3>2, <3>6, <4>3, <4>4
                   DEF CR!Next, CR!Interrupt, CR!Enter, CR!Harmed, calls
        <3>8. CASE pc \notin Exposed
            <4>1. Interrupted = frames
                BY <3>8 DEF Interrupted
            <4> QED
                BY <2>9, <3>2, <3>6, <4>1 DEF CR!Next, CR!Call, CR!Enter, calls
        <3> QED
            BY <3>7, <3>8
    <2>4. CASE Stray
        <3>1. /\ frames # <<>> /\ Head(frames) = frames[1] /\ Here /\ pc = "ret"
              /\ frames[1].words[1] # frames[1].site /\ frames' = frames
            BY <2>4, HereNow DEF Stray, Word
        <3>2. frames[1].exposed
            BY <3>1 DEF Here, StackAt, IsSite
        <3>3. calls # <<>> /\ Head(calls) = AsCall(frames[1]) /\ calls' = calls
            BY <2>0, <2>9, <3>1, CallsTail
        <3>4. ~Head(calls).safe
            <4>1. (~frames[1].exposed) = FALSE
                BY <3>2
            <4>2. AsCall(frames[1]) = [site |-> frames[1].site, safe |-> FALSE]
                BY <4>1 DEF AsCall
            <4> QED
                BY <3>3, <4>2
        <3> QED
            BY <3>3, <3>4 DEF CR!Next, CR!Stray, calls
    <2>5. ASSUME NEW j \in DOMAIN frames, NEW w \in Sites \cup {Restorer}, Overwrite(j, w)
          PROVE  CR!Next \/ (AsCalls(frames') = AsCalls(frames) /\ at' = at)
        <3>1. at' = at
            BY <2>5 DEF Overwrite
        <3>2. CASE AsCalls(frames') = [AsCalls(frames) EXCEPT ![j].safe = FALSE]
            <4>1. calls' = [calls EXCEPT ![j].safe = FALSE] /\ j \in DOMAIN calls
                BY <2>9, <3>2 DEF AsCalls
            <4> QED
                BY <3>1, <4>1 DEF CR!Next, CR!Harm, CR!Harmed, calls
        <3> QED
            BY <2>5, <3>1, <3>2, CallsOverwritten
    <2> QED
        BY <2>1, <2>2, <2>3, <2>4, <2>5, CallsQuiet DEF Next
<1> QED
    BY <1>1, <1>2, CallsInvariant, PTL DEF Spec, ReturnsToCaller, CR!Spec
=============================================================================
