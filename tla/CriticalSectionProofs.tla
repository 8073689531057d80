----------------------- MODULE CriticalSectionProofs -----------------------
(***************************************************************************)
(* Proofs about CriticalSection, for any set of cores and any nesting.     *)
(***************************************************************************)
EXTENDS CriticalSection, TLAPS, SequenceTheorems

\* The core c owns the lock on behalf of its context x.
Holding(c, x) == Inside(c, x) \/ pc[c][x] \in {"first", "store", "unlock"}

\* Past the mask, and inside a section, a context runs alone on its core.
Alone == \A c \in Core, x \in Ctx :
           pc[c][x] \notin {"out", "mask"} \/ Inside(c, x) => masked[c] /\ ctx[c] = x

\* A handler is masked and interrupted a thread that wants IRQ; between handlers
\* the interrupt context holds nothing.
Handlers == \A c \in Core :
              /\ ctx[c] = "irq" => masked[c] /\ ~wanted[c]
              /\ ctx[c] = "thread" => pc[c]["irq"] = "out" /\ saved[c]["irq"] = <<>>

\* OWNER names a core exactly while one of its contexts holds the lock.
Ownership == Multicore => \A c \in Core : owner = c <=> \E x \in Ctx : Holding(c, x)

\* DEPTH counts the owner's open sections, but for the step being taken.
Counting ==
  \A c \in Core, x \in Ctx :
    /\ pc[c][x] \in {"spin", "first", "unlock"} => ~Inside(c, x)
    /\ pc[c][x] = "deepen" => Inside(c, x)
    /\ Multicore /\ Inside(c, x) /\ pc[c][x] \notin {"store"} => depth = Len(saved[c][x])
    /\ pc[c][x] = "deepen" => tmp[c] = depth + 1
    /\ pc[c][x] = "store" => tmp[c] = Len(saved[c][x]) /\ depth = tmp[c] + 1
    /\ ~Multicore => pc[c][x] \in {"out", "mask", "restore"}

\* A restore state, in flight or kept by a caller, asks for IRQ only if it belongs
\* to the outermost section of a thread that wanted IRQ.
InFlight == \A c \in Core, x \in Ctx : pc[c][x] # "out" =>
              (was[c][x] <=> x = "thread" /\ ~Inside(c, x) /\ ~wanted[c])

Kept == \A c \in Core, x \in Ctx : \A k \in 1..Len(saved[c][x]) :
          saved[c][x][k] <=> x = "thread" /\ k = 1 /\ ~wanted[c]

\* A thread that has not masked yet runs with the mask it wanted.
Wanted == \A c \in Core :
            /\ ctx[c] = "thread"
            /\ pc[c]["thread"] \in {"out", "mask"}
            /\ ~Inside(c, "thread")
            => (masked[c] <=> wanted[c])

IInv == TypeOK /\ Alone /\ Handlers /\ Ownership /\ Counting /\ InFlight /\ Kept /\ Wanted
-----------------------------------------------------------------------------
(* What a step of acquire or release leaves alone. *)

LEMMA StepFacts ==
  ASSUME TypeOK, NEW c \in Core, NEW x \in Ctx, NEW from, NEW to, Step(c, x, from, to)
  PROVE  /\ ctx[c] = x
         /\ pc[c][x] = from
         /\ pc'[c][x] = to
         /\ \A d \in Core, y \in Ctx : d # c \/ y # x => pc'[d][y] = pc[d][y]
         /\ to \in Loc => pc' \in [Core -> [Ctx -> Loc]]
BY DEF TypeOK, Step

LEMMA ReturnFacts ==
  ASSUME TypeOK, NEW c \in Core, NEW x \in Ctx, Return(c, x)
  PROVE  /\ saved' \in [Core -> [Ctx -> Seq(BOOLEAN)]]
         /\ saved'[c][x] # <<>>
         /\ Len(saved'[c][x]) = Len(saved[c][x]) + 1
         /\ saved'[c][x][Len(saved[c][x]) + 1] = was[c][x]
         /\ \A k \in 1..Len(saved[c][x]) : saved'[c][x][k] = saved[c][x][k]
         /\ \A d \in Core, y \in Ctx : d # c \/ y # x => saved'[d][y] = saved[d][y]
<1> USE DEF TypeOK
<1>1. saved[c][x] \in Seq(BOOLEAN) /\ was[c][x] \in BOOLEAN
  OBVIOUS
<1>2. saved'[c][x] = Append(saved[c][x], was[c][x])
  BY DEF Return
<1>3. /\ Append(saved[c][x], was[c][x]) \in Seq(BOOLEAN)
      /\ Len(Append(saved[c][x], was[c][x])) = Len(saved[c][x]) + 1
      /\ \A k \in 1..Len(saved[c][x]) : Append(saved[c][x], was[c][x])[k] = saved[c][x][k]
      /\ Append(saved[c][x], was[c][x])[Len(saved[c][x]) + 1] = was[c][x]
  BY <1>1, AppendProperties
<1>4. \A d \in Core, y \in Ctx : d # c \/ y # x => saved'[d][y] = saved[d][y]
  BY DEF Return
<1>5. saved' \in [Core -> [Ctx -> Seq(BOOLEAN)]]
  BY <1>3 DEF Return
<1>6. saved'[c][x] # <<>>
  <2>1. Len(<<>>) = 0
    OBVIOUS
  <2>2. Len(saved[c][x]) \in Nat
    BY <1>1, LenProperties
  <2>3. Len(saved'[c][x]) # 0
    BY <1>2, <1>3, <2>2
  <2> QED BY <2>1, <2>3
<1> QED BY <1>2, <1>3, <1>4, <1>5, <1>6

\* While a context is past its mask or inside a section, its core's other context
\* holds nothing.
LEMMA Solo ==
  ASSUME TypeOK, Alone, NEW c \in Core, NEW x \in Ctx, ctx[c] = x,
         NEW y \in Ctx, y # x
  PROVE  /\ ~Inside(c, y)
         /\ pc[c][y] \in {"out", "mask"}
         /\ ~Holding(c, y)
BY DEF Alone, Holding

\* The state a returning acquire adds is the right one for its level.
LEMMA ReturnKept ==
  ASSUME TypeOK, Kept, NEW c \in Core, NEW x \in Ctx, Return(c, x), wanted' = wanted,
         was[c][x] <=> x = "thread" /\ ~Inside(c, x) /\ ~wanted[c]
  PROVE  Kept'
<1> SUFFICES ASSUME NEW d \in Core, NEW y \in Ctx, NEW k \in 1..Len(saved'[d][y])
             PROVE  saved'[d][y][k] <=> y = "thread" /\ k = 1 /\ ~wanted[d]
  BY DEF Kept
<1>1. CASE d # c \/ y # x
  <2>1. saved'[d][y] = saved[d][y]
    BY <1>1, ReturnFacts
  <2> QED BY <2>1 DEF Kept
<1>2. CASE d = c /\ y = x
  <2>1. /\ Len(saved'[c][x]) = Len(saved[c][x]) + 1
        /\ saved'[c][x][Len(saved[c][x]) + 1] = was[c][x]
        /\ \A i \in 1..Len(saved[c][x]) : saved'[c][x][i] = saved[c][x][i]
    BY ReturnFacts
  <2>2. Len(saved[c][x]) \in Nat /\ (saved[c][x] = <<>> <=> Len(saved[c][x]) = 0)
    BY EmptySeq, LenProperties DEF TypeOK
  <2>3. CASE k \in 1..Len(saved[c][x])
    <3>1. saved'[c][x][k] = saved[c][x][k]
      BY <2>1, <2>3
    <3> QED BY <1>2, <2>3, <3>1 DEF Kept
  <2>4. CASE k = Len(saved[c][x]) + 1
    BY <1>2, <2>1, <2>2, <2>4 DEF Inside
  <2> QED BY <1>2, <2>1, <2>2, <2>3, <2>4
<1> QED BY <1>1, <1>2

LEMMA CallReleaseFacts ==
  ASSUME TypeOK, NEW c \in Core, NEW x \in Ctx, CallRelease(c, x)
  PROVE  /\ saved' \in [Core -> [Ctx -> Seq(BOOLEAN)]]
         /\ saved[c][x] # <<>>
         /\ Len(saved[c][x]) \in Nat \ {0}
         /\ Len(saved'[c][x]) = Len(saved[c][x]) - 1
         /\ was'[c][x] = saved[c][x][Len(saved[c][x])]
         /\ \A k \in 1..Len(saved'[c][x]) : saved'[c][x][k] = saved[c][x][k]
         /\ \A d \in Core, y \in Ctx : d # c \/ y # x =>
              saved'[d][y] = saved[d][y] /\ was'[d][y] = was[d][y]
<1> DEFINE s == saved[c][x]
           n == Len(saved[c][x]) - 1
<1> USE DEF TypeOK
<1>1. s \in Seq(BOOLEAN) /\ s # <<>>
  BY DEF CallRelease
<1>2. Len(s) \in Nat \ {0} /\ n \in Nat
  BY <1>1, EmptySeq
<1>3. \A i \in 1..n : s[i] \in BOOLEAN
  BY <1>1, <1>2, LenProperties
<1>4. /\ SubSeq(s, 1, n) \in Seq(BOOLEAN)
      /\ Len(SubSeq(s, 1, n)) = n
      /\ \A i \in 1..n : SubSeq(s, 1, n)[i] = s[i]
  BY <1>2, <1>3, SubSeqProperties
<1>5. saved' = [saved EXCEPT ![c][x] = SubSeq(s, 1, n)]
  BY DEF CallRelease
<1>6. saved'[c][x] = SubSeq(s, 1, n)
  BY <1>5
<1>7. \A d \in Core, y \in Ctx : d # c \/ y # x =>
        saved'[d][y] = saved[d][y] /\ was'[d][y] = was[d][y]
  <2>1. \A d \in Core, y \in Ctx : d # c \/ y # x => saved'[d][y] = saved[d][y]
    BY <1>5
  <2>2. \A d \in Core, y \in Ctx : d # c \/ y # x => was'[d][y] = was[d][y]
    BY DEF CallRelease
  <2> QED BY <2>1, <2>2
<1>8. saved' \in [Core -> [Ctx -> Seq(BOOLEAN)]]
  BY <1>4, <1>5
<1>9. was'[c][x] = saved[c][x][Len(saved[c][x])]
  BY DEF CallRelease
<1> QED BY <1>1, <1>2, <1>4, <1>6, <1>7, <1>8, <1>9

-----------------------------------------------------------------------------
(* Every step preserves the invariant. *)

LEMMA ReadMaskInv ==
  ASSUME IInv, NEW c \in Core, NEW x \in Ctx, ReadMask(c, x)
  PROVE  IInv'
<1> USE DEF IInv, Ctx, Inside
<1>a. /\ ctx[c] = x
      /\ pc[c][x] = "out"
      /\ pc'[c][x] = "mask"
      /\ pc' \in [Core -> [Ctx -> Loc]]
      /\ \A d \in Core, y \in Ctx : d # c \/ y # x => pc'[d][y] = pc[d][y]
  BY StepFacts DEF ReadMask, Loc
<1>b. \A y \in Ctx : y # x => /\ ~Inside(c, y) /\ ~Holding(c, y)
                               /\ pc[c][y] \in {"out", "mask"}
  BY <1>a, Solo
<1>1. TypeOK'
  BY <1>a, <1>b DEF TypeOK, Loc, ReadMask
<1>2. Alone'
  BY <1>a, <1>b DEF TypeOK, Alone, ReadMask
<1>3. Handlers'
  BY <1>a, <1>b DEF TypeOK, Handlers, ReadMask
<1>4. Ownership'
  BY <1>a, <1>b, CoreAssumption, SingleCoreAssumption
     DEF TypeOK, Ownership, Counting, Holding, ReadMask
<1>5. Counting'
  BY <1>a, <1>b, SingleCoreAssumption DEF Counting, ReadMask
<1>6. InFlight'
  <2> SUFFICES ASSUME NEW d \in Core, NEW y \in Ctx, pc'[d][y] # "out"
               PROVE  was'[d][y] <=> y = "thread" /\ ~Inside(d, y) /\ ~wanted[d]
    BY DEF InFlight, ReadMask
  <2>1. CASE d # c \/ y # x
    BY <2>1, <1>a DEF TypeOK, InFlight, ReadMask
  <2>2. CASE d = c /\ y = x
    <3>1. was'[c][x] = ~masked[c]
      BY DEF TypeOK, ReadMask
    <3>2. masked[c] <=> ~(x = "thread" /\ ~Inside(c, x) /\ ~wanted[c])
      BY <1>a DEF TypeOK, Alone, Handlers, Wanted
    <3> QED BY <2>2, <3>1, <3>2
  <2> QED BY <2>1, <2>2
<1>7. Kept'
  BY <1>a, <1>b DEF TypeOK, Kept, ReadMask
<1>8. Wanted'
  BY <1>a, <1>b DEF TypeOK, Wanted, ReadMask
<1> QED BY <1>1, <1>2, <1>3, <1>4, <1>5, <1>6, <1>7, <1>8

LEMMA DisableIrqInv ==
  ASSUME IInv, NEW c \in Core, NEW x \in Ctx, DisableIrq(c, x)
  PROVE  IInv'
<1> USE DEF IInv, Ctx, Inside
<1>a. /\ ctx[c] = x
      /\ pc[c][x] = "mask"
      /\ pc'[c][x] = IF Multicore THEN "test" ELSE "out"
      /\ pc' \in [Core -> [Ctx -> Loc]]
      /\ \A d \in Core, y \in Ctx : d # c \/ y # x => pc'[d][y] = pc[d][y]
  BY StepFacts DEF DisableIrq, Loc
<1>b. \A y \in Ctx : y # x => /\ ~Inside(c, y) /\ ~Holding(c, y)
                               /\ pc[c][y] \in {"out", "mask"}
  BY <1>a, Solo
<1>c. Multicore => saved' = saved
  BY DEF DisableIrq
<1>d. ~Multicore =>
        /\ saved' \in [Core -> [Ctx -> Seq(BOOLEAN)]]
        /\ saved'[c][x] # <<>>
        /\ \A d \in Core, y \in Ctx : d # c \/ y # x => saved'[d][y] = saved[d][y]
  BY ReturnFacts DEF DisableIrq
<1>1. TypeOK'
  BY <1>a, <1>b, <1>c, <1>d DEF TypeOK, Loc, DisableIrq
<1>2. Alone'
  <2> SUFFICES ASSUME NEW d \in Core, NEW y \in Ctx,
                      pc'[d][y] \notin {"out", "mask"} \/ Inside(d, y)'
               PROVE  masked'[d] /\ ctx[d] = y
    BY DEF Alone, DisableIrq
  <2>1. masked' = [masked EXCEPT ![c] = TRUE]
    BY DEF DisableIrq
  <2>2. CASE d # c \/ y # x
    <3>1. pc'[d][y] = pc[d][y] /\ saved'[d][y] = saved[d][y]
      BY <1>a, <1>c, <1>d, <2>2 DEF DisableIrq
    <3> QED BY <2>1, <3>1 DEF TypeOK, Alone
  <2>3. CASE d = c /\ y = x
    BY <1>a, <2>1, <2>3 DEF TypeOK
  <2> QED BY <2>2, <2>3
<1>3. Handlers'
  BY <1>a, <1>b, <1>c, <1>d DEF TypeOK, Handlers, DisableIrq
<1>4. Ownership'
  BY <1>a, <1>b, <1>c, <1>d, CoreAssumption, SingleCoreAssumption
     DEF TypeOK, Ownership, Counting, Holding, DisableIrq
<1>5. Counting'
  BY <1>a, <1>b, <1>c, <1>d, SingleCoreAssumption DEF Counting, DisableIrq
<1>6. InFlight'
  <2> SUFFICES ASSUME NEW d \in Core, NEW y \in Ctx, pc'[d][y] # "out"
               PROVE  was[d][y] <=> y = "thread" /\ ~Inside(d, y)' /\ ~wanted[d]
    BY DEF InFlight, DisableIrq
  <2>1. pc[d][y] # "out"
    BY <1>a
  <2>2. saved'[d][y] = saved[d][y]
    BY <1>a, <1>c, <1>d, CoreAssumption
  <2> QED BY <2>1, <2>2 DEF InFlight
<1>7. Kept'
  <2>1. was[c][x] <=> x = "thread" /\ ~Inside(c, x) /\ ~wanted[c]
    BY <1>a DEF InFlight
  <2>2. CASE Multicore
    BY <1>c, <2>2 DEF Kept, DisableIrq
  <2>3. CASE ~Multicore
    BY <2>1, <2>3, ReturnKept DEF DisableIrq
  <2> QED BY <2>2, <2>3
<1>8. Wanted'
  <2>1. ASSUME NEW d \in Core, ctx[d] = "thread", pc'[d]["thread"] \in {"out", "mask"},
               ~Inside(d, "thread")'
        PROVE  /\ d # c
               /\ pc[d]["thread"] = pc'[d]["thread"]
               /\ ~Inside(d, "thread")
    BY <1>a, <1>c, <1>d, <2>1, CoreAssumption
  <2> QED BY <2>1 DEF TypeOK, Wanted, DisableIrq
<1> QED BY <1>1, <1>2, <1>3, <1>4, <1>5, <1>6, <1>7, <1>8

LEMMA TestOwnerInv ==
  ASSUME IInv, NEW c \in Core, NEW x \in Ctx, TestOwner(c, x)
  PROVE  IInv'
<1> USE DEF IInv, Ctx, Inside
<1>a. /\ ctx[c] = x
      /\ pc[c][x] = "test"
      /\ pc'[c][x] = IF owner = c THEN "deepen" ELSE "spin"
      /\ pc' \in [Core -> [Ctx -> Loc]]
      /\ \A d \in Core, y \in Ctx : d # c \/ y # x => pc'[d][y] = pc[d][y]
  BY StepFacts DEF TestOwner, Loc
<1>b. \A y \in Ctx : y # x => /\ ~Inside(c, y) /\ ~Holding(c, y)
                               /\ pc[c][y] \in {"out", "mask"}
  BY <1>a, Solo
<1>1. TypeOK'
  BY <1>a, <1>b DEF TypeOK, Loc, Counting, TestOwner
<1>2. Alone'
  BY <1>a, <1>b DEF TypeOK, Alone, TestOwner
<1>3. Handlers'
  BY <1>a, <1>b DEF TypeOK, Handlers, TestOwner
<1>4. Ownership'
  BY <1>a, <1>b, CoreAssumption, SingleCoreAssumption
     DEF TypeOK, Ownership, Counting, Holding, TestOwner
<1>5. Counting'
  BY <1>a, <1>b, SingleCoreAssumption DEF TypeOK, Ownership, Counting, Holding, TestOwner
<1>6. InFlight'
  BY <1>a, <1>b DEF TypeOK, InFlight, TestOwner
<1>7. Kept'
  BY <1>a, <1>b DEF TypeOK, Kept, TestOwner
<1>8. Wanted'
  BY <1>a, <1>b DEF TypeOK, Wanted, TestOwner
<1> QED BY <1>1, <1>2, <1>3, <1>4, <1>5, <1>6, <1>7, <1>8

LEMMA StoreDeeperInv ==
  ASSUME IInv, NEW c \in Core, NEW x \in Ctx, StoreDeeper(c, x)
  PROVE  IInv'
<1> USE DEF IInv, Ctx, Inside
<1>a. /\ ctx[c] = x
      /\ pc[c][x] = "deepen"
      /\ pc'[c][x] = "out"
      /\ pc' \in [Core -> [Ctx -> Loc]]
      /\ \A d \in Core, y \in Ctx : d # c \/ y # x => pc'[d][y] = pc[d][y]
  BY StepFacts DEF StoreDeeper, Loc
<1>b. \A y \in Ctx : y # x => /\ ~Inside(c, y) /\ ~Holding(c, y)
                               /\ pc[c][y] \in {"out", "mask"}
  BY <1>a, Solo
<1>c. /\ saved' \in [Core -> [Ctx -> Seq(BOOLEAN)]]
      /\ saved'[c][x] # <<>>
      /\ \A d \in Core, y \in Ctx : d # c \/ y # x => saved'[d][y] = saved[d][y]
  BY ReturnFacts DEF StoreDeeper
<1>e. /\ Len(saved[c][x]) \in Nat
      /\ Len(saved'[c][x]) = Len(saved[c][x]) + 1
      /\ saved[c][x] = <<>> <=> Len(saved[c][x]) = 0
  BY ReturnFacts, LenProperties, EmptySeq DEF TypeOK, StoreDeeper
<1>1. TypeOK'
  BY <1>a, <1>b, <1>c DEF TypeOK, Loc, StoreDeeper
<1>2. Alone'
  BY <1>a, <1>b, <1>c DEF TypeOK, Alone, StoreDeeper
<1>3. Handlers'
  <2>1. ASSUME NEW d \in Core, ctx[d] = "thread"
        PROVE  pc'[d]["irq"] = pc[d]["irq"] /\ saved'[d]["irq"] = saved[d]["irq"]
    BY <1>a, <1>c, <2>1
  <2> QED BY <2>1 DEF Handlers, StoreDeeper
<1>4. Ownership'
  BY <1>a, <1>b, <1>c, CoreAssumption, SingleCoreAssumption
     DEF TypeOK, Ownership, Counting, Holding, StoreDeeper
<1>5. Counting'
  <2>1. Multicore /\ owner = c
    BY <1>a DEF Ownership, Counting, Holding
  <2>2. \A d \in Core, y \in Ctx : d # c \/ y # x => ~Holding(d, y)
    BY <1>b, <2>1 DEF Ownership
  <2> SUFFICES ASSUME NEW d \in Core, NEW y \in Ctx
               PROVE  /\ pc'[d][y] \in {"spin", "first", "unlock"} => ~Inside(d, y)'
                      /\ pc'[d][y] = "deepen" => Inside(d, y)'
                      /\ Multicore /\ Inside(d, y)' /\ pc'[d][y] # "store"
                           => depth' = Len(saved'[d][y])
                      /\ pc'[d][y] = "deepen" => tmp'[d] = depth' + 1
                      /\ pc'[d][y] = "store" => tmp'[d] = Len(saved'[d][y]) /\ depth' = tmp'[d] + 1
                      /\ ~Multicore => pc'[d][y] \in {"out", "mask", "restore"}
    BY DEF Counting
  <2>3. CASE d # c \/ y # x
    <3>1. /\ ~Inside(d, y)
          /\ pc[d][y] \notin {"first", "store", "unlock"}
      BY <2>2, <2>3 DEF Holding
    <3>2. pc[d][y] # "deepen"
      BY <3>1 DEF Counting
    <3>3. pc'[d][y] = pc[d][y] /\ saved'[d][y] = saved[d][y]
      BY <1>a, <1>c, <2>3
    <3> QED BY <2>1, <3>1, <3>2, <3>3
  <2>4. CASE d = c /\ y = x
    <3>1. saved[c][x] = <<>> <=> pc[c][x] = "first"
      BY <1>a DEF Counting
    <3>2. depth' = Len(saved'[c][x])
      BY <1>a, <1>c, <1>e, <2>1, <3>1 DEF Counting, StoreDeeper
    <3>3. pc'[c][x] = "out"
      BY <1>a
    <3> QED BY <2>1, <2>4, <3>2, <3>3
  <2> QED BY <2>3, <2>4
<1>6. InFlight'
  BY <1>a, <1>b, <1>c DEF TypeOK, InFlight, StoreDeeper
<1>7. Kept'
  <2>1. was[c][x] <=> x = "thread" /\ ~Inside(c, x) /\ ~wanted[c]
    BY <1>a DEF InFlight
  <2> QED BY <2>1, ReturnKept DEF StoreDeeper
<1>8. Wanted'
  BY <1>a, <1>c DEF TypeOK, Wanted, StoreDeeper
<1> QED BY <1>1, <1>2, <1>3, <1>4, <1>5, <1>6, <1>7, <1>8

LEMMA TakeLockInv ==
  ASSUME IInv, NEW c \in Core, NEW x \in Ctx, TakeLock(c, x)
  PROVE  IInv'
<1> USE DEF IInv, Ctx, Inside
<1>a. /\ ctx[c] = x
      /\ pc[c][x] = "spin"
      /\ pc'[c][x] = "first"
      /\ pc' \in [Core -> [Ctx -> Loc]]
      /\ \A d \in Core, y \in Ctx : d # c \/ y # x => pc'[d][y] = pc[d][y]
  BY StepFacts DEF TakeLock, Loc
<1>b. \A y \in Ctx : y # x => /\ ~Inside(c, y) /\ ~Holding(c, y)
                               /\ pc[c][y] \in {"out", "mask"}
  BY <1>a, Solo
<1>1. TypeOK'
  BY <1>a, <1>b DEF TypeOK, Loc, TakeLock
<1>2. Alone'
  BY <1>a, <1>b DEF TypeOK, Alone, TakeLock
<1>3. Handlers'
  BY <1>a, <1>b DEF TypeOK, Handlers, TakeLock
<1>4. Ownership'
  BY <1>a, <1>b, CoreAssumption, SingleCoreAssumption
     DEF TypeOK, Ownership, Counting, Holding, TakeLock
<1>5. Counting'
  BY <1>a, <1>b, SingleCoreAssumption DEF TypeOK, Ownership, Counting, Holding, TakeLock
<1>6. InFlight'
  BY <1>a, <1>b DEF TypeOK, InFlight, TakeLock
<1>7. Kept'
  BY <1>a, <1>b DEF TypeOK, Kept, TakeLock
<1>8. Wanted'
  BY <1>a, <1>b DEF TypeOK, Wanted, TakeLock
<1> QED BY <1>1, <1>2, <1>3, <1>4, <1>5, <1>6, <1>7, <1>8

LEMMA StoreFirstInv ==
  ASSUME IInv, NEW c \in Core, NEW x \in Ctx, StoreFirst(c, x)
  PROVE  IInv'
<1> USE DEF IInv, Ctx, Inside
<1>a. /\ ctx[c] = x
      /\ pc[c][x] = "first"
      /\ pc'[c][x] = "out"
      /\ pc' \in [Core -> [Ctx -> Loc]]
      /\ \A d \in Core, y \in Ctx : d # c \/ y # x => pc'[d][y] = pc[d][y]
  BY StepFacts DEF StoreFirst, Loc
<1>b. \A y \in Ctx : y # x => /\ ~Inside(c, y) /\ ~Holding(c, y)
                               /\ pc[c][y] \in {"out", "mask"}
  BY <1>a, Solo
<1>c. /\ saved' \in [Core -> [Ctx -> Seq(BOOLEAN)]]
      /\ saved'[c][x] # <<>>
      /\ \A d \in Core, y \in Ctx : d # c \/ y # x => saved'[d][y] = saved[d][y]
  BY ReturnFacts DEF StoreFirst
<1>e. /\ Len(saved[c][x]) \in Nat
      /\ Len(saved'[c][x]) = Len(saved[c][x]) + 1
      /\ saved[c][x] = <<>> <=> Len(saved[c][x]) = 0
  BY ReturnFacts, LenProperties, EmptySeq DEF TypeOK, StoreFirst
<1>1. TypeOK'
  BY <1>a, <1>b, <1>c DEF TypeOK, Loc, StoreFirst
<1>2. Alone'
  BY <1>a, <1>b, <1>c DEF TypeOK, Alone, StoreFirst
<1>3. Handlers'
  <2>1. ASSUME NEW d \in Core, ctx[d] = "thread"
        PROVE  pc'[d]["irq"] = pc[d]["irq"] /\ saved'[d]["irq"] = saved[d]["irq"]
    BY <1>a, <1>c, <2>1
  <2> QED BY <2>1 DEF Handlers, StoreFirst
<1>4. Ownership'
  BY <1>a, <1>b, <1>c, CoreAssumption, SingleCoreAssumption
     DEF TypeOK, Ownership, Counting, Holding, StoreFirst
<1>5. Counting'
  <2>1. Multicore /\ owner = c
    BY <1>a DEF Ownership, Counting, Holding
  <2>2. \A d \in Core, y \in Ctx : d # c \/ y # x => ~Holding(d, y)
    BY <1>b, <2>1 DEF Ownership
  <2> SUFFICES ASSUME NEW d \in Core, NEW y \in Ctx
               PROVE  /\ pc'[d][y] \in {"spin", "first", "unlock"} => ~Inside(d, y)'
                      /\ pc'[d][y] = "deepen" => Inside(d, y)'
                      /\ Multicore /\ Inside(d, y)' /\ pc'[d][y] # "store"
                           => depth' = Len(saved'[d][y])
                      /\ pc'[d][y] = "deepen" => tmp'[d] = depth' + 1
                      /\ pc'[d][y] = "store" => tmp'[d] = Len(saved'[d][y]) /\ depth' = tmp'[d] + 1
                      /\ ~Multicore => pc'[d][y] \in {"out", "mask", "restore"}
    BY DEF Counting
  <2>3. CASE d # c \/ y # x
    <3>1. /\ ~Inside(d, y)
          /\ pc[d][y] \notin {"first", "store", "unlock"}
      BY <2>2, <2>3 DEF Holding
    <3>2. pc[d][y] # "deepen"
      BY <3>1 DEF Counting
    <3>3. pc'[d][y] = pc[d][y] /\ saved'[d][y] = saved[d][y]
      BY <1>a, <1>c, <2>3
    <3> QED BY <2>1, <3>1, <3>2, <3>3
  <2>4. CASE d = c /\ y = x
    <3>1. saved[c][x] = <<>> <=> pc[c][x] = "first"
      BY <1>a DEF Counting
    <3>2. depth' = Len(saved'[c][x])
      BY <1>a, <1>c, <1>e, <2>1, <3>1 DEF Counting, StoreFirst
    <3>3. pc'[c][x] = "out"
      BY <1>a
    <3> QED BY <2>1, <2>4, <3>2, <3>3
  <2> QED BY <2>3, <2>4
<1>6. InFlight'
  BY <1>a, <1>b, <1>c DEF TypeOK, InFlight, StoreFirst
<1>7. Kept'
  <2>1. was[c][x] <=> x = "thread" /\ ~Inside(c, x) /\ ~wanted[c]
    BY <1>a DEF InFlight
  <2> QED BY <2>1, ReturnKept DEF StoreFirst
<1>8. Wanted'
  BY <1>a, <1>c DEF TypeOK, Wanted, StoreFirst
<1> QED BY <1>1, <1>2, <1>3, <1>4, <1>5, <1>6, <1>7, <1>8

LEMMA CallReleaseInv ==
  ASSUME IInv, NEW c \in Core, NEW x \in Ctx, CallRelease(c, x)
  PROVE  IInv'
<1> USE DEF IInv, Ctx, Inside
<1>a. /\ ctx[c] = x
      /\ pc[c][x] = "out"
      /\ pc'[c][x] = IF Multicore THEN "store" ELSE "restore"
      /\ pc' \in [Core -> [Ctx -> Loc]]
      /\ \A d \in Core, y \in Ctx : d # c \/ y # x => pc'[d][y] = pc[d][y]
  BY StepFacts DEF CallRelease, Loc
<1>b. \A y \in Ctx : y # x => /\ ~Inside(c, y) /\ ~Holding(c, y)
                               /\ pc[c][y] \in {"out", "mask"}
  BY <1>a, Solo
<1>c. /\ saved' \in [Core -> [Ctx -> Seq(BOOLEAN)]]
      /\ saved[c][x] # <<>>
      /\ \A d \in Core, y \in Ctx : d # c \/ y # x =>
           saved'[d][y] = saved[d][y] /\ was'[d][y] = was[d][y]
  BY CallReleaseFacts
<1>d. /\ Len(saved[c][x]) \in Nat \ {0}
      /\ Len(saved'[c][x]) = Len(saved[c][x]) - 1
      /\ saved'[c][x] = <<>> <=> Len(saved'[c][x]) = 0
  <2>1. saved'[c][x] \in Seq(BOOLEAN)
    BY <1>c
  <2> QED BY <2>1, EmptySeq, CallReleaseFacts
<1>e. /\ was'[c][x] = saved[c][x][Len(saved[c][x])]
      /\ \A k \in 1..Len(saved'[c][x]) : saved'[c][x][k] = saved[c][x][k]
  BY CallReleaseFacts
<1>1. TypeOK'
  <2>1. tmp' \in [Core -> Nat]
    <3>1. Multicore => depth = Len(saved[c][x])
      BY <1>a, <1>c DEF Counting
    <3> QED BY <1>d, <3>1 DEF TypeOK, CallRelease
  <2>2. was' \in [Core -> [Ctx -> BOOLEAN]]
    <3>1. saved[c][x][Len(saved[c][x])] \in BOOLEAN
      BY <1>c, <1>d, LenProperties DEF TypeOK
    <3> QED BY <3>1 DEF TypeOK, CallRelease
  <2> QED BY <1>a, <1>c, <2>1, <2>2 DEF TypeOK, CallRelease
<1>2. Alone'
  BY <1>a, <1>b, <1>c DEF TypeOK, Alone, CallRelease
<1>3. Handlers'
  BY <1>a, <1>b, <1>c DEF TypeOK, Handlers, CallRelease
<1>4. Ownership'
  BY <1>a, <1>b, <1>c, CoreAssumption, SingleCoreAssumption
     DEF TypeOK, Ownership, Counting, Holding, CallRelease
<1>5. Counting'
  <2>1. Multicore => owner = c /\ depth = Len(saved[c][x])
    BY <1>a, <1>c DEF Ownership, Counting, Holding
  <2>2. \A d \in Core, y \in Ctx : Multicore /\ (d # c \/ y # x) => ~Holding(d, y)
    BY <1>b, <2>1 DEF Ownership
  <2>3. Multicore => tmp' = [tmp EXCEPT ![c] = depth - 1]
    BY DEF CallRelease
  <2>4. ASSUME NEW d \in Core, NEW y \in Ctx, d # c \/ y # x
        PROVE  /\ pc'[d][y] \notin {"first", "unlock", "deepen", "store"} \/ ~Multicore
               /\ pc'[d][y] = "spin" => ~Inside(d, y)'
               /\ ~(Multicore /\ Inside(d, y)')
               /\ ~Multicore => pc'[d][y] \in {"out", "mask", "restore"}
    <3>1. pc'[d][y] = pc[d][y] /\ saved'[d][y] = saved[d][y]
      BY <1>a, <1>c, <2>4
    <3> QED BY <2>2, <2>4, <3>1 DEF Counting, Holding
  <2>5. /\ Multicore => pc'[c][x] = "store" /\ tmp'[c] = Len(saved'[c][x]) /\ depth' = tmp'[c] + 1
        /\ ~Multicore => pc'[c][x] = "restore"
    BY <1>a, <1>d, <2>1, <2>3 DEF TypeOK, CallRelease
  <2> QED BY <2>4, <2>5 DEF Counting
<1>6. InFlight'
  <2> SUFFICES ASSUME NEW d \in Core, NEW y \in Ctx, pc'[d][y] # "out"
               PROVE  was'[d][y] <=> y = "thread" /\ ~Inside(d, y)' /\ ~wanted[d]
    BY DEF InFlight, CallRelease
  <2>1. CASE d # c \/ y # x
    <3>1. pc'[d][y] = pc[d][y] /\ saved'[d][y] = saved[d][y] /\ was'[d][y] = was[d][y]
      BY <1>a, <1>c, <2>1
    <3> QED BY <3>1 DEF InFlight
  <2>2. CASE d = c /\ y = x
    <3>1. was'[c][x] <=> x = "thread" /\ Len(saved[c][x]) = 1 /\ ~wanted[c]
      BY <1>d, <1>e DEF Kept
    <3> QED BY <1>d, <2>2, <3>1
  <2> QED BY <2>1, <2>2
<1>7. Kept'
  <2> SUFFICES ASSUME NEW d \in Core, NEW y \in Ctx, NEW k \in 1..Len(saved'[d][y])
               PROVE  saved'[d][y][k] <=> y = "thread" /\ k = 1 /\ ~wanted[d]
    BY DEF Kept, CallRelease
  <2>1. CASE d # c \/ y # x
    <3>1. saved'[d][y] = saved[d][y]
      BY <1>c, <2>1
    <3> QED BY <3>1 DEF Kept
  <2>2. CASE d = c /\ y = x
    <3>1. k \in 1..Len(saved[c][x])
      BY <1>d, <2>2
    <3>2. saved'[c][x][k] = saved[c][x][k]
      BY <1>e, <2>2
    <3> QED BY <2>2, <3>1, <3>2 DEF Kept
  <2> QED BY <2>1, <2>2
<1>8. Wanted'
  BY <1>a, <1>b, <1>c DEF TypeOK, Wanted, Alone, CallRelease
<1> QED BY <1>1, <1>2, <1>3, <1>4, <1>5, <1>6, <1>7, <1>8

LEMMA StoreDepthInv ==
  ASSUME IInv, NEW c \in Core, NEW x \in Ctx, StoreDepth(c, x)
  PROVE  IInv'
<1> USE DEF IInv, Ctx, Inside
<1>a. /\ ctx[c] = x
      /\ pc[c][x] = "store"
      /\ pc'[c][x] = IF tmp[c] = 0 THEN "unlock" ELSE "restore"
      /\ pc' \in [Core -> [Ctx -> Loc]]
      /\ \A d \in Core, y \in Ctx : d # c \/ y # x => pc'[d][y] = pc[d][y]
  BY StepFacts DEF StoreDepth, Loc
<1>b. \A y \in Ctx : y # x => /\ ~Inside(c, y) /\ ~Holding(c, y)
                               /\ pc[c][y] \in {"out", "mask"}
  BY <1>a, Solo
<1>1. TypeOK'
  BY <1>a, <1>b DEF TypeOK, Loc, Counting, StoreDepth
<1>2. Alone'
  BY <1>a, <1>b DEF TypeOK, Alone, StoreDepth
<1>3. Handlers'
  BY <1>a, <1>b DEF TypeOK, Handlers, StoreDepth
<1>4. Ownership'
  BY <1>a, <1>b, CoreAssumption, SingleCoreAssumption
     DEF TypeOK, Ownership, Counting, Holding, StoreDepth
<1>5. Counting'
  BY <1>a, <1>b, SingleCoreAssumption DEF TypeOK, Ownership, Counting, Holding, StoreDepth
<1>6. InFlight'
  BY <1>a, <1>b DEF TypeOK, InFlight, StoreDepth
<1>7. Kept'
  BY <1>a, <1>b DEF TypeOK, Kept, StoreDepth
<1>8. Wanted'
  BY <1>a, <1>b DEF TypeOK, Wanted, StoreDepth
<1> QED BY <1>1, <1>2, <1>3, <1>4, <1>5, <1>6, <1>7, <1>8

LEMMA DropLockInv ==
  ASSUME IInv, NEW c \in Core, NEW x \in Ctx, DropLock(c, x)
  PROVE  IInv'
<1> USE DEF IInv, Ctx, Inside
<1>a. /\ ctx[c] = x
      /\ pc[c][x] = "unlock"
      /\ pc'[c][x] = "restore"
      /\ pc' \in [Core -> [Ctx -> Loc]]
      /\ \A d \in Core, y \in Ctx : d # c \/ y # x => pc'[d][y] = pc[d][y]
  BY StepFacts DEF DropLock, Loc
<1>b. \A y \in Ctx : y # x => /\ ~Inside(c, y) /\ ~Holding(c, y)
                               /\ pc[c][y] \in {"out", "mask"}
  BY <1>a, Solo
<1>1. TypeOK'
  BY <1>a, <1>b DEF TypeOK, Loc, DropLock
<1>2. Alone'
  BY <1>a, <1>b DEF TypeOK, Alone, DropLock
<1>3. Handlers'
  BY <1>a, <1>b DEF TypeOK, Handlers, DropLock
<1>4. Ownership'
  BY <1>a, <1>b, CoreAssumption, SingleCoreAssumption
     DEF TypeOK, Ownership, Counting, Holding, DropLock
<1>5. Counting'
  BY <1>a, <1>b, SingleCoreAssumption DEF Counting, DropLock
<1>6. InFlight'
  BY <1>a, <1>b DEF TypeOK, InFlight, DropLock
<1>7. Kept'
  BY <1>a, <1>b DEF TypeOK, Kept, DropLock
<1>8. Wanted'
  BY <1>a, <1>b DEF TypeOK, Wanted, DropLock
<1> QED BY <1>1, <1>2, <1>3, <1>4, <1>5, <1>6, <1>7, <1>8

LEMMA RestoreIrqInv ==
  ASSUME IInv, NEW c \in Core, NEW x \in Ctx, RestoreIrq(c, x)
  PROVE  IInv'
<1> USE DEF IInv, Ctx, Inside
<1>a. /\ ctx[c] = x
      /\ pc[c][x] = "restore"
      /\ pc'[c][x] = "out"
      /\ pc' \in [Core -> [Ctx -> Loc]]
      /\ \A d \in Core, y \in Ctx : d # c \/ y # x => pc'[d][y] = pc[d][y]
  BY StepFacts DEF RestoreIrq, Loc
<1>b. \A y \in Ctx : y # x => /\ ~Inside(c, y) /\ ~Holding(c, y)
                               /\ pc[c][y] \in {"out", "mask"}
  BY <1>a, Solo
<1>1. TypeOK'
  BY <1>a, <1>b DEF TypeOK, Loc, RestoreIrq
<1>2. Alone'
  BY <1>a, <1>b DEF TypeOK, Alone, InFlight, RestoreIrq
<1>3. Handlers'
  BY <1>a, <1>b DEF TypeOK, Handlers, InFlight, RestoreIrq
<1>4. Ownership'
  BY <1>a, <1>b, CoreAssumption, SingleCoreAssumption
     DEF TypeOK, Ownership, Counting, Holding, RestoreIrq
<1>5. Counting'
  BY <1>a, <1>b, SingleCoreAssumption DEF Counting, RestoreIrq
<1>6. InFlight'
  BY <1>a, <1>b DEF TypeOK, InFlight, RestoreIrq
<1>7. Kept'
  BY <1>a, <1>b DEF TypeOK, Kept, RestoreIrq
<1>8. Wanted'
  BY <1>a, <1>b DEF TypeOK, Wanted, InFlight, Alone, RestoreIrq
<1> QED BY <1>1, <1>2, <1>3, <1>4, <1>5, <1>6, <1>7, <1>8

LEMMA TakeIrqInv ==
  ASSUME IInv, NEW c \in Core, TakeIrq(c)
  PROVE  IInv'
<1> USE DEF IInv, Ctx, Inside
<1>1. TypeOK'
  BY DEF TypeOK, Loc, TakeIrq
<1>2. Alone'
  BY DEF TypeOK, Alone, Handlers, TakeIrq
<1>3. Handlers'
  BY DEF TypeOK, Handlers, Alone, Wanted, TakeIrq
<1>4. Ownership'
  BY CoreAssumption, SingleCoreAssumption DEF TypeOK, Ownership, Counting, Holding, TakeIrq
<1>5. Counting'
  BY SingleCoreAssumption DEF Counting, TakeIrq
<1>6. InFlight'
  BY DEF TypeOK, InFlight, TakeIrq
<1>7. Kept'
  BY DEF TypeOK, Kept, TakeIrq
<1>8. Wanted'
  BY DEF TypeOK, Wanted, Handlers, TakeIrq
<1> QED BY <1>1, <1>2, <1>3, <1>4, <1>5, <1>6, <1>7, <1>8

LEMMA ReturnFromIrqInv ==
  ASSUME IInv, NEW c \in Core, ReturnFromIrq(c)
  PROVE  IInv'
<1> USE DEF IInv, Ctx, Inside
<1>1. TypeOK'
  BY DEF TypeOK, Loc, ReturnFromIrq
<1>2. Alone'
  BY DEF TypeOK, Alone, Handlers, ReturnFromIrq
<1>3. Handlers'
  BY DEF TypeOK, Handlers, ReturnFromIrq
<1>4. Ownership'
  BY CoreAssumption, SingleCoreAssumption
     DEF TypeOK, Ownership, Counting, Holding, ReturnFromIrq
<1>5. Counting'
  BY SingleCoreAssumption DEF Counting, ReturnFromIrq
<1>6. InFlight'
  BY DEF TypeOK, InFlight, ReturnFromIrq
<1>7. Kept'
  BY DEF TypeOK, Kept, ReturnFromIrq
<1>8. Wanted'
  BY DEF TypeOK, Wanted, Handlers, Alone, ReturnFromIrq
<1> QED BY <1>1, <1>2, <1>3, <1>4, <1>5, <1>6, <1>7, <1>8

LEMMA SetIrqInv ==
  ASSUME IInv, NEW c \in Core, SetIrq(c)
  PROVE  IInv'
<1> USE DEF IInv, Ctx, Inside
<1>1. TypeOK'
  BY DEF TypeOK, Loc, SetIrq
<1>2. Alone'
  BY DEF TypeOK, Alone, Handlers, SetIrq
<1>3. Handlers'
  BY DEF TypeOK, Handlers, Alone, SetIrq
<1>4. Ownership'
  BY CoreAssumption, SingleCoreAssumption DEF TypeOK, Ownership, Counting, Holding, SetIrq
<1>5. Counting'
  BY SingleCoreAssumption DEF Counting, SetIrq
<1>6. InFlight'
  BY DEF TypeOK, InFlight, Handlers, Alone, SetIrq
<1>7. Kept'
  BY DEF TypeOK, Kept, Handlers, SetIrq
<1>8. Wanted'
  BY DEF TypeOK, Wanted, SetIrq
<1> QED BY <1>1, <1>2, <1>3, <1>4, <1>5, <1>6, <1>7, <1>8

-----------------------------------------------------------------------------
LEMMA InitInv == Init => IInv
BY CoreAssumption DEF Init, IInv, TypeOK, Alone, Handlers, Ownership, Counting, InFlight,
   Kept, Wanted, Holding, Inside, Ctx, Loc

LEMMA NextInv == IInv /\ [Next]_vars => IInv'
<1> SUFFICES ASSUME IInv, [Next]_vars
             PROVE  IInv'
  OBVIOUS
<1>1. ASSUME NEW c \in Core, NEW x \in Ctx, Acquire(c, x)
      PROVE  IInv'
  BY <1>1, ReadMaskInv, DisableIrqInv, TestOwnerInv, StoreDeeperInv, TakeLockInv, StoreFirstInv
     DEF Acquire
<1>2. ASSUME NEW c \in Core, NEW x \in Ctx, Release(c, x)
      PROVE  IInv'
  BY <1>2, CallReleaseInv, StoreDepthInv, DropLockInv, RestoreIrqInv DEF Release
<1>3. ASSUME NEW c \in Core, TakeIrq(c) \/ ReturnFromIrq(c) \/ SetIrq(c)
      PROVE  IInv'
  BY <1>3, TakeIrqInv, ReturnFromIrqInv, SetIrqInv
<1>4. CASE UNCHANGED vars
  BY <1>4 DEF vars, IInv, TypeOK, Alone, Handlers, Ownership, Counting, InFlight,
     Kept, Wanted, Holding, Inside
<1> QED BY <1>1, <1>2, <1>3, <1>4 DEF Next

LEMMA Invariant == Spec => []IInv
BY InitInv, NextInv, PTL DEF Spec

\* The variables of critical_section.rs always hold values of their types; DEPTH in
\* particular is never decremented below zero.
THEOREM TypeCorrect == Spec => []TypeOK
BY Invariant, PTL DEF IInv

LEMMA ExclusionInv == IInv => MutualExclusion
<1> SUFFICES ASSUME IInv, NEW c \in Core, NEW d \in Core, NEW x \in Ctx, NEW y \in Ctx,
                    Inside(c, x), Inside(d, y)
             PROVE  c = d /\ x = y
  BY DEF MutualExclusion
<1>1. ctx[c] = x /\ ctx[d] = y
  BY DEF IInv, Alone
<1>2. CASE Multicore
  BY <1>1, <1>2 DEF IInv, Ownership, Holding
<1>3. CASE ~Multicore
  BY <1>1, <1>3, SingleCoreAssumption
<1> QED BY <1>2, <1>3, CoreAssumption

LEMMA ExclusionNext == IInv' => MutualExclusion'
BY ExclusionInv, PTL

\* critical_section.rs:5-9 and :27-37: however many cores contend, nest and take
\* interrupts, one context at most is inside.
THEOREM Exclusion == Spec => []MutualExclusion
BY ExclusionInv, Invariant, PTL

\* critical_section.rs:53-56: inside a section, at any depth, IRQ stays masked.
THEOREM Masked == Spec => []MaskedInside
<1>1. IInv => MaskedInside
  BY DEF IInv, Alone, MaskedInside
<1> QED BY <1>1, Invariant, PTL

\* critical_section.rs:33-37: no core spins for a lock it holds itself.
THEOREM NoSelfWait == Spec => []NeverWaitsForItself
<1>1. IInv => NeverWaitsForItself
  <2> SUFFICES ASSUME IInv, NEW c \in Core, NEW x \in Ctx, pc[c][x] = "spin", owner = c
               PROVE  FALSE
    BY DEF NeverWaitsForItself
  <2>1. ctx[c] = x /\ ~Holding(c, x) /\ Multicore
    BY DEF IInv, Alone, Counting, Holding
  <2>2. \A y \in Ctx : ~Holding(c, y)
    BY <2>1, Solo DEF IInv
  <2> QED BY <2>1, <2>2 DEF IInv, Ownership
<1> QED BY <1>1, Invariant, PTL

\* critical_section.rs:118-120: the last release gives the thread the mask it had.
THEOREM MaskRestored == Spec => []MaskAsWanted
<1>1. IInv => MaskAsWanted
  BY DEF IInv, Wanted, MaskAsWanted
<1> QED BY <1>1, Invariant, PTL

-----------------------------------------------------------------------------
(* The implementation keeps the crate's promise. *)

LEMMA LevelsOf ==
  ASSUME TypeOK, NEW c \in Core, NEW x \in Ctx
  PROVE  /\ Levels[<<c, x>>] = Len(saved[c][x])
         /\ Len(saved[c][x]) \in Nat
         /\ saved[c][x] = <<>> <=> Len(saved[c][x]) = 0
BY LenProperties, EmptySeq DEF TypeOK, Levels

\* A step that changes the sections of one context changes its level alone.
LEMMA OneLevel ==
  ASSUME NEW c \in Core, NEW x \in Ctx,
         \A d \in Core, y \in Ctx : d # c \/ y # x => saved'[d][y] = saved[d][y]
  PROVE  Levels' = [Levels EXCEPT ![<<c, x>>] = Len(saved'[c][x])]
<1>1. ASSUME NEW p \in Core \X Ctx
      PROVE  Len(saved'[p[1]][p[2]]) = IF p = <<c, x>> THEN Len(saved'[c][x])
                                       ELSE Len(saved[p[1]][p[2]])
  OBVIOUS
<1> QED BY <1>1 DEF Levels

\* A return from acquire is an Enter.
LEMMA ReturnEnters ==
  ASSUME IInv, IInv', NEW c \in Core, NEW x \in Ctx, Return(c, x)
  PROVE  Promise!Enter(<<c, x>>)
<1>1. /\ saved'[c][x] # <<>>
      /\ Len(saved'[c][x]) = Len(saved[c][x]) + 1
      /\ \A d \in Core, y \in Ctx : d # c \/ y # x => saved'[d][y] = saved[d][y]
  BY ReturnFacts DEF IInv
<1>2. Levels' = [Levels EXCEPT ![<<c, x>>] = Levels[<<c, x>>] + 1]
  BY <1>1, OneLevel, LevelsOf DEF IInv
<1>3. \A d \in Core, y \in Ctx : d # c \/ y # x => Levels[<<d, y>>] = 0
  <2> SUFFICES ASSUME NEW d \in Core, NEW y \in Ctx, d # c \/ y # x
               PROVE  saved[d][y] = <<>>
    BY LevelsOf DEF IInv
  <2>1. Inside(c, x)' /\ (Inside(d, y)' <=> saved[d][y] # <<>>)
    BY <1>1 DEF Inside
  <2> QED BY <2>1, ExclusionNext DEF MutualExclusion
<1>4. \A q \in (Core \X Ctx) \ {<<c, x>>} : Levels[q] = 0
  BY <1>3
<1> QED BY <1>2, <1>4 DEF Promise!Enter

\* A call of release is a Leave.
LEMMA CallReleaseLeaves ==
  ASSUME IInv, NEW c \in Core, NEW x \in Ctx, CallRelease(c, x)
  PROVE  Promise!Leave(<<c, x>>)
<1>1. /\ Len(saved[c][x]) \in Nat \ {0}
      /\ Len(saved'[c][x]) = Len(saved[c][x]) - 1
      /\ \A d \in Core, y \in Ctx : d # c \/ y # x => saved'[d][y] = saved[d][y]
  BY CallReleaseFacts DEF IInv
<1>2. Levels[<<c, x>>] = Len(saved[c][x])
  BY LevelsOf DEF IInv
<1>3. Levels' = [Levels EXCEPT ![<<c, x>>] = Levels[<<c, x>>] - 1]
  BY <1>1, <1>2, OneLevel
<1> QED BY <1>1, <1>2, <1>3 DEF Promise!Leave

\* The critical-section crate's contract, one context inside at a time and nesting
\* allowed, is kept by acquire and release as critical_section.rs implements them.
THEOREM Refinement == Spec => KeepsPromise
<1>1. Init => Promise!LockInit
  BY DEF Init, Levels, Promise!LockInit
<1>2. IInv /\ IInv' /\ [Next]_vars => [Promise!LockNext]_Levels
  <2> SUFFICES ASSUME IInv, IInv', [Next]_vars
               PROVE  [Promise!LockNext]_Levels
    OBVIOUS
  <2>1. ASSUME saved' = saved
        PROVE  UNCHANGED Levels
    BY <2>1 DEF Levels
  <2>2. ASSUME NEW c \in Core, NEW x \in Ctx, Return(c, x)
        PROVE  Promise!LockNext
    BY <2>2, ReturnEnters DEF Promise!LockNext
  <2>3. ASSUME NEW c \in Core, NEW x \in Ctx, CallRelease(c, x)
        PROVE  Promise!LockNext
    BY <2>3, CallReleaseLeaves DEF Promise!LockNext
  <2>4. ASSUME NEW c \in Core, NEW x \in Ctx, Acquire(c, x)
        PROVE  saved' = saved \/ Return(c, x)
    BY <2>4 DEF Acquire, ReadMask, DisableIrq, TestOwner, StoreDeeper, TakeLock, StoreFirst
  <2>5. ASSUME NEW c \in Core, NEW x \in Ctx, Release(c, x)
        PROVE  saved' = saved \/ CallRelease(c, x)
    BY <2>5 DEF Release, StoreDepth, DropLock, RestoreIrq
  <2>6. ASSUME NEW c \in Core, TakeIrq(c) \/ ReturnFromIrq(c) \/ SetIrq(c)
        PROVE  saved' = saved
    BY <2>6 DEF TakeIrq, ReturnFromIrq, SetIrq
  <2>7. CASE UNCHANGED vars
    BY <2>1, <2>7 DEF vars
  <2> QED BY <2>1, <2>2, <2>3, <2>4, <2>5, <2>6, <2>7 DEF Next
<1> QED BY <1>1, <1>2, Invariant, PTL DEF Spec, KeepsPromise, Promise!LockSpec
=============================================================================
