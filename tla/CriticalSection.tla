--------------------------- MODULE CriticalSection ---------------------------
(***************************************************************************)
(* hal/src/critical_section.rs: the implementation behind                  *)
(* critical_section::with, one action per machine step that touches state  *)
(* another context can see.  Each core runs a thread, and an interrupt     *)
(* handler that may preempt it wherever IRQ is unmasked; both enter and    *)
(* leave sections, nested as deep as they like (MaxNest bounds it here).   *)
(***************************************************************************)
EXTENDS Naturals, Sequences

CONSTANTS Core,       \* cores that are running
          NoOwner,    \* NO_OWNER: u32::MAX, not a core id
          MaxNest,    \* bound: sections one context is inside at once
          Multicore   \* the cargo feature: is the cross-core lock compiled in?

ASSUME CoreAssumption == /\ NoOwner \notin Core
                         /\ MaxNest \in Nat \ {0}
                         /\ Multicore \in BOOLEAN

\* Without the feature only one core may ever be running.
ASSUME SingleCoreAssumption == Multicore \/ \A c, d \in Core : c = d

Ctx == {"thread", "irq"}

VARIABLES owner,   \* OWNER
          depth,   \* DEPTH
          masked,  \* masked[c]: the I bit of core c's CPSR / PSTATE
          ctx,     \* ctx[c]: the context core c is executing
          pc,      \* pc[c][x]: where context x of core c is
          was,     \* was[c][x]: its local was_enabled
          tmp,     \* tmp[c]: the register DEPTH was loaded into
          saved,   \* saved[c][x]: the restore states its open sections hold
          wanted   \* wanted[c]: history: the mask the thread last asked for itself

vars == <<owner, depth, masked, ctx, pc, was, tmp, saved, wanted>>

Loc == {"out",                                      \* the caller's code, in a section or not
        "mask", "test", "deepen", "spin", "first",  \* inside acquire
        "store", "unlock", "restore"}               \* inside release

Init == /\ owner = NoOwner
        /\ depth = 0
        /\ masked = [c \in Core |-> TRUE]     \* a core starts with IRQ masked
        /\ ctx = [c \in Core |-> "thread"]
        /\ pc = [c \in Core |-> [x \in Ctx |-> "out"]]
        /\ was = [c \in Core |-> [x \in Ctx |-> FALSE]]
        /\ tmp = [c \in Core |-> 0]
        /\ saved = [c \in Core |-> [x \in Ctx |-> <<>>]]
        /\ wanted = [c \in Core |-> TRUE]

\* Core c executes context x, which is at `from', and goes to `to'.
Step(c, x, from, to) == /\ ctx[c] = x
                        /\ pc[c][x] = from
                        /\ pc' = [pc EXCEPT ![c][x] = to]

\* acquire returns was_enabled to the caller, release consumes it.
Return(c, x) == saved' = [saved EXCEPT ![c][x] = Append(@, was[c][x])]

-----------------------------------------------------------------------------
(* acquire *)

\* Mutant: the I bit is read after it was set.
ReadMaskLate(c, x) == /\ Len(saved[c][x]) < MaxNest
                      /\ Step(c, x, "out", "mask")
                      /\ was' = [was EXCEPT ![c][x] = FALSE]
                      /\ UNCHANGED <<owner, depth, masked, ctx, tmp, saved, wanted>>

ReadMask(c, x) == /\ Len(saved[c][x]) < MaxNest
                  /\ Step(c, x, "out", "mask")
                  /\ was' = [was EXCEPT ![c][x] = ~masked[c]]
                  /\ UNCHANGED <<owner, depth, masked, ctx, tmp, saved, wanted>>

\* Mutant: acquire forgets to mask.
DisableIrqForgotten(c, x) == /\ Step(c, x, "mask", IF Multicore THEN "test" ELSE "out")
                             /\ IF Multicore THEN UNCHANGED saved ELSE Return(c, x)
                             /\ UNCHANGED <<owner, depth, masked, ctx, was, tmp, wanted>>

DisableIrq(c, x) == /\ Step(c, x, "mask", IF Multicore THEN "test" ELSE "out")
                    /\ masked' = [masked EXCEPT ![c] = TRUE]
                    /\ IF Multicore THEN UNCHANGED saved ELSE Return(c, x)
                    /\ UNCHANGED <<owner, depth, ctx, was, tmp, wanted>>

\* OWNER.load, then DEPTH.load when it is this core.
TestOwner(c, x) == /\ Step(c, x, "test", IF owner = c THEN "deepen" ELSE "spin")
                   /\ tmp' = IF owner = c THEN [tmp EXCEPT ![c] = depth + 1] ELSE tmp
                   /\ UNCHANGED <<owner, depth, masked, ctx, was, saved, wanted>>

StoreDeeper(c, x) == /\ Step(c, x, "deepen", "out")
                     /\ depth' = tmp[c]
                     /\ Return(c, x)
                     /\ UNCHANGED <<owner, masked, ctx, was, tmp, wanted>>

\* Mutant: a store in place of the exchange.
TakeLockBlindly(c, x) == /\ Step(c, x, "spin", "first")
                         /\ owner' = c
                         /\ UNCHANGED <<depth, masked, ctx, was, tmp, saved, wanted>>

\* The exchange that succeeds.  One that fails, because the lock is held or
\* because compare_exchange_weak may fail for no reason, changes nothing.
TakeLock(c, x) == /\ owner = NoOwner
                  /\ Step(c, x, "spin", "first")
                  /\ owner' = c
                  /\ UNCHANGED <<depth, masked, ctx, was, tmp, saved, wanted>>

\* Mutant: the first section leaves DEPTH as the last owner left it.
StoreFirstForgotten(c, x) == /\ Step(c, x, "first", "out")
                             /\ Return(c, x)
                             /\ UNCHANGED <<owner, depth, masked, ctx, was, tmp, wanted>>

StoreFirst(c, x) == /\ Step(c, x, "first", "out")
                    /\ depth' = 1
                    /\ Return(c, x)
                    /\ UNCHANGED <<owner, masked, ctx, was, tmp, wanted>>

-----------------------------------------------------------------------------
(* release *)

\* The caller hands back its innermost restore state; DEPTH.load.
CallRelease(c, x) == /\ saved[c][x] # <<>>
                     /\ Step(c, x, "out", IF Multicore THEN "store" ELSE "restore")
                     /\ was' = [was EXCEPT ![c][x] = saved[c][x][Len(saved[c][x])]]
                     /\ saved' = [saved EXCEPT ![c][x] = SubSeq(@, 1, Len(@) - 1)]
                     /\ tmp' = IF Multicore THEN [tmp EXCEPT ![c] = depth - 1] ELSE tmp
                     /\ UNCHANGED <<owner, depth, masked, ctx, wanted>>

\* Mutant: the lock is given up one level too early.
StoreDepthEarly(c, x) == /\ Step(c, x, "store", IF tmp[c] <= 1 THEN "unlock" ELSE "restore")
                         /\ depth' = tmp[c]
                         /\ UNCHANGED <<owner, masked, ctx, was, tmp, saved, wanted>>

\* Mutant: the lock is never given up.
StoreDepthOnly(c, x) == /\ Step(c, x, "store", "restore")
                        /\ depth' = tmp[c]
                        /\ UNCHANGED <<owner, masked, ctx, was, tmp, saved, wanted>>

StoreDepth(c, x) == /\ Step(c, x, "store", IF tmp[c] = 0 THEN "unlock" ELSE "restore")
                    /\ depth' = tmp[c]
                    /\ UNCHANGED <<owner, masked, ctx, was, tmp, saved, wanted>>

DropLock(c, x) == /\ Step(c, x, "unlock", "restore")
                  /\ owner' = NoOwner
                  /\ UNCHANGED <<depth, masked, ctx, was, tmp, saved, wanted>>

RestoreIrq(c, x) == /\ Step(c, x, "restore", "out")
                    /\ masked' = [masked EXCEPT ![c] = @ /\ ~was[c][x]]
                    /\ UNCHANGED <<owner, depth, ctx, was, tmp, saved, wanted>>

-----------------------------------------------------------------------------
(* The core and the program around the sections *)

\* Exception entry masks IRQ; the return restores the interrupted, unmasked state.
TakeIrq(c) == /\ ctx[c] = "thread"
              /\ ~masked[c]
              /\ ctx' = [ctx EXCEPT ![c] = "irq"]
              /\ masked' = [masked EXCEPT ![c] = TRUE]
              /\ UNCHANGED <<owner, depth, pc, was, tmp, saved, wanted>>

ReturnFromIrq(c) == /\ ctx[c] = "irq"
                    /\ pc[c]["irq"] = "out"
                    /\ saved[c]["irq"] = <<>>
                    /\ ctx' = [ctx EXCEPT ![c] = "thread"]
                    /\ masked' = [masked EXCEPT ![c] = FALSE]
                    /\ UNCHANGED <<owner, depth, pc, was, tmp, saved, wanted>>

\* The thread calls irq::enable_irq or irq::disable_irq, outside any section.
SetIrq(c) == /\ ctx[c] = "thread"
             /\ pc[c]["thread"] = "out"
             /\ saved[c]["thread"] = <<>>
             /\ wanted' = [wanted EXCEPT ![c] = ~@]
             /\ masked' = [masked EXCEPT ![c] = ~wanted[c]]
             /\ UNCHANGED <<owner, depth, ctx, pc, was, tmp, saved>>

Acquire(c, x) == \/ ReadMask(c, x) \/ DisableIrq(c, x) \/ TestOwner(c, x)
                 \/ StoreDeeper(c, x) \/ TakeLock(c, x) \/ StoreFirst(c, x)

Release(c, x) == \/ CallRelease(c, x) \/ StoreDepth(c, x)
                 \/ DropLock(c, x) \/ RestoreIrq(c, x)

Next == \E c \in Core : \/ \E x \in Ctx : Acquire(c, x) \/ Release(c, x)
                        \/ TakeIrq(c) \/ ReturnFromIrq(c) \/ SetIrq(c)

\* A core keeps executing acquire and release, and every section a context has
\* entered ends; no core has to ask for one, and no interrupt has to arrive or end.
\* compare_exchange_weak promises no waiting core its turn, only that some waiting
\* core's exchange goes through in the end.
Inner(c, x) == \/ DisableIrq(c, x) \/ TestOwner(c, x) \/ StoreDeeper(c, x) \/ StoreFirst(c, x)
               \/ StoreDepth(c, x) \/ DropLock(c, x) \/ RestoreIrq(c, x)

EndSection(c, n) == \E x \in Ctx : Len(saved[c][x]) = n /\ CallRelease(c, x)

Fairness ==
    /\ \A c \in Core : /\ WF_vars(\E x \in Ctx : Inner(c, x))
                       /\ \A n \in 1..MaxNest : SF_vars(EndSection(c, n))
    /\ SF_vars(\E c \in Core, x \in Ctx : TakeLock(c, x))

Spec == Init /\ [][Next]_vars
FairSpec == Spec /\ Fairness

-----------------------------------------------------------------------------
(* Properties *)

\* Type invariant.
TypeOK == /\ owner \in Core \cup {NoOwner}
          /\ depth \in Nat
          /\ masked \in [Core -> BOOLEAN]
          /\ ctx \in [Core -> Ctx]
          /\ pc \in [Core -> [Ctx -> Loc]]
          /\ was \in [Core -> [Ctx -> BOOLEAN]]
          /\ tmp \in [Core -> Nat]
          /\ saved \in [Core -> [Ctx -> Seq(BOOLEAN)]]
          /\ wanted \in [Core -> BOOLEAN]

\* Context x of core c is inside a section: acquire has returned more often than
\* release has been called.
Inside(c, x) == saved[c][x] # <<>>

\* "A real cross-core lock on top" of the IRQ mask (critical_section.rs:5-9): two
\* contexts, of two cores or of one, are never inside sections together.
MutualExclusion == \A c, d \in Core, x, y \in Ctx :
                     Inside(c, x) /\ Inside(d, y) => c = d /\ x = y

\* A core inside a section runs with IRQ masked and stays in the context that
\* entered: no inner release re-enables IRQ under the outer one (:53-56, :106-108).
MaskedInside == \A c \in Core, x \in Ctx : Inside(c, x) => masked[c] /\ ctx[c] = x

\* "A plain flag ... spun forever waiting for itself" (:35-37): a core never waits
\* for a lock that it owns, be it through nesting or from its interrupt handler.
NeverWaitsForItself == \A c \in Core, x \in Ctx : pc[c][x] = "spin" => owner # c

\* Whatever sections and handlers ran in between, a thread outside any section
\* finds IRQ exactly as it last set it itself (:53-56, :118-120).
MaskAsWanted == \A c \in Core :
                  /\ ctx[c] = "thread"
                  /\ pc[c]["thread"] = "out"
                  /\ ~Inside(c, "thread")
                  => (masked[c] <=> wanted[c])

\* Waiting cores are not left behind a lock nobody gives back: as long as some core
\* waits, some waiting core gets the lock (:75-78).
Progress == (\E c \in Core, x \in Ctx : pc[c][x] = "spin")
              ~> (\E c \in Core, x \in Ctx : pc[c][x] = "first")

-----------------------------------------------------------------------------
(* The promise of the critical-section crate *)

Levels == [p \in Core \X Ctx |-> Len(saved[p[1]][p[2]])]

Promise == INSTANCE NestedLock WITH Context <- Core \X Ctx, level <- Levels

\* Returning from acquire is the promise's Enter, calling release is its Leave, and
\* every other step is invisible to a caller.
KeepsPromise == Promise!LockSpec
=============================================================================
