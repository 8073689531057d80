----------------------------- MODULE NestedLock -----------------------------
(***************************************************************************)
(* What the critical-section crate promises its callers: one context at a  *)
(* time is inside, and that context may enter again before it leaves.      *)
(***************************************************************************)
EXTENDS Naturals

CONSTANTS Context  \* whatever can ask for the section: a core's thread, a core's IRQ handler

VARIABLES level    \* level[p]: how many sections context p is inside

LockInit == level = [p \in Context |-> 0]

Enter(p) == /\ \A q \in Context \ {p} : level[q] = 0
            /\ level' = [level EXCEPT ![p] = @ + 1]

Leave(p) == /\ level[p] > 0
            /\ level' = [level EXCEPT ![p] = @ - 1]

LockNext == \E p \in Context : Enter(p) \/ Leave(p)

LockSpec == LockInit /\ [][LockNext]_level
=============================================================================
