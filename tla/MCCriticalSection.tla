-------------------------- MODULE MCCriticalSection --------------------------
(***************************************************************************)
(* Two cores with the cross-core lock, and beside them the build without   *)
(* the multicore feature, one core and the IRQ mask alone, seven deep.     *)
(* build says which of the two a behaviour is of; the other stands still.  *)
(***************************************************************************)
EXTENDS CriticalSection

CONSTANTS c1, c2

VARIABLES build,
          s_owner, s_depth, s_masked, s_ctx, s_pc, s_was, s_tmp, s_saved, s_wanted

TwoCores == {c1, c2}

Single == INSTANCE CriticalSection WITH
            Core <- {c1}, MaxNest <- 7, Multicore <- FALSE,
            owner <- s_owner, depth <- s_depth, masked <- s_masked, ctx <- s_ctx, pc <- s_pc,
            was <- s_was, tmp <- s_tmp, saved <- s_saved, wanted <- s_wanted
singleVars == <<s_owner, s_depth, s_masked, s_ctx, s_pc, s_was, s_tmp, s_saved, s_wanted>>

MCInit == build \in {"multicore", "single"} /\ Init /\ Single!Init
MCNext == \/ build = "multicore" /\ Next /\ UNCHANGED <<build, singleVars>>
          \/ build = "single" /\ Single!Next /\ UNCHANGED <<build, vars>>

\* Fairness of CriticalSection, for behaviours of the multicore build.
MCFairness ==
  /\ \A c \in Core : /\ WF_vars(build = "multicore" /\ \E x \in Ctx : Inner(c, x))
                     /\ \A n \in 1..MaxNest : SF_vars(build = "multicore" /\ EndSection(c, n))
  /\ SF_vars(build = "multicore" /\ \E c \in Core, x \in Ctx : TakeLock(c, x))
MCSpec == MCInit /\ [][MCNext]_<<build, vars, singleVars>> /\ MCFairness

\* Without the feature the IRQ mask alone keeps a thread and its handler out of each other's
\* sections, is given back as it was, and is the same nested lock to the callers.
SingleBuild == [](Single!MutualExclusion /\ Single!MaskAsWanted) /\ Single!KeepsPromise
=============================================================================
