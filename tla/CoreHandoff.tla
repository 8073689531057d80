------------------------------ MODULE CoreHandoff ------------------------------
(***************************************************************************)
(* Core 0 starts the secondary cores and then signals them (multicore.rs,  *)
(* secondary64.s, boot.s).  A core of the firmware's stub sleeps in wfe    *)
(* and looks, with its caches off, at the word that releases it; released, *)
(* it reads its stack and entry and runs; running, it waits for a flag as  *)
(* signal_event and wait_for_event ask.  What core 0 writes stays in its   *)
(* cache, or its store buffer, until it is cleaned, drained, or written    *)
(* back on its own.  The three hand-offs are the AArch32 mailboxes, the    *)
(* AArch64 spin-table and the BCM2712's PSCI call.                         *)
(***************************************************************************)
CONSTANTS Cores,      \* the secondary cores
          Nobody      \* no core

Hows == {"mailbox", "table", "psci"}

VARIABLES how,        \* how this build hands over: constant
          pc,         \* where core 0 is in launch or signal_event
          target,     \* the core being launched
          spawned,    \* cores launch was called for
          dirty,      \* what core 0 wrote that memory does not hold yet
          params,     \* cores whose stack and entry are in memory
          slot,       \* cores whose release word is in memory
          event,      \* cores whose event register is set
          at,         \* where each secondary core is
          entered,    \* cores that ran with the stack and entry meant for them
          flag        \* the flag as the other cores see it

vars == <<how, pc, target, spawned, dirty, params, slot, event, at, entered, flag>>
secVars == <<how, event, at, entered>>

Device == how = "mailbox"       \* the words are registers: no cache holds them back
Params(c) == <<"params", c>>
Slot(c) == <<"slot", c>>
Flag == <<"flag", Nobody>>

Init == /\ how \in Hows /\ pc = "idle" /\ target = Nobody /\ spawned = {} /\ dirty = {}
        /\ params = {} /\ slot = {} /\ event = {} /\ at = [c \in Cores |-> "stub"]
        /\ entered = {} /\ flag = FALSE

(* -------------------------------- core 0 -------------------------------- *)

\* A line reaches memory.
Reaches(l) == /\ params' = (IF l[1] = "params" THEN params \cup {l[2]} ELSE params)
              /\ slot' = (IF l[1] = "slot" THEN slot \cup {l[2]} ELSE slot)
              /\ flag' = (flag \/ l = Flag)
Memory == UNCHANGED <<params, slot, flag>>
Writes(l) == IF Device THEN Reaches(l) /\ UNCHANGED dirty ELSE dirty' = dirty \cup {l} /\ Memory

\* spawn takes its CoreN by value: each core once.  write_params.
Spawn == /\ pc = "idle"
         /\ \E c \in Cores \ spawned : /\ target' = c /\ spawned' = spawned \cup {c}
                                       /\ Writes(Params(c))
         /\ pc' = (IF Device THEN "slot" ELSE "clean") /\ UNCHANGED secVars

\* clean_range, whose trailing dsb completes it.
CleanLine(l) == Reaches(l) /\ dirty' = dirty \ {l}
CleanParams == /\ pc = "clean" /\ CleanLine(Params(target))
               /\ pc' = (IF how = "psci" THEN "call" ELSE "slot")
               /\ UNCHANGED <<target, spawned, secVars>>
WriteSlot == /\ pc = "slot" /\ Writes(Slot(target)) /\ pc' = (IF Device THEN "sev" ELSE "cleanSlot")
             /\ UNCHANGED <<target, spawned, secVars>>
CleanSlot == /\ pc = "cleanSlot" /\ CleanLine(Slot(target)) /\ pc' = "sev"
             /\ UNCHANGED <<target, spawned, secVars>>
\* CPU_ON: the firmware starts the core at the trampoline.
Call == /\ pc = "call" /\ pc' = "idle" /\ target' = Nobody
        /\ at' = [at EXCEPT ![target] = "released"]
        /\ UNCHANGED <<how, spawned, dirty, params, slot, event, entered, flag>>

\* A release store to the flag, then signal_event: dsb and sev.
Publish == /\ pc = "idle" /\ spawned = Cores /\ ~flag /\ Flag \notin dirty
           /\ dirty' = dirty \cup {Flag} /\ pc' = "dsb"
           /\ Memory /\ UNCHANGED <<target, spawned, secVars>>
Dsb == /\ pc = "dsb" /\ CleanLine(Flag) /\ pc' = "sev" /\ UNCHANGED <<target, spawned, secVars>>
Sev == /\ pc = "sev" /\ event' = Cores /\ pc' = "idle" /\ target' = Nobody
       /\ UNCHANGED <<how, spawned, dirty, params, slot, at, entered, flag>>

\* A line is written back, or a store drains, on its own.
WriteBack == /\ \E l \in dirty : CleanLine(l)
             /\ UNCHANGED <<pc, target, spawned, secVars>>

(* -------------------------- the secondary cores ------------------------- *)

Goes(c, to) == at' = [at EXCEPT ![c] = to]
FromSecond == UNCHANGED <<how, pc, target, spawned, dirty, params, slot, flag>>

\* wfe returns when the event register is set, and clears it.
Wakes(c, from, to) == /\ at[c] = from /\ c \in event /\ event' = event \ {c} /\ Goes(c, to)
                      /\ UNCHANGED entered /\ FromSecond
StubWakes(c) == how # "psci" /\ Wakes(c, "stub", "look")
Look(c) == /\ at[c] = "look" /\ Goes(c, IF c \in slot THEN "released" ELSE "stub")
           /\ UNCHANGED <<event, entered>> /\ FromSecond

\* __secondary_core_entry: stack and entry out of memory, then the caller's code.
Enter(c) == /\ at[c] = "released" /\ Goes(c, "check")
            /\ entered' = (IF c \in params THEN entered \cup {c} ELSE entered)
            /\ UNCHANGED event /\ FromSecond

\* while !flag { wait_for_event() }
Check(c) == /\ at[c] = "check" /\ Goes(c, IF flag THEN "served" ELSE "wait")
            /\ UNCHANGED <<event, entered>> /\ FromSecond
WaitReturns(c) == Wakes(c, "wait", "check")

\* An interrupt, a debug event, a reservation cleared: an event that means nothing.
Stray == /\ \E c \in Cores \ event : event' = event \cup {c}
         /\ UNCHANGED <<at, entered>> /\ FromSecond

Core0 == Spawn \/ CleanParams \/ WriteSlot \/ CleanSlot \/ Call \/ Publish \/ Dsb \/ Sev
Core(c) == StubWakes(c) \/ Look(c) \/ Enter(c) \/ Check(c) \/ WaitReturns(c)
Next == Core0 \/ WriteBack \/ Stray \/ \E c \in Cores : Core(c)
Fairness == WF_vars(Core0) /\ \A c \in Cores : WF_vars(Core(c))
Spec == Init /\ [][Next]_vars /\ Fairness

(* ----------------------------- properties ------------------------------- *)

TypeOK == /\ how \in Hows /\ pc \in {"idle", "clean", "slot", "cleanSlot", "call", "dsb", "sev"}
          /\ target \in Cores \cup {Nobody} /\ spawned \subseteq Cores /\ params \subseteq spawned
          /\ slot \subseteq spawned /\ event \subseteq Cores /\ entered \subseteq Cores
          /\ at \in [Cores -> {"stub", "look", "released", "check", "wait", "served"}]

\* multicore.rs launch: a core that runs has the stack and the entry meant for it, whatever order
\* lines are written back in and whatever woke it.
EntersOwn == \A c \in Cores : at[c] \in {"check", "wait", "served"} => c \in entered

\* multicore.rs launch, signal_event: every core launched runs, and none sleeps through the flag.
CoresArrive == \A c \in Cores : (c \in spawned) ~> (at[c] = "served")
================================================================================
