------------------------------ MODULE SdioWindow ------------------------------
(***************************************************************************)
(* The chip's memory as the Wi-Fi driver reaches it, to load the firmware  *)
(* and then to serve it (sdio.rs, wifi.rs): a window over the backplane,   *)
(* set by three one-byte commands and remembered by the driver; reads of   *)
(* four one-byte commands; and writes as data transfers, each phase waited *)
(* for in an interrupt register the controller sets bits of, and sent      *)
(* again after an error.                                                   *)
(* The controller with the card behind it is external.                     *)
(***************************************************************************)
EXTENDS Naturals, Sequences

CONSTANTS Script,     \* accesses, each a kind and the window it is in
          Loads,      \* how many of them are the load; the rest are made again and again
          Attempts,   \* times a block is sent before the write gives up (write_block: 4)
          Faults,     \* errors the card or the controller makes (bound)
          MayReload   \* a failed load is begun again on the same link

Window == [1..3 -> Nat]
Windows == {Script[k].at : k \in 1..Len(Script)}
Zero == <<0, 0, 0>>            \* the window at address 0, and window_base before any is set

VARIABLES at,       \* the access of Script under way
          stage,    \* where in it the driver is
          attempt,  \* times this block has been tried
          base,     \* window_base: the window the driver takes the chip to have
          chip,     \* the three bytes the chip has
          irq,      \* bits set in INTERRUPT
          phase,    \* what the controller does for the transfer
          faults,   \* errors so far
          landed,   \* window of the last access that was carried out, and the access
          wrote,    \* the writes of Script whose block is in the chip whole
          outcome   \* loading, running or failed

vars == <<at, stage, attempt, base, chip, irq, phase, faults, landed, wrote, outcome>>
busVars == <<chip, landed, wrote>>

Op == Script[at]
Bits == {"CmdDone", "WriteRdy", "DataDone", "Error"}

Init == /\ at = 1 /\ stage = "begin" /\ attempt = 1 /\ base = Zero /\ chip \in Windows
        /\ irq = {} /\ phase = "idle" /\ faults = 0 /\ landed = <<0, Zero>> /\ wrote = {}
        /\ outcome = "loading"

Busy == outcome # "failed"
Served == (Loads + 1)..Len(Script)
Fault == faults < Faults /\ faults' = faults + 1

\* What the constants are in the program: a load that is not begun twice on a link, and accesses
\* to the running chip, all of one register block, that share a window.
Sensible == /\ Script \in Seq([kind : {"read", "write"}, at : Window])
            /\ Loads \in 1..Len(Script) /\ Attempts \in Nat \ {0} /\ Faults \in Nat
            /\ MayReload = FALSE
            /\ \A j, k \in Served : Script[j].at = Script[k].at

\* ensure_window: the registers are written only for another window, and always for the one at 0.
EnsureWindow ==
  /\ Busy /\ stage = "begin"
  /\ stage' = (IF Op.at # base \/ base = Zero THEN "low" ELSE "access")
  /\ UNCHANGED <<at, attempt, base, irq, phase, faults, busVars, outcome>>

\* What an error in a window command or a data phase leads to: a write that was a data error is
\* sent again after a reset of the data circuit, anything else ends the load, or the call made
\* of a running chip.
GivesUp(dataError) ==
  IF dataError /\ Op.kind = "write" /\ attempt < Attempts
    THEN stage' = "begin" /\ attempt' = attempt + 1 /\ irq' = {} /\ phase' = "idle"
         /\ UNCHANGED <<at, outcome>>
  ELSE IF outcome = "loading"
    THEN outcome' = "failed" /\ UNCHANGED <<at, stage, attempt, irq, phase>>
    ELSE /\ at' \in Served /\ stage' = "begin" /\ attempt' = 1 /\ phase' = "idle"
         /\ UNCHANGED <<irq, outcome>>

\* set_backplane_window: a byte at a time; window_base moves once all three are there.
Place == [low |-> 1, mid |-> 2, high |-> 3]
After == [low |-> "mid", mid |-> "high", high |-> "access"]
SetByte ==
  /\ Busy /\ stage \in DOMAIN Place
  /\ chip' = [chip EXCEPT ![Place[stage]] = Op.at[Place[stage]]]
  /\ stage' = After[stage] /\ base' = (IF stage = "high" THEN Op.at ELSE base)
  /\ UNCHANGED <<at, attempt, irq, phase, faults, landed, wrote, outcome>>
\* The command fails, before or after the chip took the byte; as an error or as a timeout.
ByteFails ==
  /\ Busy /\ stage \in DOMAIN Place /\ Fault
  /\ chip' \in {chip, [chip EXCEPT ![Place[stage]] = Op.at[Place[stage]]]}
  /\ \E dataError \in BOOLEAN : GivesUp(dataError)
  /\ UNCHANGED <<base, landed, wrote>>

\* On to the load's next access, or to one that serves the running chip.
Finish == /\ at' \in (IF at < Loads THEN {at + 1} ELSE Served)
          /\ stage' = "begin" /\ attempt' = 1
          /\ outcome' = (IF at = Loads THEN "running" ELSE outcome)

\* backplane_read32: four commands, as one.
Read ==
  /\ Busy /\ stage = "access" /\ Op.kind = "read"
  /\ \/ landed' = <<at, chip>> /\ Finish /\ UNCHANGED <<irq, phase, faults>>
     \/ Fault /\ GivesUp(TRUE) /\ UNCHANGED landed
  /\ UNCHANGED <<base, chip, wrote>>

(* ------------------------ backplane_write_attempt ----------------------- *)

\* Stale bits are cleared, then the command goes out.
Issue ==
  /\ Busy /\ stage = "access" /\ Op.kind = "write"
  /\ irq' = {} /\ phase' = "command" /\ stage' = "CmdDone"
  /\ UNCHANGED <<at, attempt, base, faults, busVars, outcome>>

\* wait_data_int: an error bit ends the attempt; the bit awaited is cleared and no other.
Awaited == Busy /\ stage \in {"CmdDone", "WriteRdy", "DataDone"}
Phases == [CmdDone |-> "WriteRdy", WriteRdy |-> "DataDone"]
WaitDataInt ==
  /\ Awaited /\ "Error" \notin irq /\ stage \in irq /\ irq' = irq \ {stage}
  /\ IF stage = "DataDone" THEN Finish
                           ELSE stage' = Phases[stage] /\ UNCHANGED <<at, attempt, outcome>>
  /\ phase' = (IF stage = "WriteRdy" THEN "data" ELSE IF stage = "DataDone" THEN "idle" ELSE phase)
  /\ UNCHANGED <<base, faults, busVars>>
WaitFails ==
  /\ Awaited /\ "Error" \in irq /\ GivesUp(TRUE)
  /\ UNCHANGED <<base, faults, busVars>>

(* ---------------------------- the controller ---------------------------- *)

\* The command is done, and the card may be ready for data at the same moment.
Raise(b) == irq' = irq \cup b /\ UNCHANGED <<at, stage, attempt, base, faults, outcome>>
CommandDone == /\ phase = "command"
               /\ \/ Raise({"CmdDone"}) /\ phase' = "ready"
                  \/ Raise({"CmdDone", "WriteRdy"}) /\ phase' = "filling"
               /\ UNCHANGED busVars
CardReady == phase = "ready" /\ Raise({"WriteRdy"}) /\ phase' = "filling" /\ UNCHANGED busVars
\* The block reaches the chip, in the window the chip has.
BlockDone == /\ phase = "data" /\ Raise({"DataDone"}) /\ phase' = "done"
             /\ landed' = <<at, chip>> /\ wrote' = wrote \cup {at} /\ UNCHANGED chip
\* An error, with the block in the chip in part or not at all.
Errs == /\ phase \in {"command", "ready", "data"} /\ Fault
        /\ irq' = irq \cup {"Error"} /\ phase' = "done"
        /\ landed' = (IF phase = "data" THEN <<at, chip>> ELSE landed)
        /\ UNCHANGED <<at, stage, attempt, base, chip, wrote, outcome>>

\* The caller loads again, from the top, on the same link.
Reload == /\ MayReload /\ outcome = "failed" /\ at' = 1 /\ stage' = "begin" /\ attempt' = 1
          /\ phase' = "idle" /\ wrote' = {} /\ outcome' = "loading"
          /\ UNCHANGED <<base, chip, irq, faults, landed>>

Driver == EnsureWindow \/ SetByte \/ ByteFails \/ Read \/ Issue \/ WaitDataInt \/ WaitFails
Controller == CommandDone \/ CardReady \/ BlockDone
Next == Driver \/ Controller \/ Errs \/ Reload
Fairness == WF_vars(Driver) /\ WF_vars(Controller)
Spec == Init /\ [][Next]_vars /\ Fairness

(* ----------------------------- properties ------------------------------- *)

TypeOK == /\ at \in 1..Len(Script) /\ attempt \in 1..Attempts /\ irq \subseteq Bits
          /\ stage \in DOMAIN Place \cup {"begin", "access", "CmdDone", "WriteRdy", "DataDone"}
          /\ phase \in {"idle", "command", "ready", "filling", "data", "done"}
          /\ faults \in 0..Faults /\ outcome \in {"loading", "running", "failed"}

\* sdio.rs ensure_window: every read and every block that reaches the chip reaches the window
\* its access asked for, whatever command failed half-way through the window's change and
\* whatever was sent again.
LandsWhereAsked == landed[1] # 0 => landed[2] = Script[landed[1]].at

\* sdio.rs load_firmware: a load that says it is done left every block in the chip whole.
LoadedIsWhole == outcome = "running" => \A k \in 1..Loads : Script[k].kind = "write" => k \in wrote

\* sdio.rs wait_data_int: no bit is cleared that a later phase awaits, so a load always ends.
Loading == outcome = "loading"
LoadEnds == Loading ~> ~Loading
================================================================================
