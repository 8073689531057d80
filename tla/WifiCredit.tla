----------------------------- MODULE WifiCredit ------------------------------
(***************************************************************************)
(* The transmit window between the Wi-Fi driver (hal/src/wifi.rs) and the   *)
(* chip's firmware: eight-bit sequence numbers, a ceiling that comes with   *)
(* every frame the driver reads, the guard against an implausible one, and  *)
(* commands, which take a number like any frame but ask for no credit.      *)
(* What the frames carry besides is WifiLink's.                             *)
(*                                                                         *)
(* The firmware is external: it grants what it has buffers for.  A frame in *)
(* its queue carries the ceiling of when it was queued, so a read finds any *)
(* from the last one read to the present one.                               *)
(***************************************************************************)
EXTENDS Naturals

CONSTANTS Mod,      \* sequence numbers (256)
          Far,      \* a window further ahead than this is taken for garbage (0x40)
          Buffers,  \* frames of the host's the chip has room for
          Excess    \* bound: frames beyond them that are modelled, and how stale a window is

VARIABLES seq,      \* tx_seq
          window,   \* tx_window
          paused,   \* fc_mask, its bit for data
          lag,      \* how far the last ceiling read is behind the chip's present one
          held,     \* frames that fill the chip's buffers
          astray,   \* history: a command has taken seq past the window, and no sane one came since
          overrun   \* history: the worst data did: "none", "astray" or "plain", to a chip without room

vars == <<seq, window, paused, lag, held, astray, overrun>>

\* wrapping_add and wrapping_sub.
Plus(a, b) == (a + b) % Mod
Ahead(a, b) == (a + Mod - b) % Mod

\* The sequence number the chip would take no longer, all sent being held or freed.
Ceiling == Plus(seq + Mod - held, Buffers)

Init == /\ seq = 0 /\ window = 0 /\ paused = FALSE
        /\ lag = Buffers /\ held = 0
        /\ astray = FALSE /\ overrun = "none"

Free == /\ held > 0 /\ lag < Buffers + Excess
        /\ held' = held - 1 /\ lag' = lag + 1
        /\ UNCHANGED <<seq, window, paused, astray, overrun>>

\* What data sent now does to the chip.
Worse == IF held < Buffers THEN overrun ELSE IF astray THEN (IF overrun = "plain" THEN overrun ELSE "astray") ELSE "plain"

\* Mutant: the pause is obeyed and the window is not.
SendUnpaused == /\ ~paused /\ held < Buffers + Excess
                /\ overrun' = Worse
                /\ seq' = Plus(seq, 1) /\ held' = held + 1
                /\ UNCHANGED <<window, paused, lag, astray>>

\* send_ethernet: refused (TxBusy) at the window or while paused.
Send == /\ seq # window /\ ~paused
        /\ held < Buffers + Excess
        /\ overrun' = Worse
        /\ seq' = Plus(seq, 1) /\ held' = held + 1
        /\ UNCHANGED <<window, paused, lag, astray>>

\* command: the next sequence number, with credit or without.
Command == /\ held < Buffers + Excess
           /\ astray' = (astray \/ seq = window)
           /\ seq' = Plus(seq, 1) /\ held' = held + 1
           /\ UNCHANGED <<window, paused, lag, overrun>>

\* read_frame: the header's window is adopted, or two more frames allowed when it is implausible.
ReadHeader == \E age \in 0..lag :
  /\ LET w == Plus(Ceiling, Mod - age)
     IN /\ window' = IF Ahead(w, seq) > Far THEN Plus(seq, 2) ELSE w
        /\ astray' = (Ahead(w, seq) > Far)
  /\ lag' = age
  /\ paused' \in BOOLEAN
  /\ UNCHANGED <<seq, held, overrun>>

Next == Free \/ Send \/ Command \/ ReadHeader
Spec == Init /\ [][Next]_vars

-----------------------------------------------------------------------------
TypeOK == /\ seq \in 0..Mod - 1 /\ window \in 0..Mod - 1 /\ paused \in BOOLEAN
          /\ held \in 0..Buffers + Excess /\ lag \in Nat
          /\ astray \in BOOLEAN /\ overrun \in {"none", "astray", "plain"}

\* Data never finds the chip without room, though the driver's window is as old as the last frame it
\* read and wraps at eight bits, unless a command has gone past the window since the last sane one.
WithinCredit == overrun # "plain"

\* send_ethernet's documentation: when the chip is out of credit, nothing is sent.
NeverOverruns == overrun = "none"
=============================================================================
