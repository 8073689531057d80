------------------------------- MODULE SplitPoll -------------------------------
(***************************************************************************)
(* A poll of an interrupt endpoint behind a high-speed hub (dwc2.rs):      *)
(* Channel::interrupt_in, run_transaction packet by packet, and the start- *)
(* and complete-splits of run_periodic_split_packet, kept to microframes.  *)
(* The hub's transaction translator and the device are external: the       *)
(* translator runs the packet some microframes after it took the start-    *)
(* split, keeps what came for a while and then drops it, and a device      *)
(* whose packet the translator took has moved on to its other data toggle. *)
(***************************************************************************)
EXTENDS Naturals

CONSTANTS Packets,    \* packets of the buffer polled into (transfer_size over max_packet_size)
          Slowest,    \* microframes after the start-split by which the translator has a result
          Keeps,      \* microframes after the start-split for which it keeps one
          Reports,    \* reports the device makes (bound)
          MayUpset    \* once, the processor is away over a microframe or a complete-split fails

VARIABLES frame,      \* the microframe counter, HFNUM.FRNUM & 7
          step,       \* idle, or the split the poll waits to send
          next,       \* the microframe it waits for
          tries,      \* complete-splits it may still repeat
          moved,      \* packets received in this transfer
          pid,        \* the data PID it expects
          toggle,     \* the endpoint's toggle, kept by the driver between polls
          result,     \* what the last poll returned
          tt, age,    \* the translator's buffer and the microframes since it took a start-split
          devToggle,  \* the toggle of the device's next packet
          left,       \* reports it has still to make
          ready,      \* a report waits in the device
          taken,      \* packets of the device the translator took
          handed,     \* packets handed to the caller
          dropped,    \* the translator let go of a packet nobody fetched
          upset       \* that has happened

vars == <<frame, step, next, tries, moved, pid, toggle, result, tt, age, devToggle, left, ready,
          taken, handed, dropped, upset>>
tVars == <<tt, age, devToggle, ready, taken, dropped>>
devVars == <<left, devToggle, ready, taken>>

Micro(f) == f % 8
\* The next microframe, passing over 6.
Scheduled == IF Micro(frame + 1) = 6 THEN 7 ELSE Micro(frame + 1)

Init == /\ frame = 0 /\ step = "idle" /\ next = 0 /\ tries = 0 /\ moved = 0
        /\ pid = FALSE /\ toggle = FALSE /\ result = "Nak"
        /\ tt = "empty" /\ age = 0 /\ devToggle = FALSE /\ left = Reports /\ ready = FALSE
        /\ taken = 0 /\ handed = 0 /\ dropped = FALSE /\ upset = FALSE

(* ------------------------------- the host ------------------------------- *)

Due == step # "idle" /\ frame = next

\* interrupt_in: run_transaction from the endpoint's toggle.
Poll ==
  /\ step = "idle" /\ step' = "start" /\ next' = Scheduled
  /\ moved' = 0 /\ pid' = toggle
  /\ UNCHANGED <<frame, tries, toggle, result, tVars, left, handed, upset>>

\* The poll returns: an error or a NAK leaves the toggle, whatever packets came before it.
Ends(r) == step' = "idle" /\ result' = r /\ UNCHANGED <<next, tries, moved, pid, toggle, handed>>

\* The start-split, in the microframe it was scheduled for.
StartSplit ==
  /\ Due /\ step = "start"
  /\ \/ /\ tt = "empty" /\ tt' = "running" /\ age' = 0
        /\ step' = "complete" /\ next' = Micro(next + 2)
        /\ tries' = (IF next # 5 THEN 3 ELSE 2)
        /\ UNCHANGED <<moved, pid, toggle, result, handed>>
     \/ Ends("Error") /\ UNCHANGED <<tt, age>>
  /\ UNCHANGED <<frame, devVars, dropped, upset>>

\* A complete-split finds nothing yet: again in the next microframe, until the tries are spent.
NotYet ==
  /\ Due /\ step = "complete" /\ tt \in {"running", "empty"}
  /\ IF tries = 0 THEN Ends("Nak")
     ELSE /\ tries' = tries - 1 /\ next' = Micro(next + 1)
          /\ UNCHANGED <<step, moved, pid, toggle, result, handed>>
  /\ UNCHANGED <<frame, tVars, left, upset>>

\* It finds the device had nothing to send, or a packet of the other toggle; or it fails, or the
\* channel never halts and is made to.
Fetch == Due /\ step = "complete" /\ tt' = "empty"
Nothing == /\ Fetch /\ tt = "nak" /\ Ends("Nak")
           /\ UNCHANGED <<frame, age, devVars, dropped, upset>>
Mismatch == /\ Fetch /\ tt \in {"full", "short"} /\ pid = devToggle /\ Ends("Error")
            /\ UNCHANGED <<frame, age, devVars, dropped, upset>>

Fails == /\ Due /\ step = "complete" /\ MayUpset /\ ~upset /\ upset' = TRUE /\ Ends("Error")
         /\ UNCHANGED <<frame, tVars, left>>

\* It finds a packet: done when it is short or the buffer is full, else the next start-split.
\* The toggle flips once for the transfer.
Last == tt = "short" \/ moved + 1 = Packets
Received ==
  /\ Fetch /\ tt \in {"full", "short"} /\ pid # devToggle
  /\ moved' = moved + 1 /\ pid' = ~pid /\ UNCHANGED tries
  /\ IF Last THEN /\ step' = "idle" /\ result' = "Ok" /\ toggle' = ~toggle
                  /\ handed' = handed + moved' /\ UNCHANGED next
             ELSE /\ step' = "start" /\ next' = Scheduled /\ UNCHANGED <<result, toggle, handed>>
  /\ UNCHANGED <<frame, age, devVars, dropped, upset>>

(* ------------------- the translator, the device and time ---------------- *)

\* The translator runs the packet: the device sends one and moves on, or has nothing.
Downstream ==
  /\ tt = "running"
  /\ IF ready THEN /\ tt' \in {"full", "short"} /\ devToggle' = ~devToggle /\ ready' = FALSE
                   /\ taken' = taken + 1
              ELSE tt' = "nak" /\ UNCHANGED <<devToggle, ready, taken>>
  /\ UNCHANGED <<frame, step, next, tries, moved, pid, toggle, result, age, left, handed, dropped,
                 upset>>

Report == /\ ~ready /\ left > 0 /\ ready' = TRUE /\ left' = left - 1
          /\ UNCHANGED <<frame, step, next, tries, moved, pid, toggle, result, tt, age, devToggle,
                         taken, handed, dropped, upset>>

\* A microframe goes by: not past the one the poll waits for, unless the processor is away, and
\* not past the slowest translator; a result nobody fetched in time is dropped.
Microframe ==
  /\ tt = "running" => age < Slowest
  /\ Due => MayUpset /\ ~upset
  /\ upset' = (upset \/ Due) /\ frame' = Micro(frame + 1)
  /\ IF tt # "empty" /\ age = Keeps
       THEN tt' = "empty" /\ age' = 0 /\ dropped' = (dropped \/ tt \in {"full", "short"})
       ELSE age' = (IF tt = "empty" THEN 0 ELSE age + 1) /\ UNCHANGED <<tt, dropped>>
  /\ UNCHANGED <<step, next, tries, moved, pid, toggle, result, devVars, handed>>

Channel == StartSplit \/ NotYet \/ Nothing \/ Mismatch \/ Received
Host == Poll \/ Channel \/ Fails
Next == Host \/ Downstream \/ Report \/ Microframe
Fairness == WF_vars(Channel) /\ WF_vars(Downstream) /\ WF_vars(Microframe)
Spec == Init /\ [][Next]_vars /\ Fairness

(* ----------------------------- properties ------------------------------- *)

TypeOK == /\ frame \in 0..7 /\ next \in 0..7 /\ tries \in 0..3 /\ moved \in 0..Packets
          /\ step \in {"idle", "start", "complete"} /\ result \in {"Ok", "Nak", "Error"}
          /\ tt \in {"empty", "running", "full", "short", "nak"} /\ age \in 0..Keeps
          /\ taken \in 0..Reports /\ handed \in 0..taken /\ left \in 0..Reports

\* dwc2.rs run_periodic_split_packet: a translator that has its result in time never drops a
\* packet of the device, whichever microframe the poll began in, unless the processor was
\* away or a complete-split failed.
InItsWindow == dropped => upset

\* dwc2.rs interrupt_in: between polls the driver's toggle is the device's and every packet the
\* translator took was handed over, one it still holds aside, unless one was dropped or an
\* endpoint is polled into a buffer of several packets.
TogglesAgree == (step = "idle" /\ ~dropped /\ tt \notin {"full", "short"})
                  => (toggle = devToggle /\ handed = taken)

\* dwc2.rs wait_for_microframe: every poll ends.
PollEnds == (step # "idle") ~> (step = "idle")
================================================================================
