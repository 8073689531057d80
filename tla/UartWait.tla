------------------------------ MODULE UartWait ------------------------------
(***************************************************************************)
(* Reading and writing UART0 without spinning (hal/src/uart/asynch.rs, and *)
(* the FIFO and mask accessors of uart.rs): a future that waits for a byte *)
(* or for room, and the handler that masks and wakes.                      *)
(*                                                                         *)
(* One core and one Uart, borrowed by one call at a time.  A wait may be   *)
(* dropped while it is parked, and has no Drop of its own: its waker and   *)
(* its unmasked source stay behind.  A change of IMSC by the thread is a   *)
(* read and a write, with the handler in between if it comes.              *)
(***************************************************************************)
EXTENDS Naturals

CONSTANTS Depth,    \* of each FIFO
          Buffer    \* how much a call reads or writes at most

Dir == {"rx", "tx"}

VARIABLES fifo,     \* fifo[d]: bytes in the receive and in the transmit FIFO
          imsc,     \* the sources unmasked
          waker,    \* RX_WAKER and TX_WAKER: a waker is stored
          pc,       \* where the call is: "away", "test", "store", "read", "write", "again", "clear",
                    \* "cleared", "parked", "moves"
          dir,      \* what it waits for
          old,      \* IMSC as the thread read it
          woken,    \* the task is queued to be polled
          flushing  \* the call is flush, which waits and moves nothing

vars == <<fifo, imsc, waker, pc, dir, old, woken, flushing>>

\* byte_available, and the negation of tx_full.
Ready(d) == IF d = "rx" THEN fifo["rx"] > 0 ELSE fifo["tx"] < Depth

Init == /\ fifo = [d \in Dir |-> 0] /\ imsc = {} /\ waker = [d \in Dir |-> FALSE]
        /\ pc = "away" /\ dir = "rx" /\ old = {} /\ woken = FALSE /\ flushing = FALSE

ByteArrives == /\ fifo["rx"] < Depth
               /\ fifo' = [fifo EXCEPT !["rx"] = @ + 1]
               /\ UNCHANGED <<imsc, waker, pc, dir, old, woken, flushing>>

ByteLeaves == /\ fifo["tx"] > 0
              /\ fifo' = [fifo EXCEPT !["tx"] = @ - 1]
              /\ UNCHANGED <<imsc, waker, pc, dir, old, woken, flushing>>

\* MIS: both sources are levels.
Pending == {d \in imsc : Ready(d)}

\* on_irq: what fired is masked, and whoever waits for it is woken.
OnIrq == /\ Pending # {}
         /\ imsc' = imsc \ Pending
         /\ waker' = [d \in Dir |-> waker[d] /\ d \notin Pending]
         /\ woken' = (woken \/ \E d \in Pending : waker[d])
         /\ UNCHANGED <<fifo, pc, dir, old, flushing>>

-----------------------------------------------------------------------------
(* The call *)

\* read, write or flush of something.  Flush returns at once unless the FIFO is full.
Call(d) == /\ pc = "away"
           /\ dir' = d /\ pc' = "test"
           /\ flushing' \in (IF d = "tx" THEN BOOLEAN ELSE {FALSE})
           /\ UNCHANGED <<fifo, imsc, waker, old, woken>>

\* poll: from here to Ready or Pending the task is not polled by anything else.
Test == /\ pc = "test"
        /\ pc' = IF Ready(dir) THEN "moves" ELSE "store"
        /\ UNCHANGED <<fifo, imsc, waker, dir, old, woken, flushing>>

Store == /\ pc = "store"
         /\ waker' = [waker EXCEPT ![dir] = TRUE]
         /\ pc' = "read"
         /\ UNCHANGED <<fifo, imsc, dir, old, woken, flushing>>

\* enable_rx_irq, enable_tx_irq.
ReadMask == /\ pc = "read"
            /\ old' = imsc /\ pc' = "write"
            /\ UNCHANGED <<fifo, imsc, waker, dir, woken, flushing>>

\* Mutant: the other source is closed.
WriteMaskAlone == /\ pc = "write"
                  /\ imsc' = {} /\ old' = {}
                  /\ pc' = "again"
                  /\ UNCHANGED <<fifo, waker, dir, woken, flushing>>

WriteMask == /\ pc = "write"
             /\ imsc' = old \cup {dir} /\ old' = {}
             /\ pc' = "again"
             /\ UNCHANGED <<fifo, waker, dir, woken, flushing>>

\* The second test: Ready after disabling the source, or Pending.
Again == /\ pc = "again"
         /\ pc' = IF Ready(dir) THEN "clear" ELSE "parked"
         /\ UNCHANGED <<fifo, imsc, waker, dir, old, woken, flushing>>

\* disable_rx_irq, disable_tx_irq: a read and a write as well.  A source the handler masks in
\* between, left open by a dropped wait, is opened again.
ReadClear == /\ pc = "clear"
             /\ old' = imsc /\ pc' = "cleared"
             /\ UNCHANGED <<fifo, imsc, waker, dir, woken, flushing>>

WriteClear == /\ pc = "cleared"
              /\ imsc' = old \ {dir} /\ old' = {}
              /\ pc' = "moves"
              /\ UNCHANGED <<fifo, waker, dir, woken, flushing>>

\* The wait has ended: as many bytes as there are and as fit.  A flush tests again till there is
\* room, and then waits for the shifter.
Moves == /\ pc = "moves"
         /\ IF flushing
            THEN fifo' = fifo /\ pc' = IF Ready("tx") THEN "away" ELSE "test"
            ELSE \E n \in 1..Buffer :
                   /\ fifo' = [fifo EXCEPT ![dir] =
                                IF dir = "rx" THEN (IF n > @ THEN 0 ELSE @ - n)
                                              ELSE (IF @ + n > Depth THEN Depth ELSE @ + n)]
                   /\ pc' = "away"
         /\ flushing' = (flushing /\ pc' # "away")
         /\ UNCHANGED <<imsc, waker, dir, old, woken>>

\* The executor polls a woken task.  A waker left by a dropped wait wakes it too.
Poll == /\ woken /\ pc \in {"parked", "away"}
        /\ woken' = FALSE
        /\ pc' = IF pc = "parked" THEN "test" ELSE "away"
        /\ UNCHANGED <<fifo, imsc, waker, dir, old, flushing>>

Drop == /\ pc = "parked"
        /\ pc' = "away" /\ flushing' = FALSE
        /\ UNCHANGED <<fifo, imsc, waker, dir, old, woken>>

Thread == Test \/ Store \/ ReadMask \/ WriteMask \/ Again \/ ReadClear \/ WriteClear \/ Moves \/ Poll

Next == ByteArrives \/ ByteLeaves \/ OnIrq \/ (\E d \in Dir : Call(d)) \/ Thread \/ Drop

Fairness == WF_vars(OnIrq) /\ WF_vars(Thread) /\ WF_vars(ByteLeaves)

Spec == Init /\ [][Next]_vars
FairSpec == Spec /\ Fairness

-----------------------------------------------------------------------------
(* Properties *)

TypeOK == /\ fifo \in [Dir -> 0..Depth] /\ imsc \subseteq Dir /\ old \subseteq Dir
          /\ waker \in [Dir -> BOOLEAN] /\ dir \in Dir /\ woken \in BOOLEAN /\ flushing \in BOOLEAN
          /\ pc \in {"away", "test", "store", "read", "write", "again", "clear", "cleared", "parked", "moves"}

\* uart/asynch.rs: the byte that would end a wait is never waited on for ever.  A parked wait is
\* woken already, or its waker is stored and its source open, whatever earlier dropped waits
\* left in the registers and however the handler fell into its arming.
ParkedIsArmed == pc = "parked" => woken \/ (waker[dir] /\ dir \in imsc)

\* A read ends when a byte is there, and a write when there is room, or they are dropped.
Due == pc = "parked" /\ Ready(dir)
WaitEnds == Due ~> pc = "away"

\* uart/asynch.rs: the handler is not entered for ever.
LineFalls == (Pending # {}) ~> (Pending = {})
=============================================================================
