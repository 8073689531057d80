--------------------------- MODULE EthernetRunner ---------------------------
(***************************************************************************)
(* The USB Ethernet adapter (embassy/src/ethernet.rs EthernetRunner) over  *)
(* the chips' drivers (hal/src/usb, lan9514 and lan7800): the bring-up, the*)
(* receive loop on one host channel and the transmit loop on the other,    *)
(* between the chip and the two bounded queues the network stack holds the *)
(* other ends of.  A bulk IN carries several frames, each behind a header  *)
(* at a multiple of four bytes; Frames finds them by arithmetic.  A frame  *)
(* is its number, its length (CRC counted), and whether the chip marked it *)
(* as damaged.                                                             *)
(***************************************************************************)
EXTENDS Integers, Sequences

CONSTANTS Queue,     \* N_RX and N_TX
          Fifo,      \* frames the chip holds, and the most one transfer carries
          Lengths,   \* lengths of frames, above the CRC alone
          Frames,    \* frames that arrive (bound); the stack sends one more than its queue holds
          Faults     \* transfers that fail (bound)

VARIABLES part,      \* "Lan9514" or "Lan7800"
          stage,     \* of run: "Reset", "Enable", "Multicast", "Await", "Run", "Parked"
          chip,      \* the response to an empty FIFO (BIR), the receiver's enable, the PHY's link
          fifo,      \* frames the chip holds
          link,      \* what the stack was told of the link
          pending,   \* a bulk IN is in progress
          batch,     \* the transfer in the receive buffer: its frames, and the bytes it delivered
          offset,    \* of Frames: where the next header should be
          rxq, txq,  \* the stack's two queues
          arrived, sent, faults,
          due        \* the sound frames of that transfer, by number, the stack has not been given

vars == <<part, stage, chip, fifo, link, pending, batch, offset, rxq, txq, arrived, sent, faults, due>>

Header == IF part = "Lan9514" THEN 4 ELSE 10
Empty == [frames |-> <<>>, size |-> 0]
Aligned(n) == 4 * ((n + 3) \div 4)

Init == /\ part \in {"Lan9514", "Lan7800"} /\ stage = "Reset"
        /\ chip = [bir |-> FALSE, on |-> FALSE, link |-> FALSE]
        /\ fifo = <<>> /\ link = "Down" /\ pending = FALSE /\ batch = Empty /\ offset = 0
        /\ rxq = <<>> /\ txq = <<>> /\ arrived = 0 /\ sent = 0 /\ faults = 0 /\ due = {}

(* ---------------------------- the bring-up ------------------------------ *)

Fails == faults < Faults /\ faults' = faults + 1
Loops == UNCHANGED <<part, fifo, pending, batch, offset, rxq, txq, arrived, sent, due>>

\* start_async, up to the answer to an empty FIFO and after it.  The LAN7800 is reset first, and
\* its link with it.
Resets ==
  /\ stage = "Reset" /\ stage' = "Enable" /\ UNCHANGED <<link, faults>> /\ Loops
  /\ chip' = [chip EXCEPT !.bir = TRUE, !.link = @ /\ part = "Lan9514"]
Enables == /\ stage = "Enable" /\ chip' = [chip EXCEPT !.on = TRUE] /\ stage' = "Multicast"
           /\ UNCHANGED <<link, faults>> /\ Loops
\* A control transfer that fails ends the bring-up for good: run parks, the link is down.
StartFails == /\ stage \in {"Reset", "Enable"} /\ Fails /\ stage' = "Parked" /\ link' = "Down"
              /\ UNCHANGED chip /\ Loops
\* The multicast filter, which may fail and is gone on without.
Multicasts == /\ stage = "Multicast" /\ stage' = "Await" /\ (Fails \/ UNCHANGED faults)
              /\ UNCHANGED <<chip, link>> /\ Loops
\* is_link_up_async until it says so, fails, or LINK_WAIT_US is over; up is reported in each case.
ReportsUp == /\ stage = "Await" /\ (Fails \/ (chip.link /\ UNCHANGED faults))
             /\ stage' = "Run" /\ link' = "Up" /\ UNCHANGED chip /\ Loops
WaitEnds == /\ stage = "Await" /\ ~chip.link /\ stage' = "Run" /\ link' = "Up"
            /\ UNCHANGED <<chip, faults>> /\ Loops

(* ---------------------------- receive_forever --------------------------- *)

\* Where the chip puts the headers of a transfer's frames, and how many bytes it sends.
At(fs) == LET at[k \in 1..(Len(fs) + 1)] ==
                IF k = 1 THEN 0 ELSE Aligned(at[k - 1] + Header + fs[k - 1].len)
          IN at
Sound(fs) == {fs[k].n : k \in {j \in DOMAIN fs : ~fs[j].bad}}

Rest == UNCHANGED <<part, stage, chip, link, txq, arrived, sent>>

\* The last transfer has been drained: another is submitted.
Submit == /\ stage = "Run" /\ ~pending /\ offset >= batch.size /\ pending' = TRUE
          /\ batch' = Empty /\ offset' = 0 /\ UNCHANGED <<fifo, rxq, faults, due>> /\ Rest

\* It ends when there are frames; at once, with none, if the chip answers an empty FIFO.  The
\* last frame's padding may be left out.
Completes ==
  /\ pending /\ pending' = FALSE /\ UNCHANGED <<rxq, faults, offset>> /\ Rest
  /\ \/ /\ fifo = <<>> /\ ~chip.bir /\ UNCHANGED <<fifo, batch, due>>
     \/ \E n \in 1..Len(fifo) :
          LET fs == SubSeq(fifo, 1, n)
              end == At(fs)[n] + Header + fs[n].len IN
          /\ fifo' = SubSeq(fifo, n + 1, Len(fifo)) /\ due' = Sound(fs)
          /\ \E size \in {end, Aligned(end)} : batch' = [frames |-> fs, size |-> size]

\* It fails, and with it the frames it had begun to carry; it is asked again.
TransferFails ==
  /\ pending /\ Fails /\ pending' = FALSE
  /\ \E n \in 0..Len(fifo) : fifo' = SubSeq(fifo, n + 1, Len(fifo))
  /\ UNCHANGED <<batch, offset, rxq, due>> /\ Rest

\* Frames::next: the header at the offset, if the rest of the transfer holds one and its frame;
\* anything else ends the iteration.
Remaining == batch.size - offset
Headers == {k \in DOMAIN batch.frames : At(batch.frames)[k] = offset}
Plausible == /\ Remaining >= Header /\ Headers # {}
             /\ LET f == batch.frames[CHOOSE k \in Headers : TRUE] IN Header + f.len <= Remaining
This == batch.frames[CHOOSE k \in Headers : TRUE]
\* Where the next header should be: LAN9514 rounds up the end, LAN7800 pads frame plus two.
Padding(len) == (4 - ((len + 2) % 4)) % 4
NextOffset(len) == IF part = "Lan9514" THEN Aligned(offset + Header + len)
                   ELSE offset + Header + len + Padding(len)

Draining == stage = "Run" /\ ~pending /\ offset < batch.size
StopsAt == /\ Draining /\ ~Plausible /\ offset' = batch.size
           /\ UNCHANGED <<fifo, pending, batch, rxq, faults, due>> /\ Rest
SkipsBad == /\ Draining /\ Plausible /\ This.bad /\ offset' = NextOffset(This.len)
            /\ UNCHANGED <<fifo, pending, batch, rxq, faults, due>> /\ Rest
\* rx_buf parks the loop while the stack's queue is full.
Delivers ==
  /\ Draining /\ Plausible /\ ~This.bad /\ Len(rxq) < Queue
  /\ rxq' = Append(rxq, This.n) /\ offset' = NextOffset(This.len)
  /\ due' = due \ {This.n}
  /\ UNCHANGED <<fifo, pending, batch, faults>> /\ Rest

(* ---------------------------- transmit_forever -------------------------- *)

\* One frame: sent, or refused; its buffer is given back in both cases.
Transmits ==
  /\ stage = "Run" /\ txq # <<>> /\ txq' = Tail(txq) /\ (Fails \/ UNCHANGED faults)
  /\ UNCHANGED <<part, stage, chip, fifo, link, pending, batch, offset, rxq, arrived, sent, due>>

(* ------------------------- the stack and the chip ----------------------- *)

StackTakes == /\ rxq # <<>> /\ rxq' = Tail(rxq)
              /\ UNCHANGED <<part, stage, chip, fifo, link, pending, batch, offset, txq, arrived,
                             sent, faults, due>>
StackSends == /\ link = "Up" /\ sent <= Queue /\ Len(txq) < Queue
              /\ sent' = sent + 1 /\ txq' = Append(txq, sent')
              /\ UNCHANGED <<part, stage, chip, fifo, link, pending, batch, offset, rxq, arrived,
                             faults, due>>

\* With the receiver on and a link, a frame is kept while there is room.
Arrives ==
  /\ chip.on /\ chip.link /\ arrived < Frames /\ arrived' = arrived + 1
  /\ \E len \in Lengths, bad \in BOOLEAN :
       fifo' = IF Len(fifo) < Fifo
                 THEN Append(fifo, [n |-> arrived', len |-> len, bad |-> bad]) ELSE fifo
  /\ UNCHANGED <<part, stage, chip, link, pending, batch, offset, rxq, txq, sent, faults, due>>
Cable == /\ chip' = [chip EXCEPT !.link = ~@] /\ (chip.link => stage = "Run")
         /\ UNCHANGED <<part, stage, fifo, link, pending, batch, offset, rxq, txq, arrived, sent,
                        faults, due>>

BringUp == Resets \/ Enables \/ StartFails \/ Multicasts \/ ReportsUp \/ WaitEnds
Receive == Submit \/ Completes \/ TransferFails \/ StopsAt \/ SkipsBad \/ Delivers
Next == BringUp \/ Receive \/ Transmits \/ StackTakes \/ StackSends \/ Arrives \/ Cable
\* The interrupt ends each transfer, and the executor polls the joined loops.
Fairness == WF_vars(BringUp) /\ WF_vars(Receive) /\ WF_vars(Transmits)
Spec == Init /\ [][Next]_vars /\ Fairness

(* ----------------------------- properties ------------------------------- *)

TypeOK == /\ stage \in {"Reset", "Enable", "Multicast", "Await", "Run", "Parked"}
          /\ link \in {"Up", "Down"} /\ Len(fifo) <= Fifo /\ Len(rxq) <= Queue /\ Len(txq) <= Queue
          /\ arrived \in 0..Frames /\ sent \in 0..(Queue + 1) /\ faults \in 0..Faults
          /\ pending \in BOOLEAN /\ offset \in 0..(Aligned(batch.size) + Header + 16)

\* lan9514.rs, lan7800.rs Frames, ethernet.rs receive_forever: of a transfer that succeeded the
\* stack is given every sound frame once and in order, damaged ones between them
\* notwithstanding, before the buffer is used again.
Drained == (pending \/ offset >= batch.size) => due = {}
EachInTurn == [][Len(rxq') > Len(rxq) => rxq'[Len(rxq')] \in due /\ \A n \in due : rxq'[Len(rxq')] <= n]_vars

\* ethernet.rs run: the stack is told of a link, ever, only when the chip's receiver is on and a
\* receive on an idle network waits rather than return with nothing.
UpIsReady == (link = "Up" \/ pending) => chip.on /\ chip.bir

\* ethernet.rs run, transmit_forever: the bring-up ends, and then a queued frame leaves its
\* buffer, with the receive parked on a silent network or on a full queue, and after failures;
\* and while the stack's queue has room, a received frame goes into it.
Starting == stage \notin {"Run", "Parked"}
Queued == txq # <<>>
Owing == due # {} /\ Len(rxq) < Queue
Brought == Starting ~> ~Starting
Transmitted == Queued ~> ~Queued
Received == Owing ~> ~Owing
=============================================================================
