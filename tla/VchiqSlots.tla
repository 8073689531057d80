------------------------------ MODULE VchiqSlots -----------------------------
(***************************************************************************)
(* The stream of messages to the VideoCore (hal/src/vchiq.rs): slots of a   *)
(* ring written front to back, no message across two of them, padding where *)
(* one does not fit, and a queue that says which slot comes next and which  *)
(* the firmware has given back.  The firmware is external: it reads what    *)
(* the published position covers and recycles a slot once it has read it    *)
(* all, in any order.                                                       *)
(***************************************************************************)
EXTENDS Naturals

CONSTANTS Slots,     \* slots this side writes (31)
          SlotSize,  \* units of a slot (4096 bytes)
          Sizes,     \* lengths of messages
          Window,    \* entries of the slot queue (64)
          Width,     \* positions before they wrap (2^32 bytes)
          Count,     \* the recycle counter before it wraps (2^32)
          MayWrap    \* whether positions are let wrap

\* As in the code, Slots <= Window, and Width and Count are multiples of Window's.

VARIABLES step,      \* "idle", "reserve", "fill", "publish"
          len,       \* the message being queued
          tx, data, room,             \* local_tx_pos, the slot tx_data is in, slot_queue_available
          tag,       \* history: number of messages sent, from a small range
          mem,       \* what a slot's unit begins with: [kind, len, tag]
          queue, recycled, published, \* slot_queue, slot_queue_recycle, tx_pos in slot zero
          rx, expect,                 \* the firmware's position, and the message it should find
          owned,     \* slots that hold what the firmware has not read, or not given back
          full,      \* of them those read to their end
          broken     \* history: the firmware found something else, or a slot of its own was written

sender == <<step, len, tx, data, room>>
shared == <<mem, queue, recycled, published>>
firmware == <<rx, expect, full>>
vars == <<sender, tag, shared, firmware, owned, broken>>

Slot == 1..Slots
Pad == [kind |-> "pad", len |-> 0, tag |-> 0]
Offset(p) == p % SlotSize
Index(p) == (p \div SlotSize) % Window
NextTag(t) == (t + 1) % 3

\* init_slot_zero: the write queue starts as every slot in order.
Init == /\ step = "idle" /\ len = 1 /\ tx = 0 /\ data = 1 /\ room = 0 /\ tag = 0
        /\ mem = [s \in Slot |-> [o \in 0..SlotSize - 1 |-> Pad]]
        /\ queue = [i \in 0..Window - 1 |-> IF i < Slots THEN i + 1 ELSE 1]
        /\ recycled = Slots /\ published = 0
        /\ rx = 0 /\ expect = 0 /\ full = {} /\ owned = {} /\ broken = FALSE

-----------------------------------------------------------------------------
(* This side *)

\* poll: slots the firmware has finished with become writable.
Poll == /\ step = "idle" /\ room' = recycled
        /\ UNCHANGED <<step, len, tx, data, tag, shared, firmware, owned, broken>>

\* queue_message, for a caller that sends or tries again.
Send == /\ step = "idle" /\ step' = "reserve"
        /\ len' \in Sizes
        /\ UNCHANGED <<tx, data, room, tag, shared, firmware, owned, broken>>

Left(p) == SlotSize - Offset(p)
Padded == IF len > Left(tx) THEN (tx + Left(tx)) % Width ELSE tx
\* Mutant: room is looked for where the padding would begin.
NoRoomStale == Offset(tx) = 0 /\ tx \div SlotSize = room

NoRoom == Offset(Padded) = 0 /\ Padded \div SlotSize = room

PadOut == IF len > Left(tx) THEN [mem EXCEPT ![data][Offset(tx)] = [Pad EXCEPT !.len = Left(tx)]] ELSE mem

\* reserve_space, nothing free: what is written is published, the caller told to poll and retry;
\* padding is written and not yet counted.
OutOfSlots == /\ step = "reserve" /\ NoRoom
              /\ mem' = PadOut /\ published' = tx /\ step' = "idle"
              /\ UNCHANGED <<len, tx, data, room, tag, queue, recycled, firmware, owned, broken>>

\* reserve_space: the rest of a slot too short is padded out, and the next slot of the queue begun.
Reserve == /\ step = "reserve" /\ ~NoRoom
           /\ MayWrap \/ tx + 2 * SlotSize < Width
           /\ mem' = PadOut
           /\ LET fresh == Offset(Padded) = 0
              IN /\ data' = IF fresh THEN queue[Index(Padded)] ELSE data
                 /\ broken' = (broken \/ (fresh /\ data' \in owned))
                 /\ owned' = owned \cup {data'}
           /\ tx' = (Padded + len) % Width
           /\ step' = "fill"
           /\ UNCHANGED <<len, room, tag, queue, recycled, published, firmware>>

Start == (tx + Width - len) % Width

\* queue_message: the message complete in memory before the position that advertises it.
Fill == /\ step = "fill" /\ step' = "publish"
        /\ mem' = [mem EXCEPT ![data][Offset(Start)] = [kind |-> "message", len |-> len, tag |-> tag]]
        /\ tag' = NextTag(tag)
        /\ UNCHANGED <<len, tx, data, room, queue, recycled, published, firmware, owned, broken>>

Publish == /\ step = "publish" /\ step' = "idle" /\ published' = tx
           /\ UNCHANGED <<len, tx, data, room, tag, mem, queue, recycled, firmware, owned, broken>>

-----------------------------------------------------------------------------
(* The firmware *)

Read == /\ rx # published
        /\ LET s == queue[Index(rx)]
               m == mem[s][Offset(rx)]
               end == (rx + m.len) % Width
           IN /\ m.len > 0
              /\ rx' = end
              /\ expect' = IF m.kind = "message" THEN NextTag(expect) ELSE expect
              /\ broken' = (broken \/ (m.kind = "message" /\ m.tag # expect))
              /\ full' = IF Offset(end) = 0 THEN full \cup {s} ELSE full
        /\ UNCHANGED <<sender, tag, shared, owned>>

Recycle == /\ \E s \in full : /\ queue' = [queue EXCEPT ![recycled % Window] = s]
                              /\ full' = full \ {s} /\ owned' = owned \ {s}
           /\ recycled' = (recycled + 1) % Count
           /\ UNCHANGED <<sender, tag, mem, published, rx, expect, broken>>

Next == Poll \/ Send \/ OutOfSlots \/ Reserve \/ Fill \/ Publish \/ Read \/ Recycle
Spec == Init /\ [][Next]_vars

-----------------------------------------------------------------------------
(* Properties *)

TypeOK == /\ step \in {"idle", "reserve", "fill", "publish"} /\ len \in Sizes
          /\ {tx, published, rx} \subseteq 0..Width - 1 /\ data \in Slot /\ {room, recycled} \subseteq 0..Count - 1
          /\ queue \in [0..Window - 1 -> Slot] /\ full \subseteq owned /\ owned \subseteq Slot
          /\ mem \in [Slot -> [0..SlotSize - 1 -> [kind: {"pad", "message"}, len: 0..SlotSize, tag: 0..2]]]

\* The firmware finds every message, in order and whole, across slots, padding and full rings, and
\* no slot is written again before it was given back.
Delivered == ~broken

\* What is published can always be read: the firmware is never left in front of a header nobody wrote.
ReadsOn == rx # published => mem[queue[Index(rx)]][Offset(rx)].len > 0
=============================================================================
