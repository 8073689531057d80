------------------------------ MODULE WifiLink -------------------------------
(***************************************************************************)
(* The receive path and the commands of the Wi-Fi driver                    *)
(* (hal/src/wifi.rs) above its bus: frames are read until the chip's queue  *)
(* is empty, a superframe holds several packets, and a command's answer     *)
(* comes among data and events, late or not at all.  One caller at a time:  *)
(* every method takes &mut Wifi.  Sequence and window are WifiCredit's.     *)
(*                                                                         *)
(* The firmware is external.  It raises its interrupt only when its queue   *)
(* stops being empty (recv_frame's documentation) and answers in order.     *)
(***************************************************************************)
EXTENDS Naturals, Sequences, FiniteSets, SequencesExt

CONSTANTS Ids,      \* request identifiers (65536)
          MaxFifo   \* bound: frames queued towards the host

VARIABLES op,       \* the method being run: "idle", "recv", "event", "command"
          seen,     \* frame_ready has read the interrupt and not yet cleared it
          reqId, draining,       \* req_id, rx_draining
          glom,     \* packets left of the superframe in the receive buffer
          fifo,     \* frames the chip has queued
          ready,    \* the chip's frame-ready interrupt
          owed,     \* commands the chip has still to answer, in order
          handed,   \* history: parity of the packets handed out
          answered, \* history: "late" when a command took another one's answer
          resynced  \* history: the stream has been put back in step

host == <<op, seen, reqId, draining, glom>>
chip == <<fifo, ready, owed>>
history == <<handed, answered, resynced>>
vars == <<host, chip, history>>

Request == [id: 0..Ids - 1, late: BOOLEAN]
Frame == [kind: {"data", "glom", "event", "bad"}, id: {0}, late: {FALSE}]
         \cup [kind: {"control"}, id: 0..Ids - 1, late: BOOLEAN]

Init == /\ op = "idle" /\ seen = FALSE
        /\ reqId = 0 /\ draining = FALSE /\ glom = 0
        /\ fifo = <<>> /\ ready = FALSE /\ owed = <<>>
        /\ handed = FALSE /\ answered = "own" /\ resynced = FALSE

-----------------------------------------------------------------------------
(* The chip *)

Queue(kind, id, late) == /\ Len(fifo) < MaxFifo
                         /\ fifo' = Append(fifo, [kind |-> kind, id |-> id, late |-> late])
                         /\ ready' = (ready \/ fifo = <<>>)
                         /\ UNCHANGED <<host, history>>

Traffic == /\ \E k \in {"data", "glom", "event", "bad"} : Queue(k, 0, FALSE)
           /\ UNCHANGED owed

Answer == /\ owed # <<>>
          /\ Queue("control", Head(owed).id, Head(owed).late)
          /\ owed' = Tail(owed)

-----------------------------------------------------------------------------
(* Commands *)

\* Answers still to come.
Outstanding == Len(owed) + Cardinality({j \in DOMAIN fifo : fifo[j].kind = "control"})

\* command: a fresh identifier; the frame is built in the receive buffer.  The bound: fewer answers
\* outstanding than identifiers.
Command == /\ op = "idle" /\ Outstanding < Ids - 1
           /\ reqId' = (reqId + 1) % Ids
           /\ owed' = Append(owed, [id |-> reqId', late |-> FALSE])
           /\ glom' = 0 /\ op' = "command"
           /\ UNCHANGED <<seen, draining, fifo, ready, history>>

-----------------------------------------------------------------------------
(* Receiving *)

\* next_subframe: what is left of a superframe goes out before the bus is touched.
HandOut == /\ op = "idle" /\ glom > 0
           /\ glom' = glom - 1 /\ handed' = ~handed
           /\ UNCHANGED <<op, seen, reqId, draining, chip, answered, resynced>>

\* recv_ethernet with no superframe, poll_event with or without.
Call == /\ op = "idle"
        /\ \E m \in {"recv", "event"} : (m = "recv" => glom = 0) /\ op' = m
        /\ UNCHANGED <<seen, reqId, draining, glom, chip, history>>

\* recv_frame, not draining: frame_ready reads the chip's interrupt.  Without one a receive returns
\* and a command looks again.
Look == /\ op # "idle" /\ ~draining /\ ~seen
        /\ IF ready THEN seen' = TRUE /\ UNCHANGED op
                    ELSE op' = (IF op = "command" THEN op ELSE "idle") /\ UNCHANGED seen
        /\ UNCHANGED <<reqId, draining, glom, chip, history>>

\* frame_ready clears what it read, and the queue is read until it is empty.
Acknowledge == /\ seen /\ ~draining
               /\ ready' = FALSE /\ seen' = FALSE /\ draining' = TRUE
               /\ UNCHANGED <<op, reqId, glom, fifo, owed, history>>

Reads(kinds) == op # "idle" /\ draining /\ fifo # <<>> /\ Head(fifo).kind \in kinds /\ fifo' = Tail(fifo)

\* read_frame: a header of length zero says that the queue is empty.
ReadNothing == /\ op # "idle" /\ draining /\ fifo = <<>>
               /\ draining' = FALSE /\ glom' = 0
               /\ op' = IF op = "command" THEN op ELSE "idle"
               /\ UNCHANGED <<seen, reqId, chip, history>>

\* recv_ethernet returns a data frame, or the first packet of a superframe, here of three.
ReadData == /\ Reads({"data", "glom"})
            /\ glom' = IF op = "recv" /\ Head(fifo).kind = "glom" THEN 2 ELSE 0
            /\ handed' = IF op = "recv" THEN ~handed ELSE handed
            /\ op' = IF op = "command" THEN op ELSE "idle"
            /\ UNCHANGED <<seen, reqId, draining, ready, owed, answered, resynced>>

\* await_response takes the answer with its own identifier and skips the others.
ReadControl == /\ Reads({"control", "event"}) /\ glom' = 0
               /\ LET mine == op = "command" /\ Head(fifo).kind = "control" /\ Head(fifo).id = reqId
                  IN /\ op' = IF op = "command" /\ ~mine THEN op ELSE "idle"
                     /\ answered' = IF mine /\ Head(fifo).late THEN "late" ELSE answered
               /\ UNCHANGED <<seen, reqId, draining, ready, owed, handed, resynced>>

\* read_frame on a malformed header, and resync_rx: the frame is dropped, the error returned.
ReadBad == /\ Reads({"bad"}) /\ draining' = FALSE /\ glom' = 0
           /\ op' = "idle" /\ resynced' = TRUE
           /\ UNCHANGED <<seen, reqId, ready, owed, handed, answered>>

\* await_response gives up after two seconds, at the head of its loop; the answer may still come.
TimesOut == /\ op = "command" /\ ~seen
            /\ op' = "idle"
            /\ owed' = [i \in DOMAIN owed |-> [owed[i] EXCEPT !.late = TRUE]]
            /\ fifo' = [i \in DOMAIN fifo |-> IF fifo[i].kind = "control" THEN [fifo[i] EXCEPT !.late = TRUE] ELSE fifo[i]]
            /\ UNCHANGED <<seen, reqId, draining, glom, ready, history>>

Receive == Look \/ Acknowledge \/ ReadNothing \/ ReadData \/ ReadControl \/ ReadBad
Next == Traffic \/ Answer \/ Command \/ HandOut \/ Call \/ Receive \/ TimesOut

Spec == Init /\ [][Next]_vars

-----------------------------------------------------------------------------
(* Properties *)

TypeOK == /\ op \in {"idle", "recv", "event", "command"} /\ seen \in BOOLEAN
          /\ reqId \in 0..Ids - 1 /\ draining \in BOOLEAN /\ glom \in 0..2
          /\ fifo \in Seq(Frame) /\ ready \in BOOLEAN /\ owed \in Seq(Request)
          /\ handed \in BOOLEAN /\ answered \in {"own", "late"} /\ resynced \in BOOLEAN

\* A command that was given up is answered when another is waiting: the answer is nobody else's.
AnswerIsOwn == answered # "late"

\* A frame in the chip's queue has an interrupt to announce it or is about to be read, though frames
\* behind the first raise none and the interrupt is cleared while more arrive.
Announced == fifo # <<>> => ready \/ draining

\* The same while the receive stream never had to be put back in step.
AnnouncedInStep == resynced \/ Announced

Packets == glom + FoldSeq(LAMBDA f, n : n + (CASE f.kind = "data" -> 1 [] f.kind = "glom" -> 3 [] OTHER -> 0), 0, fifo)

\* Outside a command and an event poll no packet is lost: each that leaves the buffer or the queue
\* is handed to the caller.
Apart == {op, op'} \subseteq {"idle", "recv"}
KeepsPackets == [][Apart /\ Packets' < Packets
                     => Packets' = Packets - 1 /\ handed' # handed]_vars
=============================================================================
