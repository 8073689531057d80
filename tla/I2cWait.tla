------------------------------ MODULE I2cWait -------------------------------
(***************************************************************************)
(* One I2C transaction that parks instead of spinning                      *)
(* (hal/src/i2c/asynch.rs, and one_shot and clear_status of i2c.rs): the   *)
(* future's loop, the handler that masks and wakes, the deadline, and the  *)
(* drop part-way.                                                          *)
(*                                                                         *)
(* The BSC controller is external, and modelled from how it is read: its   *)
(* FIFO, the bytes on the wire, and the bits of S.  Each pass of the loop  *)
(* reads S once and acts on what it read, with the wire going on between.  *)
(***************************************************************************)
EXTENDS Naturals

CONSTANTS Depth,    \* of the FIFO
          MaxLen    \* bound: the longest transfer

VARIABLES op,       \* the transfer in flight: "none", "write", "read"
          len,      \* its length
          count,    \* sent, or received
          result,   \* how the last transfer ended
          pc,       \* "idle", "look", "act", "store", "arm", "again", "parked"
          seen,     \* S as the loop read it
          late,     \* the deadline has passed
          waker,    \* WAKERS[slot] holds a waker
          woken,    \* the task is queued to be polled
          armed,    \* C.INTD, INTT, INTR
          status,   \* S.DONE, ERR, CLKT
          fifo,     \* bytes in the FIFO
          wire,     \* bytes of this transfer the bus has carried
          busy      \* S.TA: the controller is at it

software == <<op, len, count, result, pc, seen, late, waker, woken>>
vars == <<software, armed, status, fifo, wire, busy>>

Init == /\ op = "none" /\ len = 0 /\ count = 0 /\ result = "none" /\ pc = "idle" /\ seen = {}
        /\ late = FALSE /\ waker = FALSE /\ woken = FALSE
        /\ armed = {} /\ status = {} /\ fifo = 0 /\ wire = 0 /\ busy = FALSE

-----------------------------------------------------------------------------
(* The controller *)

\* What S reads as: room, data, and the two thresholds.
S == status \cup (IF fifo < Depth THEN {"txd"} ELSE {}) \cup (IF fifo > 0 THEN {"rxd"} ELSE {})
            \cup (IF busy /\ op = "write" /\ fifo = 0 THEN {"txw"} ELSE {})
            \cup (IF busy /\ op = "read" /\ fifo = Depth THEN {"rxr"} ELSE {})

Shift == /\ busy /\ op = "write" /\ fifo > 0
         /\ fifo' = fifo - 1 /\ wire' = wire + 1
         /\ busy' = (wire' < len)
         /\ status' = IF wire' = len THEN status \cup {"done"} ELSE status
         /\ UNCHANGED <<software, armed>>

Receive == /\ busy /\ op = "read" /\ fifo < Depth
           /\ fifo' = fifo + 1 /\ wire' = wire + 1
           /\ busy' = (wire' < len)
           /\ status' = IF wire' = len THEN status \cup {"done"} ELSE status
           /\ UNCHANGED <<software, armed>>

\* No acknowledge, a slave that holds the clock too long, or a read cut short.
Fails == /\ busy
         /\ busy' = FALSE
         /\ \E how \in {{"err"}, {"err", "done"}, {"clkt"}, {"clkt", "done"}, {"done"}} :
              /\ how = {"done"} => op = "read"
              /\ status' = status \cup how
         /\ UNCHANGED <<software, armed, fifo, wire>>

Expire == /\ op # "none" /\ ~late
          /\ late' = TRUE
          /\ UNCHANGED <<op, len, count, result, pc, seen, waker, woken, armed, status, fifo, wire, busy>>

\* ERR and CLKT have no enable of their own: they reach the core beside one that has.
Line == \/ "intd" \in armed /\ "done" \in S
        \/ "intt" \in armed /\ "txw" \in S
        \/ "intr" \in armed /\ "rxr" \in S

\* on_irq: the controller's sources are masked and its transfer woken; status and data stay.
OnIrq == /\ Line
         /\ armed' = {}
         /\ woken' = (woken \/ waker) /\ waker' = FALSE
         /\ UNCHANGED <<op, len, count, result, pc, seen, late, status, fifo, wire, busy>>

-----------------------------------------------------------------------------
(* The transfer *)

\* one_shot: status and FIFO cleared, and START.
Start(o, n) == /\ op = "none"
               /\ op' = o /\ len' = n /\ count' = 0 /\ result' = "none" /\ late' = FALSE /\ pc' = "look"
               /\ armed' = {} /\ status' = {} /\ fifo' = 0 /\ wire' = 0 /\ busy' = TRUE
               /\ UNCHANGED <<seen, waker, woken>>

Look == /\ pc = "look"
        /\ seen' = S /\ pc' = "act"
        /\ UNCHANGED <<op, len, count, result, late, waker, woken, armed, status, fifo, wire, busy>>

\* unpark and clear_status, or unpark and abandon.
Finish(how, abandon) ==
  /\ op' = "none" /\ result' = how /\ pc' = "idle" /\ waker' = FALSE /\ seen' = {}
  /\ armed' = {} /\ status' = {}
  /\ IF abandon THEN fifo' = 0 /\ busy' = FALSE ELSE UNCHANGED <<fifo, busy>>
  /\ UNCHANGED <<len, count, late, woken, wire>>

Faults == seen \cap {"err", "clkt"}
Moves == count < len /\ (IF op = "write" THEN "txd" ELSE "rxd") \in seen
Complete == "done" \in seen /\ (op = "read" => count >= len)

\* What the loop read, in the order it looks at it.
ActOnFault == /\ pc = "act" /\ Faults # {}
              /\ IF "err" \in Faults THEN Finish("noack", FALSE) ELSE Finish("timeout", TRUE)

ActOnData == /\ pc = "act" /\ Faults = {} /\ Moves
             /\ count' = count + 1
             /\ fifo' = IF op = "write" THEN fifo + 1 ELSE fifo - 1
             /\ pc' = "look" /\ seen' = {}
             /\ UNCHANGED <<op, len, result, late, waker, woken, armed, status, wire, busy>>

\* Mutant: a read ends at done, with bytes still in the FIFO.
ActOnDoneAlone == pc = "act" /\ Faults = {} /\ ~Moves /\ "done" \in seen /\ Finish("ok", FALSE)

ActOnDone == pc = "act" /\ Faults = {} /\ ~Moves /\ Complete /\ Finish("ok", FALSE)

ActOnDeadline == /\ pc = "act" /\ Faults = {} /\ ~Moves /\ ~Complete /\ late
                 /\ Finish(IF op = "read" /\ "done" \in seen THEN "incomplete" ELSE "timeout", TRUE)

ActOnNothing == /\ pc = "act" /\ Faults = {} /\ ~Moves /\ ~Complete /\ ~late
                /\ pc' = "store" /\ seen' = {}
                /\ UNCHANGED <<op, len, count, result, late, waker, woken, armed, status, fifo, wire, busy>>

\* park: store the waker, arm, look once more.
Store == /\ pc = "store"
         /\ waker' = TRUE /\ pc' = "arm"
         /\ UNCHANGED <<op, len, count, result, seen, late, woken, armed, status, fifo, wire, busy>>

Arm == /\ pc = "arm"
       /\ armed' = armed \cup {"intd", IF op = "read" THEN "intr" ELSE "intt"}
       /\ pc' = "again"
       /\ UNCHANGED <<op, len, count, result, seen, late, waker, woken, status, fifo, wire, busy>>

Again == /\ pc = "again"
         /\ IF S \cap {"done", "err", "clkt", IF op = "read" THEN "rxd" ELSE "txd"} # {}
            THEN pc' = "look" /\ armed' = {}
            ELSE pc' = "parked" /\ UNCHANGED armed
         /\ UNCHANGED <<op, len, count, result, seen, late, waker, woken, status, fifo, wire, busy>>

\* The executor polls a woken task.
Poll == /\ woken
        /\ pc \in {"parked", "idle"}
        /\ woken' = FALSE /\ pc' = IF pc = "parked" THEN "look" ELSE pc
        /\ UNCHANGED <<op, len, count, result, seen, late, waker, armed, status, fifo, wire, busy>>

\* Something else polls the task: the only way a stalled transfer's deadline is seen.
OtherPoll == /\ pc = "parked"
             /\ pc' = "look"
             /\ UNCHANGED <<op, len, count, result, seen, late, waker, woken, armed, status, fifo, wire, busy>>

\* OnCancel: abandon.  The waker stays in its slot.
Drop == /\ pc = "parked"
        /\ op' = "none" /\ result' = "dropped" /\ pc' = "idle"
        /\ armed' = {} /\ status' = {} /\ fifo' = 0 /\ busy' = FALSE
        /\ UNCHANGED <<len, count, seen, late, waker, woken, wire>>

Loop == \/ Look \/ ActOnFault \/ ActOnData \/ ActOnDone \/ ActOnDeadline \/ ActOnNothing
        \/ Store \/ Arm \/ Again \/ Poll

Next == \/ Shift \/ Receive \/ Fails \/ Expire \/ OnIrq \/ Loop \/ OtherPoll \/ Drop
        \/ \E o \in {"write", "read"}, n \in 1..MaxLen : Start(o, n)

\* The wire goes on, a pending interrupt is taken, the loop runs, time passes.  Nobody has to start a
\* transfer, and nobody has to poll one that was not woken.
Fairness == WF_vars(Shift \/ Receive) /\ WF_vars(OnIrq) /\ WF_vars(Loop) /\ WF_vars(Expire)

Spec == Init /\ [][Next]_vars
FairSpec == Spec /\ Fairness

-----------------------------------------------------------------------------
(* Properties *)

TypeOK == /\ op \in {"none", "write", "read"} /\ len \in 0..MaxLen /\ count \in 0..MaxLen
          /\ result \in {"none", "ok", "noack", "timeout", "incomplete", "dropped"}
          /\ pc \in {"idle", "look", "act", "store", "arm", "again", "parked"}
          /\ status \subseteq {"done", "err", "clkt"} /\ armed \subseteq {"intd", "intt", "intr"}
          /\ seen \subseteq {"done", "err", "clkt", "txd", "rxd", "txw", "rxr"}
          /\ late \in BOOLEAN /\ waker \in BOOLEAN /\ woken \in BOOLEAN /\ busy \in BOOLEAN
          /\ fifo \in 0..Depth /\ wire \in 0..MaxLen

\* i2c/asynch.rs: dropping a transfer part-way leaves the controller masked and its status clean;
\* and so does every other end of one.
CleanBetween == op = "none" => armed = {} /\ status = {} /\ ~busy

\* A transfer that reports success had every byte carried by the bus and taken or given by the
\* caller, though done, errors and the last bytes come in any order.
OkMeansAll == result = "ok" => count = len /\ wire = len /\ (fifo = 0)

\* Every transfer ends, by its bytes, by a fault or by its deadline, unless its task is parked
\* when the bus stops with nothing that raises the interrupt: only another poll ends that one.
Over == op = "none" \/ (pc = "parked" /\ ~busy /\ "done" \notin status)
TransferEnds == op # "none" ~> Over
=============================================================================
