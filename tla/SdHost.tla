-------------------------------- MODULE SdHost --------------------------------
(***************************************************************************)
(* Block transfers over the SD host controller: the blocking paths of      *)
(* hal/src/sd.rs, and the ones that park on its interrupt                  *)
(* (hal/src/sd/asynch.rs), with the guard that cleans up after them.       *)
(*                                                                         *)
(* The controller and the card are external, and modelled from what the    *)
(* driver's comments say of them: INTERRUPT's bits latch and are cleared   *)
(* by writing them back, a ready bit is raised once for a block, and a     *)
(* command error leaves the command circuit deaf until it is reset.        *)
(***************************************************************************)
EXTENDS Naturals

CONSTANTS MaxBlocks,    \* bound: the blocks of a transfer
          Paths         \* the paths transfers take: a subset of Path

\* read_blocks and write_blocks by the FIFO or by ADMA2; the async ones by the FIFO or a DMA channel.
Path == {"pio", "adma", "async", "async_dma"}

VARIABLES
  pc,       \* "idle", "start", "command", "data", "drain"
  wait,     \* where an async wait is: "look", "store", "open", "again", "parked"
  path, write, count,   \* the transfer: its path, its direction, its blocks
  moved,    \* blocks its data phase has drained or pushed
  wrong,    \* a block was drained or pushed beside another transfer's words
  result,   \* how the last transfer ended: "none", "ok", "refused", "failed", "dropped"
  late,     \* the wait's budget is spent
  waker,    \* WAKER holds a waker
  woken,    \* the task is queued to be polled
  int,      \* INTERRUPT
  enable,   \* IRPT_EN
  cmdline,  \* the command circuit: "free", "busy", "stuck"
  data,     \* the data circuit: "idle", "moving", "failed"
  fifo,     \* "empty", "block", "stale"
  out,      \* the direction of the command the card was last sent
  left,     \* blocks the card has still to give or take
  told,     \* WRITE_RDY was raised for the buffer as it is
  card,     \* "idle", "data": in a transfer of its own reckoning, "lost": not even CMD12 reached it
  foul      \* history: a data phase was left without a reset, and nothing was reset since

transfer == <<path, write, count>>
task == <<wait, waker, woken>>
circuits == <<cmdline, data, fifo, out, left, told, card>>
vars == <<pc, transfer, moved, wrong, result, late, task, int, enable, circuits, foul>>

Init == /\ pc = "idle" /\ path = "pio" /\ write = FALSE /\ count = 0 /\ moved = 0
        /\ wrong = FALSE /\ result = "none" /\ late = FALSE
        /\ wait = "look" /\ waker = FALSE /\ woken = FALSE
        /\ int = {} /\ enable = {} /\ cmdline = "free" /\ data = "idle" /\ fifo = "empty"
        /\ out = FALSE /\ left = 0 /\ told = FALSE /\ card = "idle" /\ foul = FALSE

Async == path \in {"async", "async_dma"}
ByEngine == path \in {"adma", "async_dma"}

-----------------------------------------------------------------------------
(* The controller and the card *)

Accept == /\ cmdline = "busy" /\ card = "idle"
          /\ cmdline' = "free" /\ data' = "moving" /\ card' = "data"
          /\ \E now \in BOOLEAN :                   \* WRITE_RDY may come with CMD_DONE
               /\ now => out /\ fifo = "empty"
               /\ told' = now
               /\ int' = int \cup {"cmd"} \cup (IF now THEN {"write"} ELSE {})
          /\ UNCHANGED <<pc, transfer, moved, wrong, result, late, task, enable, fifo, out, left, foul>>

Refuse == /\ cmdline = "busy"
          /\ cmdline' = "stuck" /\ int' = int \cup {"err"}
          /\ UNCHANGED <<pc, transfer, moved, wrong, result, late, task, enable, data, fifo, out, left, told, card, foul>>

Deliver == /\ data = "moving" /\ ~out /\ left > 0 /\ (fifo = "empty" \/ (fifo = "stale" /\ ~told))
           /\ left' = left - 1 /\ told' = (fifo = "stale")
           /\ fifo' = IF fifo = "empty" THEN "block" ELSE fifo
           /\ int' = int \cup {"read"}
           /\ UNCHANGED <<pc, transfer, moved, wrong, result, late, task, enable, cmdline, data, out, card, foul>>

WriteReady == /\ data = "moving" /\ out /\ left > 0 /\ fifo # "block" /\ ~told
              /\ told' = TRUE /\ int' = int \cup {"write"}
              /\ UNCHANGED <<pc, transfer, moved, wrong, result, late, task, enable, cmdline, data, fifo, out, left, card, foul>>

Take == /\ data = "moving" /\ out /\ fifo = "block"
        /\ fifo' = "empty" /\ left' = left - 1 /\ told' = FALSE
        /\ UNCHANGED <<pc, transfer, moved, wrong, result, late, task, int, enable, cmdline, data, out, card, foul>>

\* Every block is moved, programmed, and the auto-CMD12 is through.  An engine may still have
\* the last of them in the FIFO.
Complete == /\ data = "moving" /\ left = 0 /\ (fifo = "block" => path = "async_dma" /\ ~out)
            /\ data' = "idle" /\ card' = "idle" /\ int' = int \cup {"done"}
            /\ UNCHANGED <<pc, transfer, moved, wrong, result, late, task, enable, cmdline, fifo, out, left, told, foul>>

Break == /\ data = "moving" /\ (out \/ left > 0 \/ fifo = "block")
         /\ data' = "failed" /\ int' = int \cup {"err"}
         /\ card' \in {"idle", "data"} /\ fifo' \in {"empty", "stale"}
         /\ UNCHANGED <<pc, transfer, moved, wrong, result, late, task, enable, cmdline, out, left, told, foul>>

\* The DMA engine drains or fills the FIFO.
Engine == /\ pc \in {"data", "drain"} /\ ByEngine /\ moved < count
          /\ IF write THEN fifo # "block" /\ told /\ fifo' = "block"
                      ELSE fifo = "block" /\ fifo' = "empty"
          /\ moved' = moved + 1 /\ wrong' = (wrong \/ fifo = "stale")
          /\ UNCHANGED <<pc, transfer, result, late, task, int, enable, cmdline, data, out, left, told, card, foul>>

Expire == /\ pc # "idle" /\ ~late
          /\ late' = TRUE
          /\ UNCHANGED <<pc, transfer, moved, wrong, result, task, int, enable, circuits, foul>>

-----------------------------------------------------------------------------
(* The handler *)

\* on_irq: the gate is closed and the transfer woken; the status is the transfer's to read.
OnIrq == /\ int \cap enable # {}
         /\ enable' = {} /\ woken' = (woken \/ waker) /\ waker' = FALSE
         /\ UNCHANGED <<pc, transfer, moved, wrong, result, late, wait, int, circuits, foul>>

-----------------------------------------------------------------------------
(* The command *)

Begin(p, w, n) == /\ pc = "idle"
                  /\ pc' = "start" /\ path' = p /\ write' = w /\ count' = n /\ moved' = 0
                  /\ wrong' = FALSE /\ result' = "none" /\ late' = FALSE
                  /\ UNCHANGED <<task, int, enable, circuits, foul>>

\* A transfer ends before its guard exists.
Unguarded(how) == /\ pc' = "idle" /\ result' = how
                  /\ UNCHANGED <<transfer, moved, wrong, late, task, enable>>

DataLinesFree == data # "moving" /\ card # "data"

\* Mutant: what an earlier command left in INTERRUPT is not cleared.
IssueOver == /\ pc = "start" /\ DataLinesFree /\ cmdline # "busy"
             /\ pc' = "command" /\ late' = FALSE
             /\ cmdline' = IF cmdline = "free" THEN "busy" ELSE cmdline
             /\ out' = write /\ left' = count
             /\ UNCHANGED <<transfer, moved, wrong, result, task, int, enable, data, fifo, told, card, foul>>

\* start_transfer: the data lines free, then command: the line free, stale status cleared, CMDTM
\* written.  A stuck circuit starts nothing.
Issue == /\ pc = "start" /\ DataLinesFree /\ cmdline # "busy"
         /\ pc' = "command" /\ late' = FALSE /\ int' = {}
         /\ cmdline' = IF cmdline = "free" THEN "busy" ELSE cmdline
         /\ out' = write /\ left' = count
         /\ UNCHANGED <<transfer, moved, wrong, result, task, enable, data, fifo, told, card, foul>>

NotReady == /\ pc = "start" /\ late /\ ~(DataLinesFree /\ cmdline # "busy")
            /\ Unguarded("refused") /\ UNCHANGED <<int, circuits, foul>>

\* poll_interrupt clears CMD_DONE and the errors, never a WRITE_RDY that came with it.
CommandDone == /\ pc = "command" /\ "cmd" \in int /\ "err" \notin int
               /\ int' = int \ {"cmd"}
               /\ pc' = "data" /\ wait' = "look" /\ late' = FALSE
               /\ UNCHANGED <<transfer, moved, wrong, result, waker, woken, enable, circuits, foul>>

\* An error bit, or a second of nothing: the circuit is left as it is on every path.
CommandFailed == /\ pc = "command"
                 /\ "err" \in int \/ (late /\ "cmd" \notin int)
                 /\ int' = int \ {"cmd", "err"}
                 /\ foul' = (foul \/ data # "idle" \/ "err" \notin int)
                 /\ Unguarded("refused") /\ UNCHANGED circuits

-----------------------------------------------------------------------------
(* The data phase *)

Want == IF ByEngine \/ moved = count THEN "done" ELSE IF write THEN "write" ELSE "read"

Reset == out' = out /\ cmdline' = "free" /\ data' = "idle" /\ fifo' = "empty" /\ left' = 0 /\ told' = FALSE /\ foul' = FALSE

\* Mutant: a dropped run is not stopped on the card.
AbortUnstopped(how) ==
  /\ pc' = "idle" /\ result' = how
  /\ waker' = FALSE /\ enable' = {}
  /\ card' = IF count > 1 THEN card ELSE "idle"
  /\ Reset /\ int' = {}
  /\ UNCHANGED <<transfer, moved, wrong, late, wait, woken>>

\* Abort's drop: the wait is ended, a run stopped by CMD12 while the lines are busy, both circuits
\* reset, and everything latched cleared.
Abort(how) ==
  /\ pc' = "idle" /\ result' = how
  /\ waker' = FALSE /\ enable' = {}
  /\ card' \in IF card = "data" /\ count > 1 THEN {"idle", "lost"} ELSE {"idle"}
  /\ Reset /\ int' = {}
  /\ UNCHANGED <<transfer, moved, wrong, late, wait, woken>>

\* What an error or a spent budget does on each path: the guard, a reset, or nothing.
Fail == \/ Async /\ Abort("failed")
        \/ /\ ~Async
           /\ pc' = "idle" /\ result' = "failed" /\ int' = int \ {"err"}
           /\ IF path = "adma" THEN Reset /\ card' = card ELSE foul' = TRUE /\ UNCHANGED circuits
           /\ UNCHANGED <<transfer, moved, wrong, late, task, enable>>

\* One block drained or pushed, or the end of it: a single-block read does not wait for done.
Consume ==
  /\ int' = int \ {Want} /\ enable' = {} /\ late' = FALSE
  /\ CASE Want = "done" -> /\ IF path = "async_dma" THEN pc' = "drain" /\ UNCHANGED result
                                          ELSE pc' = "idle" /\ result' = "ok"
                           /\ UNCHANGED <<moved, wrong, fifo, told>>
       [] Want = "write" -> /\ moved' = moved + 1 /\ fifo' = "block"
                            /\ wrong' = (wrong \/ fifo = "stale")
                            /\ UNCHANGED <<pc, result, told>>
       [] Want = "read" -> /\ moved' = moved + 1 /\ wrong' = (wrong \/ fifo = "stale")
                           /\ fifo' = IF fifo = "stale" THEN "stale" ELSE "empty"
                           /\ told' = FALSE
                           /\ IF count = 1 THEN pc' = "idle" /\ result' = "ok" ELSE UNCHANGED <<pc, result>>
  /\ wait' = "look" /\ waker' = FALSE
  /\ UNCHANGED <<transfer, woken, cmdline, data, out, left, card, foul>>

Arrived == int \cap {Want, "err"} # {}
Looked == IF "err" \in int THEN Fail ELSE Consume

Spin == /\ pc = "data" /\ ~Async
        /\ \/ Arrived /\ Looked
           \/ ~Arrived /\ late /\ Fail

Look == /\ pc = "data" /\ Async /\ wait = "look"
        /\ IF Arrived THEN Looked
           ELSE wait' = "store" /\ UNCHANGED <<pc, transfer, moved, wrong, result, late, waker, woken, int, enable, circuits, foul>>

Store == /\ pc = "data" /\ wait = "store"
         /\ waker' = TRUE /\ wait' = "open"
         /\ UNCHANGED <<pc, transfer, moved, wrong, result, late, woken, int, enable, circuits, foul>>

Open == /\ pc = "data" /\ wait = "open"
        /\ enable' = {Want, "err"} /\ wait' = "again"
        /\ UNCHANGED <<pc, transfer, moved, wrong, result, late, waker, woken, int, circuits, foul>>

Again == /\ pc = "data" /\ wait = "again"
         /\ IF Arrived THEN Looked ELSE IF late THEN Fail
            ELSE wait' = "parked" /\ UNCHANGED <<pc, transfer, moved, wrong, result, late, waker, woken, int, enable, circuits, foul>>

Poll == /\ woken /\ (pc = "data" => wait \in {"look", "parked"})
        /\ woken' = FALSE /\ wait' = "look"
        /\ UNCHANGED <<pc, transfer, moved, wrong, result, late, waker, int, enable, circuits, foul>>

\* Something else in the program polls the task.
OtherPoll == /\ pc = "data" /\ wait = "parked"
             /\ wait' = "look"
             /\ UNCHANGED <<pc, transfer, moved, wrong, result, late, waker, woken, int, enable, circuits, foul>>

\* with_timeout or select! drops the future while it is parked.
Drop == pc = "data" /\ wait = "parked" /\ Abort("dropped")

\* The engine has moved the last of the FIFO; it may also be wedged, or report an error.
Drain == /\ pc = "drain"
         /\ \/ /\ moved = count
               /\ pc' = "idle" /\ result' = "ok"
               /\ UNCHANGED <<transfer, moved, wrong, late, task, int, enable, circuits, foul>>
            \/ late /\ Fail

Card == Accept \/ Deliver \/ WriteReady \/ Take \/ Complete \/ Engine
Driver == Issue \/ NotReady \/ CommandDone \/ CommandFailed \/ Spin \/ Look \/ Store \/ Open \/ Again \/ Poll \/ Drain
Next == \/ Card \/ Refuse \/ Break \/ Expire \/ OnIrq \/ Driver \/ OtherPoll \/ Drop
        \/ \E p \in Paths, w \in BOOLEAN, n \in 1..MaxBlocks : Begin(p, w, n)

\* The card answers and goes on, a pending interrupt is taken, the task runs, time passes.
Fairness == WF_vars(Card) /\ WF_vars(OnIrq) /\ WF_vars(Driver) /\ WF_vars(Expire)

Spec == Init /\ [][Next]_vars
FairSpec == Spec /\ Fairness

-----------------------------------------------------------------------------
(* Properties *)

Bits == {"cmd", "read", "write", "done", "err"}
TypeOK == /\ pc \in {"idle", "start", "command", "data", "drain"}
          /\ wait \in {"look", "store", "open", "again", "parked"}
          /\ path \in Path /\ write \in BOOLEAN /\ count \in 0..MaxBlocks /\ moved \in 0..count
          /\ result \in {"none", "ok", "refused", "failed", "dropped"}
          /\ int \subseteq Bits /\ enable \subseteq Bits
          /\ {wrong, late, waker, woken, out, told, foul} \subseteq BOOLEAN
          /\ cmdline \in {"free", "busy", "stuck"} /\ data \in {"idle", "moving", "failed"}
          /\ fifo \in {"empty", "block", "stale"} /\ left \in 0..MaxBlocks
          /\ card \in {"idle", "data", "lost"}

\* The last of a single-block read, which nothing waits for.
Tail == ~write /\ count = 1 /\ result = "ok"

\* sd/asynch.rs: between transfers no interrupt is enabled and no waker stranded, whatever the
\* path and however it ended.  An async transfer that failed or was dropped once its command
\* was taken has left both circuits free, the FIFO empty and the card not streaming, whatever
\* was there before it; one that succeeded too, unless it began on what an earlier transfer
\* had left (foul: a blocking one's failure by the FIFO, or a start that failed).  Of a
\* start that fails before its guard exists (asynch.rs:423, 462) nothing more is said: it resets nothing.
CleanBetween == pc = "idle" =>
                  /\ enable = {} /\ ~waker
                  /\ Async /\ result \in {"failed", "dropped"} =>
                       cmdline = "free" /\ fifo = "empty" /\ data = "idle" /\ card # "data"
                  /\ Async /\ result = "ok" /\ ~foul =>
                       /\ cmdline = "free" /\ fifo = "empty"
                       /\ Tail \/ (data = "idle" /\ card # "data")

\* Whatever failed before it, a write that reports success is on the card, every block.  A
\* transfer that reports success moved every one of its blocks and no other transfer's words,
\* unless it began on what an earlier one had left (foul): there a read returns stale words and Ok.
OkMeansAll == result = "ok" => /\ write => left = 0 /\ fifo = "empty"
                               /\ ~foul => moved = count /\ ~wrong

\* poll_interrupt clears only what was waited for: while blocks are to be moved by hand, a ready
\* bit raised for the buffer is still there to be seen; a read's, unless it began on what an
\* earlier transfer had left (foul).
NothingMissed == pc = "data" /\ ~ByEngine /\ data = "moving" =>
                   /\ write /\ told /\ fifo # "block" /\ moved < count => "write" \in int
                   /\ ~write /\ ~foul /\ fifo = "block" => "read" \in int

\* A parked transfer's task is woken by what it waits for, whatever order the bits come in,
\* unless a transfer before it left its data phase without a reset (foul).
TransferEnds == pc # "idle" /\ ~foul ~> pc = "idle"

\* sd/asynch.rs:81: "a failed async transfer also leaves the controller clean".
FailedIsClean == pc = "idle" /\ Async /\ result \in {"refused", "failed"} => cmdline = "free"
=============================================================================
