----------------------------- MODULE TimeDriver -----------------------------
(***************************************************************************)
(* Deadlines on one core: the System Timer's Compare 1 (hal/src/timer.rs), *)
(* the embassy-time driver on it (embassy/src/time_driver.rs), the         *)
(* interrupt that serves it (irq.rs) and the executor that polls the tasks *)
(* and sleeps in wfe (executor.rs).                                        *)
(*                                                                         *)
(* The driver works inside a critical section: one context at a time is in *)
(* it, with interrupts masked (CriticalSection.tla).  Time does not wait:  *)
(* it may pass, by any amount, between any two of the steps below.         *)
(***************************************************************************)
EXTENDS Integers

CONSTANTS Task,
          Wrap,      \* 2^32: the compare sees the counter modulo this
          MaxDelta,  \* MAX_COMPARE1_DELTA_US
          Never,     \* u64::MAX, the deadline of an empty queue
          Delay,     \* how far ahead a task asks to be woken
          Start,     \* what the counter may stand at when the program begins
          MaxNow,    \* bound: the counter stops here
          NoTask

ASSUME TimeAssumption ==
  /\ Wrap \in Nat /\ MaxDelta \in 1..(Wrap - 1)
  /\ MaxNow \in Nat /\ Never \in Nat /\ Start \subseteq 0..MaxNow /\ Delay \subseteq Nat \ {0}
  /\ \A n \in 0..MaxNow, d \in Delay : n + d < Never
  /\ MaxNow < Never
  /\ NoTask \notin Task

VARIABLES now,      \* CHI and CLO, one counter
          c1,       \* Compare 1
          matched,  \* CS.M1, and so the interrupt line
          core,     \* what the core's thread is at: "boot", "poll", "tasks", "wfe", "asleep"
          event,    \* the core's event register
          ready,    \* the executor's run queue
          batch,    \* what poll took off it and has not polled yet
          running,  \* the task about to call schedule_wake, or NoTask
          wants,    \* wants[t]: the deadline task t awaits, or Never
          queue,    \* queue[t]: its deadline in the driver's queue, or Never
          pc,       \* where the driver is, "free" outside it
          reg,      \* which register now_micros reads next: "hi", "lo", "again"
          hi, lo,   \* what it has read
          next,     \* the deadline to arm
          target    \* the same, clamped

hardware == <<now, c1, matched>>
executor == <<core, event, ready, batch, running, wants>>
reading == <<reg, hi, lo>>
driver == <<queue, pc, reading, next, target>>
vars == <<hardware, executor, driver>>

Least(a, b) == IF a <= b THEN a ELSE b

\* After boot: the firmware has left the compare somewhere.
Init == /\ now \in Start /\ c1 \in 0..(Wrap - 1) /\ matched \in BOOLEAN
        /\ core = "boot" /\ event = FALSE /\ ready = {} /\ batch = {} /\ running = NoTask
        /\ wants = [t \in Task |-> Never] /\ queue = [t \in Task |-> Never]
        /\ pc = "free" /\ reg = "hi" /\ hi = 0 /\ lo = 0 /\ next = Never /\ target = 0

\* The counter counts; the compare matches on equality.
Tick == /\ now < MaxNow
        /\ now' = now + 1
        /\ matched' = (matched \/ now' % Wrap = c1)
        /\ UNCHANGED <<c1, executor, driver>>

-----------------------------------------------------------------------------
(* Waking *)

\* A task already queued is left alone.  __pender's sev follows an enqueue on an empty queue.
Wake(S) == LET queued == ready \cup (S \ batch)
           IN ready' = queued /\ event' = (event \/ (ready = {} /\ queued # {}))

-----------------------------------------------------------------------------
(* now_micros: two registers, and the high one once more *)

Reads == pc \in {"drain", "compare", "confirm"}

ReadHi == /\ Reads /\ reg = "hi"
          /\ hi' = now \div Wrap /\ reg' = "lo"
          /\ UNCHANGED <<hardware, executor, queue, pc, lo, next, target>>

ReadLo == /\ Reads /\ reg = "lo"
          /\ lo' = now % Wrap /\ reg' = "again"
          /\ UNCHANGED <<hardware, executor, queue, pc, hi, next, target>>

ReadTorn == /\ Reads /\ reg = "again" /\ now \div Wrap # hi
            /\ reg' = "hi" /\ hi' = 0 /\ lo' = 0
            /\ UNCHANGED <<hardware, executor, queue, pc, next, target>>

\* The last read agrees, and the step that asked for the time goes on with it.  (A local
\* whose function has returned is set back to a value of no meaning, here and below.)
Sees == reg = "again" /\ now \div Wrap = hi /\ reg' = "hi" /\ hi' = 0 /\ lo' = 0
Seen == hi * Wrap + lo

-----------------------------------------------------------------------------
(* rearm *)

\* next_expiration: wakes and drops what is due, and finds the earliest of the rest.
Drain ==
  /\ pc = "drain" /\ Sees
  /\ LET due == {t \in Task : queue[t] <= Seen}
         left == [t \in Task |-> IF t \in due THEN Never ELSE queue[t]]
     IN /\ Wake(due)
        /\ queue' = left
        /\ next' \in {left[t] : t \in Task} \cup {Never}
        /\ \A t \in Task : next' <= left[t]
  /\ pc' = "compare"
  /\ UNCHANGED <<hardware, core, batch, running, wants, target>>

\* set_compare1, up to the write: a deadline already here is refused.
Compare == /\ pc = "compare" /\ Sees
           /\ \/ next <= Seen /\ pc' = "drain" /\ UNCHANGED target
              \/ next > Seen /\ pc' = "write" /\ target' = Least(next, Seen + MaxDelta)
           /\ next' = Never
           /\ UNCHANGED <<hardware, executor, queue>>

\* Mutant: the compare is written as if it were as wide as the counter.
WriteWide == /\ pc = "write"
             /\ c1' = target
             /\ pc' = "confirm"
             /\ UNCHANGED <<now, matched, executor, queue, reading, next, target>>

Write == /\ pc = "write"
         /\ c1' = target % Wrap
         /\ pc' = "confirm"
         /\ UNCHANGED <<now, matched, executor, queue, reading, next, target>>

\* Mutant: the time from before the write is trusted.
ConfirmNothing == /\ pc = "confirm" /\ Sees
                  /\ pc' = "free" /\ target' = 0
                  /\ UNCHANGED <<hardware, executor, queue, next>>

\* The counter may have reached the target before the compare held it.
Confirm == /\ pc = "confirm" /\ Sees
           /\ pc' = (IF Seen >= target THEN "clear" ELSE "free") /\ target' = 0
           /\ UNCHANGED <<hardware, executor, queue, next>>

Clear == /\ pc = "clear"
         /\ matched' = FALSE
         /\ pc' = "drain"
         /\ UNCHANGED <<now, c1, executor, queue, reading, next, target>>

-----------------------------------------------------------------------------
(* The tasks and the executor *)

\* time_driver::init, and then Executor::run with the tasks spawned.
Install == /\ core = "boot"
           /\ matched' = FALSE
           /\ core' = "poll" /\ Wake(Task)
           /\ UNCHANGED <<now, c1, batch, running, wants, driver>>

\* Mutant: the match is not acknowledged.
OnIrqDeaf == /\ core # "boot" /\ pc = "free" /\ matched
             /\ pc' = "drain"
             /\ core' = IF core = "asleep" THEN "poll" ELSE core
             /\ UNCHANGED <<now, c1, matched, event, ready, batch, running, wants, queue, reading, next, target>>

\* on_irq, up to rearm.  An interrupt ends a wfe.
OnIrq == /\ core # "boot" /\ pc = "free" /\ matched
         /\ matched' = FALSE
         /\ pc' = "drain"
         /\ core' = IF core = "asleep" THEN "poll" ELSE core
         /\ UNCHANGED <<now, c1, event, ready, batch, running, wants, queue, reading, next, target>>

\* Another interrupt, or another task, wakes a task.
OtherWake(t) == /\ core # "boot" /\ pc = "free" /\ t \notin ready
                /\ Wake({t})
                /\ UNCHANGED <<hardware, core, batch, running, wants, driver>>

\* raw::Executor::poll takes all that is queued, and what comes later waits for the next poll.
Poll == /\ core = "poll" /\ pc = "free"
        /\ batch' = ready /\ ready' = {}
        /\ core' = "tasks"
        /\ UNCHANGED <<hardware, event, running, wants, driver>>

\* A task is polled.  It awaits a deadline for the first time, or its timer is not due yet,
\* and it is about to call schedule_wake; or it goes on without a timer.
PollTask(t) == /\ core = "tasks" /\ pc = "free" /\ running = NoTask /\ t \in batch
               /\ batch' = batch \ {t}
               /\ \/ \E d \in Delay : wants' = [wants EXCEPT ![t] = now + d] /\ running' = t
                  \/ wants' = [wants EXCEPT ![t] = Never] /\ UNCHANGED running
                  \/ wants[t] > now /\ wants[t] # Never /\ running' = t /\ UNCHANGED wants
               /\ UNCHANGED <<hardware, core, event, ready, driver>>

\* Mutant: a task that is queued already is not put forward.
ScheduleLate == /\ running # NoTask /\ pc = "free"
                /\ running' = NoTask
                /\ \/ queue[running] = Never /\ queue' = [queue EXCEPT ![running] = wants[running]] /\ pc' = "drain"
                   \/ queue[running] # Never /\ UNCHANGED <<queue, pc>>
                /\ UNCHANGED <<hardware, core, event, ready, batch, wants, reading, next, target>>

\* schedule_wake: the queue keeps a task's earliest deadline, and says whether it changed.
Schedule == /\ running # NoTask /\ pc = "free"
            /\ running' = NoTask
            /\ LET at == wants[running] IN
               \/ at <= queue[running] /\ queue' = [queue EXCEPT ![running] = at] /\ pc' = "drain"
               \/ at > queue[running] /\ UNCHANGED <<queue, pc>>
            /\ UNCHANGED <<hardware, core, event, ready, batch, wants, reading, next, target>>

PollEnds == /\ core = "tasks" /\ pc = "free" /\ running = NoTask /\ batch = {}
            /\ core' = "wfe"
            /\ UNCHANGED <<hardware, event, ready, batch, running, wants, driver>>

\* wfe: an event that came before it is not lost; without one the core sleeps till one comes.
Wfe == /\ core \in {"wfe", "asleep"} /\ pc = "free"
       /\ \/ event /\ event' = FALSE /\ core' = "poll"
          \/ ~event /\ ~matched /\ core = "wfe" /\ core' = "asleep" /\ UNCHANGED event
       /\ UNCHANGED <<hardware, ready, batch, running, wants, driver>>

Thread == Install \/ Poll \/ (\E t \in Task : PollTask(t)) \/ Schedule \/ PollEnds \/ Wfe
Rearm == ReadHi \/ ReadLo \/ ReadTorn \/ Drain \/ Compare \/ Write \/ Confirm \/ Clear

Next == Tick \/ Thread \/ Rearm \/ OnIrq \/ (\E t \in Task : OtherWake(t))

\* The clock and the core run on.  An interrupt is taken when the mask is open, however
\* often the thread closes it: the line stays up till the handler acknowledges it.
Fairness == WF_vars(Tick) /\ WF_vars(Thread) /\ WF_vars(Rearm) /\ SF_vars(OnIrq)

Spec == Init /\ [][Next]_vars
FairSpec == Spec /\ Fairness

-----------------------------------------------------------------------------
(* Properties *)

TypeOK == /\ now \in 0..MaxNow /\ c1 \in 0..(Wrap - 1) /\ matched \in BOOLEAN
          /\ core \in {"boot", "poll", "tasks", "wfe", "asleep"} /\ event \in BOOLEAN
          /\ ready \subseteq Task /\ batch \subseteq Task /\ running \in Task \cup {NoTask}
          /\ wants \in [Task -> 0..Never] /\ queue \in [Task -> 0..Never]
          /\ pc \in {"free", "drain", "compare", "write", "confirm", "clear"}
          /\ reg \in {"hi", "lo", "again"} /\ hi \in Nat /\ lo \in 0..(Wrap - 1)
          /\ next \in 0..Never /\ target \in Nat

\* The compare matches by time at: it does so now, or within the clamp, at a time not after at.
MatchesBy(at) == matched \/ \E d \in 1..MaxDelta : (now + d) % Wrap = c1 /\ now + d <= at

\* time_driver.rs: no deadline waits out a wrap.  Whenever nobody is in the driver, every
\* deadline in its queue has the interrupt pending, or a match to come that is not later.
Armed == pc = "free" => \A t \in Task : queue[t] # Never => MatchesBy(queue[t])

\* executor.rs: no lost wake-up between polling and sleeping.  A core does not sleep on a task
\* that was woken, unless the event that will end the sleep is already there.
NoLostWake == core = "asleep" => event \/ ready = {}

\* The two together.  While the core sleeps and nobody is in the driver, every deadline a
\* task awaits will raise the interrupt in time.
SleepsSafely == core = "asleep" /\ ~event /\ pc = "free" =>
                  \A t \in Task : wants[t] # Never => MatchesBy(wants[t])

\* A task that awaits a deadline is polled after it.
Resumes == \A t \in Task : wants[t] <= now ~> wants[t] > now
=============================================================================
