------------------------------ MODULE GpioWait ------------------------------
(***************************************************************************)
(* Waiting for a GPIO pin (hal/src/gpio/asynch.rs): futures that arm a     *)
(* pin's detector (set_trigger, gpio.rs), the handler that disarms it and  *)
(* wakes, and the drop that puts it back.                                  *)
(*                                                                         *)
(* One core.  What runs in a critical section or in the handler is one     *)
(* step; Drop calls set_trigger outside any section, and so takes a step   *)
(* for each register it reads and each it writes.                          *)
(***************************************************************************)
EXTENDS Naturals, FiniteSets

CONSTANTS Pin,
          Level,    \* the pins waited on with wait_for_high; the others with wait_for_rising_edge
          Hand,     \* pins armed by enable_interrupt and served by the application's handler
          CanDrop,  \* the pins whose waits are cancelled
          Late      \* whether the thread may go on for some steps with the interrupt line up

\* The detector registers, in set_trigger's order (two of six: the others are the same).
Reg == {"gpren", "gphen"}
Async == Pin \ Hand

VARIABLES high,     \* the pins at high level
          detect,   \* detect[r]: the pins enabled in register r
          events,   \* GPEDS: the pins with an event latched; the interrupt line is its disjunction
          slot,     \* STATES
          task,     \* what the caller is at: "away", "new", "parked", "woken"
          armed,    \* WaitForEvent::armed
          drop,     \* where a Drop is: the pin, the registers to do, and what was read, or Nothing
          rose,     \* history: the pin has risen, or been high, since its wait was first polled
          dropped   \* history: an armed wait has been dropped

vars == <<high, detect, events, slot, task, armed, drop, rose, dropped>>

Nothing == [pin |-> "none"]
Trigger(p) == IF p \in Level THEN "gphen" ELSE "gpren"

Init == /\ high = {}
        /\ detect = [r \in Reg |-> IF r = "gpren" THEN Hand ELSE {}]
        /\ events = {}
        /\ slot = [p \in Pin |-> "Idle"] /\ task = [p \in Pin |-> "away"]
        /\ armed = [p \in Pin |-> FALSE] /\ drop = Nothing
        /\ rose = [p \in Pin |-> FALSE] /\ dropped = FALSE

-----------------------------------------------------------------------------
(* The pins.  A level detector latches as long as the level lasts, an edge  *)
(* detector when the pin rises.                                             *)

Rise(p) == /\ p \notin high
           /\ high' = high \cup {p}
           /\ events' = IF p \in detect["gpren"] THEN events \cup {p} ELSE events
           /\ rose' = [rose EXCEPT ![p] = TRUE]
           /\ UNCHANGED <<detect, slot, task, armed, drop, dropped>>

Fall(p) == /\ p \in high
           /\ high' = high \ {p}
           /\ UNCHANGED <<detect, events, slot, task, armed, drop, rose, dropped>>

Latch(p) == /\ p \in high \cap detect["gphen"] /\ p \notin events
            /\ events' = events \cup {p}
            /\ UNCHANGED <<high, detect, slot, task, armed, drop, rose, dropped>>

-----------------------------------------------------------------------------
(* The handler *)

\* Events the handler finds and serves, and those it leaves for another handler.
Served == {p \in events : slot[p] = "Waiting"}

\* Nobody serves these.  The line stays up, the handler is entered again and again, and the
\* thread never runs.
Orphans == {p \in events : slot[p] # "Waiting" /\ p \notin Hand}
Stuck == Orphans # {}

\* Mutant: the slot is emptied, and nothing tells the future that the event came.
OnIrqForgets ==
  /\ Served # {}
  /\ detect' = [r \in Reg |-> detect[r] \ Served]
  /\ events' = events \ Served
  /\ slot' = [p \in Pin |-> IF p \in Served THEN "Idle" ELSE slot[p]]
  /\ task' = [p \in Pin |-> IF p \in Served /\ task[p] = "parked" THEN "woken" ELSE task[p]]
  /\ UNCHANGED <<high, armed, drop, rose, dropped>>

\* on_irq: each pin waited on is disarmed, acknowledged and woken; any other is left alone.
OnIrq ==
  /\ Served # {}
  /\ detect' = [r \in Reg |-> detect[r] \ Served]
  /\ events' = events \ Served
  /\ slot' = [p \in Pin |-> IF p \in Served THEN "Fired" ELSE slot[p]]
  /\ task' = [p \in Pin |-> IF p \in Served /\ task[p] = "parked" THEN "woken" ELSE task[p]]
  /\ UNCHANGED <<high, armed, drop, rose, dropped>>

\* The application's own handler: Pin::clear_interrupt.
HandIrq(p) == /\ p \in Hand \cap events
              /\ events' = events \ {p}
              /\ UNCHANGED <<high, detect, slot, task, armed, drop, rose, dropped>>

-----------------------------------------------------------------------------
(* The futures *)

\* The thread has the core: the handler has nothing to do, or is late, and is not stuck.
Free == ~Stuck /\ (Late \/ events = {})
Runs == Free /\ drop = Nothing

\* wait_for_high returns at once from a high pin; the others have no shortcut.
Call(p) == /\ Runs /\ p \in Async /\ task[p] = "away"
           /\ p \notin Level \cap high
           /\ task' = [task EXCEPT ![p] = "new"]
           /\ UNCHANGED <<high, detect, events, slot, armed, drop, rose, dropped>>

\* poll, when the handler has been here.
PollResolves(p) == /\ Runs /\ task[p] \in {"new", "parked", "woken"} /\ slot[p] = "Fired"
                   /\ slot' = [slot EXCEPT ![p] = "Idle"]
                   /\ armed' = [armed EXCEPT ![p] = FALSE]
                   /\ task' = [task EXCEPT ![p] = "away"]
                   /\ UNCHANGED <<high, detect, events, drop, rose, dropped>>

\* poll otherwise, by the first poll or by a wake-up of something else: the waker is stored,
\* and the detector armed once.
PollParks(p) == /\ Runs /\ task[p] \in {"new", "parked", "woken"} /\ slot[p] # "Fired"
                /\ slot' = [slot EXCEPT ![p] = "Waiting"]
                /\ task' = [task EXCEPT ![p] = "parked"]
                /\ armed' = [armed EXCEPT ![p] = TRUE]
                /\ IF armed[p] THEN UNCHANGED <<detect, rose>>
                   ELSE /\ detect' = [r \in Reg |-> IF r = Trigger(p) THEN detect[r] \cup {p} ELSE detect[r] \ {p}]
                        /\ rose' = [rose EXCEPT ![p] = p \in Level \cap high]
                /\ UNCHANGED <<high, events, drop, dropped>>

\* Drop: nothing to undo unless armed; else set_trigger(None), register by register.
Drop(p) == /\ Runs /\ p \in CanDrop /\ task[p] \in {"new", "parked", "woken"}
           /\ task' = [task EXCEPT ![p] = "away"]
           /\ dropped' = (dropped \/ armed[p])
           /\ drop' = IF armed[p] THEN [pin |-> p, left |-> <<"gpren", "gphen">>, read |-> {}, has |-> FALSE]
                      ELSE Nothing
           /\ UNCHANGED <<high, detect, events, slot, armed, rose>>

Dropping == Free /\ drop # Nothing

DropReads == /\ Dropping /\ drop.left # <<>> /\ ~drop.has
             /\ drop' = [drop EXCEPT !.read = detect[drop.left[1]], !.has = TRUE]
             /\ UNCHANGED <<high, detect, events, slot, task, armed, rose, dropped>>

\* What was read is written back without this pin, whatever the handler did since.
DropWrites == /\ Dropping /\ drop.left # <<>> /\ drop.has
              /\ detect' = [detect EXCEPT ![drop.left[1]] = drop.read \ {drop.pin}]
              /\ drop' = [drop EXCEPT !.left = IF @ = <<"gphen">> THEN <<>> ELSE <<"gphen">>, !.read = {}, !.has = FALSE]
              /\ UNCHANGED <<high, events, slot, task, armed, rose, dropped>>

\* The slot is emptied, in a section.  An event latched and not yet served stays latched.
DropEnds == /\ Dropping /\ drop.left = <<>>
            /\ slot' = [slot EXCEPT ![drop.pin] = "Idle"]
            /\ armed' = [armed EXCEPT ![drop.pin] = FALSE]
            /\ drop' = Nothing
            /\ UNCHANGED <<high, detect, events, task, rose, dropped>>

Thread == \/ \E p \in Async : Call(p) \/ PollResolves(p) \/ PollParks(p) \/ Drop(p)
          \/ DropReads \/ DropWrites \/ DropEnds

Pins == \E p \in Pin : Rise(p) \/ Fall(p) \/ Latch(p)

Next == Pins \/ OnIrq \/ (\E p \in Pin : HandIrq(p)) \/ Thread

\* An interrupt that is pending is taken.  A woken task is polled however often others keep
\* the thread: the executor takes its queue in turn.
Fairness == /\ WF_vars(OnIrq)
            /\ \A p \in Async : SF_vars(PollResolves(p)) /\ WF_vars(Latch(p))
            /\ WF_vars(DropReads \/ DropWrites \/ DropEnds)

Spec == Init /\ [][Next]_vars
FairSpec == Spec /\ Fairness

-----------------------------------------------------------------------------
(* Properties *)

TypeOK == /\ high \subseteq Pin /\ events \subseteq Pin
          /\ detect \in [Reg -> SUBSET Pin]
          /\ slot \in [Pin -> {"Idle", "Waiting", "Fired"}]
          /\ task \in [Pin -> {"away", "new", "parked", "woken"}]
          /\ armed \in [Pin -> BOOLEAN] /\ rose \in [Pin -> BOOLEAN] /\ dropped \in BOOLEAN
          /\ \/ drop = Nothing
             \/ drop \in [pin : Pin, left : {<<"gpren", "gphen">>, <<"gphen">>, <<>>}, read : SUBSET Pin, has : BOOLEAN]

\* A parked future is never out of reach of its event: its slot names it and its detector is
\* armed, however many other waits come, fire and are dropped around it.
ParkedIsArmed == \A p \in Async : task[p] = "parked" => slot[p] = "Waiting" /\ p \in detect[Trigger(p)]

\* gpio.rs: a write to a detect register lets other pins' enables survive.
HandSurvives == Hand \subseteq detect["gpren"]

\* While no wait has been dropped, the handler always finds whom to serve: it never leaves the
\* line up.  (What a drop can do to it is the run gpio_drop.)
ServedUnlessDropped == Stuck => dropped

\* A wait ends by its own event, never by one from before it was polled.
OwnEvent == \A p \in Async : slot[p] = "Fired" /\ task[p] # "away" /\ ~dropped => task[p] # "new" /\ rose[p]

\* gpio/asynch.rs: an event ends the wait for it.
EventEndsWait == \A p \in Async : p \in events /\ task[p] = "parked" ~> task[p] = "away" \/ Stuck

\* gpio/asynch.rs: cancellation puts the hardware back, and no event is left that re-enters the
\* handler for ever.
NeverStuck == ~Stuck
=============================================================================
