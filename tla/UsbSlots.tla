------------------------------ MODULE UsbSlots -------------------------------
(***************************************************************************)
(* The USB host controller's asynchronous transfers                        *)
(* (hal/src/usb/dwc2/asynch.rs): a slot per host channel, in which a       *)
(* parked future waits for its channel to halt or for a microframe, the    *)
(* one handler that serves them all, and the channels the blocking methods *)
(* drive beside them.  The root port's own latch is left out.              *)
(*                                                                         *)
(* The core is external: a channel that runs halts some time, microframes  *)
(* pass whatever the handler does, and both sources are levels.  An abort  *)
(* halts a running channel within its budget; one of a channel that has    *)
(* halted already may leave it dead for good (dwc2.rs:1288-1290).          *)
(***************************************************************************)
EXTENDS Naturals

CONSTANTS Chan,      \* host channels
          Polled,    \* those the blocking methods use as well
          Frames     \* bound: microframes of a frame (8 in the code)

ASSUME FramesAssumption == Frames \in Nat \ {0}

VARIABLES user,      \* [Chan -> what its owner does]: "idle", "armed", "waiting", "polling"
          wait,      \* SLOTS[c].wait: NoWait, ForHalt or a microframe
          ready,     \* SLOTS[c].ready: "none", a halt's outcome, or "frame"
          waker,     \* SLOTS[c].waker is set
          due,       \* the owner's task is to be polled
          chan,      \* "off", "live", or halted with an outcome in HCINT
          wedged,    \* channels that have gone dead: they run and never halt
          unmasked,  \* HAINTMSK
          apart,     \* channels whose caller's data toggle is not the device's
          cut,       \* history: a transfer was dropped since the endpoint was set up
          frame, sof, sofm   \* HFNUM, GINTSTS.SOF, GINTMSK.SOFM

owners == <<user, due, apart, cut>>
slots == <<wait, ready, waker>>
bus == <<frame, sof>>
vars == <<owners, slots, chan, wedged, unmasked, bus, sofm>>

Outcome == {"xfrc", "nak"}
\* Wait::None and Wait::Halt, beside the microframes.
NoWait == Frames
ForHalt == Frames + 1

Init == /\ user = [c \in Chan |-> "idle"] /\ due = [c \in Chan |-> FALSE]
        /\ wait = [c \in Chan |-> NoWait] /\ ready = [c \in Chan |-> "none"] /\ waker = [c \in Chan |-> FALSE]
        /\ chan = [c \in Chan |-> "off"] /\ wedged = {} /\ unmasked = {}
        /\ apart = {} /\ cut = {}
        /\ frame = 0 /\ sof = FALSE /\ sofm = FALSE

AnyFrameWaiter(w) == \E c \in Chan : w[c] < Frames

\* One of the two toggles of c moves on.
Flip(c) == IF c \in apart THEN apart \ {c} ELSE apart \cup {c}

-----------------------------------------------------------------------------
(* The core and the bus *)

Microframe == /\ frame' = (frame + 1) % Frames /\ sof' = TRUE
              /\ UNCHANGED <<owners, slots, chan, wedged, unmasked, sofm>>

Halt(c) == /\ chan[c] = "live" /\ c \notin wedged
           /\ \E how \in Outcome :
                /\ chan' = [chan EXCEPT ![c] = how]
                /\ apart' = IF how = "xfrc" THEN Flip(c) ELSE apart
           /\ UNCHANGED <<user, due, cut, slots, wedged, unmasked, bus, sofm>>

-----------------------------------------------------------------------------
(* The handler *)

HaltedNow == {c \in Chan : chan[c] \in Outcome}
Line == (sof /\ sofm) \/ (HaltedNow \cap unmasked # {})

\* The slots the handler resolves: a halt it captures, a microframe that is the counter's now.
Resolved == {c \in HaltedNow : wait[c] = ForHalt} \cup {c \in Chan : sof /\ wait[c] = frame}

\* Mutant: every halted channel is acknowledged, whoever waits for it.
OnIrqAll ==
  /\ Line
  /\ LET hit == HaltedNow \cup Resolved
     IN /\ wait' = [c \in Chan |-> IF c \in hit THEN NoWait ELSE wait[c]]
        /\ ready' = [c \in Chan |-> IF c \notin hit THEN ready[c]
                                    ELSE IF wait[c] = ForHalt THEN chan[c] ELSE "frame"]
        /\ due' = [c \in Chan |-> due[c] \/ (c \in hit /\ waker[c])]
        /\ waker' = [c \in Chan |-> waker[c] /\ c \notin hit]
        /\ chan' = [c \in Chan |-> IF c \in HaltedNow THEN "off" ELSE chan[c]]
        /\ sofm' = (sofm /\ (sof => AnyFrameWaiter(wait')))
  /\ sof' = FALSE
  /\ UNCHANGED <<user, apart, cut, wedged, unmasked, frame>>

\* on_irq: SOF cleared, HFNUM read once; then every slot is served by what it waits for, and start of frame masked behind the last that awaits one.
OnIrq ==
  /\ Line
  /\ wait' = [c \in Chan |-> IF c \in Resolved THEN NoWait ELSE wait[c]]
  /\ ready' = [c \in Chan |-> IF c \notin Resolved THEN ready[c]
                              ELSE IF wait[c] = ForHalt THEN chan[c] ELSE "frame"]
  /\ due' = [c \in Chan |-> due[c] \/ (c \in Resolved /\ waker[c])]
  /\ waker' = [c \in Chan |-> waker[c] /\ c \notin Resolved]
  /\ chan' = [c \in Chan |-> IF c \in Resolved /\ wait[c] = ForHalt THEN "off" ELSE chan[c]]
  /\ sofm' = (sofm /\ (sof => AnyFrameWaiter(wait')))
  /\ sof' = FALSE
  /\ UNCHANGED <<user, apart, cut, wedged, unmasked, frame>>

-----------------------------------------------------------------------------
(* The owners *)

\* arm: the slot claimed, the two masks recomputed from the whole table.
Arm(c, w) == /\ wait' = [wait EXCEPT ![c] = w]
             /\ ready' = [ready EXCEPT ![c] = "none"] /\ waker' = [waker EXCEPT ![c] = FALSE]
             /\ sofm' = AnyFrameWaiter(wait')
             /\ unmasked' = IF w = ForHalt THEN unmasked \cup {c} ELSE unmasked \ {c}

\* Mutant: the last to leave is not looked for.
DisarmAlone(c) == /\ wait' = [wait EXCEPT ![c] = NoWait]
                  /\ ready' = [ready EXCEPT ![c] = "none"] /\ waker' = [waker EXCEPT ![c] = FALSE]
                  /\ sofm' = FALSE
                  /\ unmasked' = unmasked \ {c}

Disarm(c) == /\ wait' = [wait EXCEPT ![c] = NoWait]
             /\ ready' = [ready EXCEPT ![c] = "none"] /\ waker' = [waker EXCEPT ![c] = FALSE]
             /\ sofm' = (sofm /\ AnyFrameWaiter(wait'))
             /\ unmasked' = unmasked \ {c}

\* start_and_wait: the slot is claimed before the channel is enabled.
Begin(c) == /\ user[c] = "idle"
            /\ Arm(c, ForHalt)
            /\ user' = [user EXCEPT ![c] = "armed"]
            /\ UNCHANGED <<due, apart, cut, chan, wedged, bus>>

\* start_channel clears what is left in HCINT and enables the channel.
StartChannel(c) == /\ user[c] = "armed"
                   /\ chan' = [chan EXCEPT ![c] = "live"]
                   /\ user' = [user EXCEPT ![c] = "waiting"] /\ due' = [due EXCEPT ![c] = TRUE]
                   /\ UNCHANGED <<slots, wedged, unmasked, apart, cut, bus, sofm>>

\* wait_for_microframe_async, for a microframe the counter was not at when it looked.
AwaitFrame(c, f) == /\ user[c] = "idle"
                    /\ Arm(c, f)
                    /\ user' = [user EXCEPT ![c] = "waiting"] /\ due' = [due EXCEPT ![c] = TRUE]
                    /\ UNCHANGED <<apart, cut, chan, wedged, bus>>

\* SlotWait's poll, resolved: what the handler captured is taken, and the slot disarmed.  A packet
\* that went through moves the caller's toggle on; one that did not leaves it.
PollReady(c) == /\ user[c] = "waiting" /\ due[c] /\ ready[c] # "none"
                /\ apart' = IF ready[c] = "xfrc" THEN Flip(c) ELSE apart
                /\ Disarm(c)
                /\ user' = [user EXCEPT ![c] = "idle"] /\ due' = [due EXCEPT ![c] = FALSE]
                /\ UNCHANGED <<cut, chan, wedged, bus>>

PollPending(c) == /\ user[c] = "waiting" /\ due[c] /\ ready[c] = "none"
                  /\ waker' = [waker EXCEPT ![c] = TRUE] /\ due' = [due EXCEPT ![c] = FALSE]
                  /\ UNCHANGED <<user, wait, ready, apart, cut, chan, wedged, unmasked, bus, sofm>>

\* SlotWait's drop: a halt not yet captured is aborted, though the channel may have halted; one that
\* was captured has its channel off.
Drop(c) == /\ user[c] = "waiting"
           /\ Disarm(c)
           /\ chan' = [chan EXCEPT ![c] = IF wait[c] = ForHalt THEN "off" ELSE @]
           /\ wedged' \in {wedged} \cup IF wait[c] = ForHalt /\ chan[c] \in Outcome THEN {wedged \cup {c}} ELSE {}
           /\ cut' = IF wait[c] = ForHalt \/ ready[c] \in Outcome THEN cut \cup {c} ELSE cut
           /\ user' = [user EXCEPT ![c] = "idle"] /\ due' = [due EXCEPT ![c] = FALSE]
           /\ UNCHANGED <<apart, bus>>

\* The blocking methods: start_channel, then HCINT polled by its owner.
BeginPolled(c) == /\ user[c] = "idle" /\ c \in Polled
                  /\ chan' = [chan EXCEPT ![c] = "live"] /\ user' = [user EXCEPT ![c] = "polling"]
                  /\ UNCHANGED <<due, apart, cut, slots, wedged, unmasked, bus, sofm>>

Polls(c) == /\ user[c] = "polling" /\ chan[c] \in Outcome
            /\ apart' = IF chan[c] = "xfrc" THEN Flip(c) ELSE apart
            /\ chan' = [chan EXCEPT ![c] = "off"] /\ user' = [user EXCEPT ![c] = "idle"]
            /\ UNCHANGED <<due, cut, slots, wedged, unmasked, bus, sofm>>

\* wait_for_halt's timeout and abort.
TimesOut(c) == /\ user[c] = "polling" /\ c \in wedged /\ chan[c] = "live"
               /\ chan' = [chan EXCEPT ![c] = "off"] /\ user' = [user EXCEPT ![c] = "idle"]
               /\ UNCHANGED <<due, apart, cut, slots, wedged, unmasked, bus, sofm>>

\* The endpoint set up again, from DATA0.
Configure(c) == /\ user[c] = "idle" /\ c \in cut
                /\ apart' = apart \ {c} /\ cut' = cut \ {c}
                /\ UNCHANGED <<user, due, slots, chan, wedged, unmasked, bus, sofm>>

Go(c) == StartChannel(c) \/ PollReady(c) \/ PollPending(c) \/ Polls(c) \/ TimesOut(c)
Choose(c) == Begin(c) \/ Drop(c) \/ BeginPolled(c) \/ Configure(c) \/ \E f \in 0..Frames - 1 : AwaitFrame(c, f)
Next == \/ Microframe \/ OnIrq
        \/ \E c \in Chan : Halt(c) \/ Go(c) \/ Choose(c)

\* Channels halt, microframes pass, the handler is taken, tasks run; and a handler that is late
\* for a microframe is in time for it another time round.
Fairness == /\ WF_vars(OnIrq) /\ WF_vars(Microframe)
            /\ \A c \in Chan : WF_vars(Halt(c)) /\ WF_vars(Go(c)) /\ SF_vars(OnIrq /\ sof /\ wait[c] = frame)
Spec == Init /\ [][Next]_vars
FairSpec == Spec /\ Fairness

-----------------------------------------------------------------------------
(* Properties *)

TypeOK == /\ user \in [Chan -> {"idle", "armed", "waiting", "polling"}]
          /\ wait \in [Chan -> 0..ForHalt]
          /\ ready \in [Chan -> Outcome \cup {"none", "frame"}]
          /\ waker \in [Chan -> BOOLEAN] /\ due \in [Chan -> BOOLEAN]
          /\ chan \in [Chan -> Outcome \cup {"off", "live"}] /\ wedged \subseteq Chan
          /\ unmasked \subseteq Chan /\ cut \subseteq Chan /\ apart \subseteq Chan
          /\ frame \in 0..Frames - 1 /\ sof \in BOOLEAN /\ sofm \in BOOLEAN

\* Start of frame is on while, and only while, some channel waits for a microframe, though all
\* channels share the one mask and come and go in any order.
SofWhileAwaited == sofm <=> AnyFrameWaiter(wait)

\* asynch.rs: a level the handler would not clear never reaches it.  A channel is let through only
\* for a slot that waits for its halt, so what the blocking methods poll stays theirs.
NoStorm == \A c \in HaltedNow \cap unmasked : wait[c] = ForHalt

\* A channel runs only for an owner that will see it halt; none is left live behind a dropped wait.
LiveIsOwned == \A c \in Chan : chan[c] # "off" => user[c] = "polling" \/ (user[c] = "waiting" /\ wait[c] = ForHalt)

\* The caller's toggle and the device's agree between transfers, whatever was refused or retried,
\* unless a transfer was dropped: what it moved, nobody learns.
TogglesAgree == \A c \in Chan \ cut : user[c] = "idle" => c \notin apart

\* The slots' books are right between any two steps of handler, futures and drops.
ChannelsSound == SofWhileAwaited /\ NoStorm /\ LiveIsOwned /\ TogglesAgree

\* Every wait ends, for a halt or a microframe, parked or polled, whoever else waits or is dropped
\* beside it: no halt is taken from the owner that looks for it.  A future that starts a transfer on a
\* channel gone dead waits for ever, as it has no timeout (wait_for_halt has).
WaitsEnd == \A c \in Chan : user[c] # "idle" ~> user[c] = "idle" \/ (c \in wedged /\ wait[c] = ForHalt)
=============================================================================
