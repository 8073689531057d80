------------------------------ MODULE SdBringUp -------------------------------
(***************************************************************************)
(* Bringing up an SD card (hal/src/sd.rs, init_with and what it            *)
(* negotiates): power, the host's reset, identification, the switch to     *)
(* 1.8V, the bus width and the speed, each of which card and host must     *)
(* take together, and the fresh starts in a lower mode when they do not.   *)
(*                                                                         *)
(* The card is external: it may lack a mode, refuse a command, or take one *)
(* whose answer is lost.                                                   *)
(***************************************************************************)
EXTENDS Naturals

\* BusMode, in its order.
OneBit == 1  FourBit == 2  HighSpeed == 3  Sdr50 == 4  Sdr104 == 5

VARIABLES pi5,     \* the bcm2712 build: power by GPIO, UHS modes, resets after a failure; constant
          step,    \* what init_with does next; "up" or "failed" at its end
          max,     \* the mode it was asked for at most: lower with every fresh start
          card,    \* [volt, width, speed] of the card
          host,    \* and of the controller
          circuit, \* the command circuit: "free", "stuck" until it is reset, or "unclocked":
                 \* the card's clock was stopped and not started again
          able,    \* the fastest mode the card has
          result   \* the BusMode returned; 0 before and without one

vars == <<pi5, step, max, card, host, circuit, able, result>>

Fresh == [volt |-> 3, width |-> 1, speed |-> OneBit]
Line == [volt : {2, 3}, width : {1, 4}, speed : {OneBit, HighSpeed, Sdr50, Sdr104}]

\* The bootloader read this program off the card, and leaves it in any mode it likes.
Init == /\ pi5 \in BOOLEAN /\ step = "power" /\ max \in OneBit..Sdr104 /\ able \in OneBit..Sdr104
        /\ card \in IF pi5 THEN Line ELSE {Fresh}
        /\ host \in {card} /\ circuit = "free" /\ result = 0

Give(mode) == /\ step' = "up" /\ result' = mode
              /\ UNCHANGED <<pi5, max, able>>
Again(lower) == /\ step' = "power" /\ max' = lower
                /\ UNCHANGED <<pi5, able, result>>
\* A command that fails may leave its circuit stuck; set_clock, on the Pi 5, the clock stopped.
Left == {"free", "stuck"} \cup IF pi5 THEN {"unclocked"} ELSE {}
Go(next) == step' = next /\ UNCHANGED <<pi5, max, able, result>>

\* bcm2712_power_cycle_card, or the firmware's power domain; the lines idle high, the clock known.
Power == /\ step = "power"
         /\ card' = IF pi5 THEN Fresh ELSE card
         /\ \/ Go("reset") /\ UNCHANGED <<host, circuit>>
            \/ Go("failed") /\ UNCHANGED <<host, circuit>>

\* SRST_HC and the 400kHz clock.
ResetHost == /\ step = "reset"
             /\ host' = Fresh /\ UNCHANGED card
             /\ \/ Go("identify") /\ circuit' = "free"
                \/ Go("failed") /\ circuit' \in Left

\* CMD0, CMD8 and ACMD41; an empty slot is told from a broken card by resetting the circuit
\* and asking once more.  A card agrees to 1.8V only here, and only if it is asked.
Identify == /\ step = "identify"
            /\ UNCHANGED <<card, host>>
            /\ \/ /\ Go(IF pi5 /\ max >= Sdr50 /\ able >= Sdr50 THEN "signal" ELSE "select")
                  /\ UNCHANGED circuit
               \/ Go("failed") /\ circuit' \in {"free", "stuck"}

\* switch_to_1v8: CMD11, the clock stopped, the rail: half-done, it is started over at 3.3V.
Signal == /\ step = "signal"
          /\ \/ /\ card' = [card EXCEPT !.volt = 2] /\ host' = [host EXCEPT !.volt = 2]
                /\ Go("select") /\ UNCHANGED circuit
             \/ /\ card' \in {card, [card EXCEPT !.volt = 2]}
                /\ host' \in {host, [host EXCEPT !.volt = 2]}
                /\ circuit' \in Left
                /\ Again(HighSpeed)

\* CMD2, CMD3, the 25MHz clock, CMD7.
Select == /\ step = "select"
          /\ UNCHANGED <<card, host>>
          /\ \/ Go(IF max >= FourBit THEN "width" ELSE "speed") /\ UNCHANGED circuit
             \/ Go("failed") /\ circuit' \in Left

\* negotiate_four_bit_bus, whose failure is taken for a card without four lines: the circuit
\* is left as it is, and a card that took ACMD6 stays at four.
Width == /\ step = "width"
         /\ Go("speed")
         /\ \/ /\ able >= FourBit
               /\ card' = [card EXCEPT !.width = 4] /\ host' = [host EXCEPT !.width = 4]
               /\ UNCHANGED circuit
            \/ able < FourBit /\ UNCHANGED <<card, host, circuit>>
            \/ /\ card' \in {card, [card EXCEPT !.width = IF able >= FourBit THEN 4 ELSE 1]}
               /\ circuit' \in {"free", "stuck"} /\ UNCHANGED host

FourWide == host.width = 4

\* Default speed is what there is without the Pi 5's modes, or without four lines.
SpeedDefault == /\ step = "speed" /\ host.volt = 3
                /\ ~(pi5 /\ FourWide /\ max >= HighSpeed)
                /\ Give(IF FourWide THEN FourBit ELSE OneBit)
                /\ UNCHANGED <<card, host, circuit>>

\* negotiate_high_speed: a command's failure resets the circuits, and the host's bit goes with
\* the card's; a clock that cannot be set leaves both as they are, and the clock stopped.
SpeedHigh == /\ step = "speed" /\ host.volt = 3 /\ pi5 /\ FourWide /\ max >= HighSpeed
             /\ \/ /\ able >= HighSpeed
                   /\ card' = [card EXCEPT !.speed = HighSpeed] /\ host' = [host EXCEPT !.speed = HighSpeed]
                   /\ \/ Give(HighSpeed) /\ UNCHANGED circuit
                      \/ Give(FourBit) /\ circuit' \in {circuit, "unclocked"}
                \/ /\ card' \in {card, [card EXCEPT !.speed = IF able >= HighSpeed THEN HighSpeed ELSE OneBit]}
                   /\ Give(FourBit) /\ circuit' = "free" /\ UNCHANGED host
                \/ Give(FourBit) /\ UNCHANGED <<card, host, circuit>>   \* the card says it cannot

\* negotiate_uhs, at 1.8V: without four lines, or when the card cannot be asked for its modes or
\* names none, a fresh start at 3.3V.
NoUhs == /\ step = "speed" /\ host.volt = 2
         /\ circuit' = IF FourWide THEN "free" ELSE circuit
         /\ Again(HighSpeed) /\ UNCHANGED <<card, host>>

\* The fastest mode the card and the caller have, and tune; or a fresh start one mode lower.
Uhs == /\ step = "speed" /\ host.volt = 2 /\ FourWide
       /\ LET mode == IF max >= Sdr104 /\ able >= Sdr104 THEN Sdr104 ELSE Sdr50 IN
          \/ /\ card' = [card EXCEPT !.speed = mode] /\ host' = [host EXCEPT !.speed = mode]
             /\ Give(mode) /\ circuit' = "free"
          \/ /\ card' \in {card, [card EXCEPT !.speed = mode]}
             /\ host' \in {host, [host EXCEPT !.speed = mode]}
             /\ circuit' \in {"free", "unclocked"}
             /\ Again(IF mode = Sdr104 THEN Sdr50 ELSE HighSpeed)

Next == Power \/ ResetHost \/ Identify \/ Signal \/ Select \/ Width \/ SpeedDefault \/ SpeedHigh \/ NoUhs \/ Uhs

\* init_with runs to its end on the core that called it.
Fairness == WF_vars(Next)
Spec == Init /\ [][Next]_vars
FairSpec == Spec /\ Fairness

-----------------------------------------------------------------------------
(* Properties *)

TypeOK == /\ pi5 \in BOOLEAN /\ step \in {"power", "reset", "identify", "signal", "select", "width", "speed", "up", "failed"}
          /\ max \in OneBit..Sdr104 /\ able \in OneBit..Sdr104
          /\ card \in Line /\ host \in Line /\ circuit \in {"free", "stuck", "unclocked"}
          /\ result \in 0..Sdr104

Up == step = "up"

\* Of a card that init_with hands over: it and the host are at one voltage, and the host is set no
\* faster than the card.  From FourBit up they are at one width, and the command circuit starts
\* commands, unless high speed was tried and given up (sd.rs:1568-1572: its clock may be stopped).
\* At OneBit this is so only when four lines were not asked for: a failure while they are
\* negotiated leaves the circuit, and the card's width, as they are (sd.rs:983-990).
Usable == Up => /\ card.volt = host.volt /\ host.speed <= card.speed
                /\ result >= FourBit \/ max < FourBit => card.width = host.width
                /\ \/ result >= HighSpeed \/ max < FourBit
                   \/ result = FourBit /\ ~(pi5 /\ max >= HighSpeed)
                   => circuit = "free"

\* The mode it reports is one the bus is in, at the voltage that mode needs, and no faster than
\* the caller asked for in any of its starts.
ReportedIsReal == Up => /\ result <= max
                        /\ result >= FourBit <=> host.width = 4
                        /\ result >= HighSpeed => host.speed = result /\ card.speed = result
                        /\ result >= Sdr50 <=> host.volt = 2

\* However modes fail, the fresh starts come to an end.
Settles == <>(step \in {"up", "failed"})
=============================================================================
