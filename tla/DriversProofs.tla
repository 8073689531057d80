---------------------------- MODULE DriversProofs ----------------------------
(***************************************************************************)
(* The safety of the time driver and of the drivers of MCDrivers.          *)
(*                                                                         *)
(* Deadlines, of TimeDriver, whose behaviours are its own: none is missed, *)
(* whatever time passes between the steps, for every counter, clamp and    *)
(* set of tasks.                                                           *)
(*                                                                         *)
(* MCDrivers, for any pins, depths, lengths and cores: an inductive        *)
(* invariant for each driver, and the four invariants of the composition   *)
(* from them.  A driver's step keeps its own invariant whichever program   *)
(* runs, because it leaves the others' variables alone.                    *)
(*                                                                         *)
(* GPIO.  A Drop reads a register and writes it back later, and the        *)
(* handler may disarm pins in between: what it read may have too many      *)
(* pins but never too few (Mid, Reach), because nothing else arms a pin    *)
(* while a Drop runs.  Until a wait is dropped, what is armed or latched   *)
(* is of a pin that is waited for (Calm), and what it is woken by is an    *)
(* event it waited for (Risen).                                            *)
(***************************************************************************)
EXTENDS TimeDriver, MCDrivers, TLAPS

(* ------------------------------ deadlines ------------------------------- *)

\* Quotient and remainder are one way to write a number.
LEMMA DivMod ==
  ASSUME NEW W \in Nat \ {0}, NEW m \in Nat
  PROVE  m = ((m \div W) * W) + (m % W) /\ m % W \in 0..(W - 1) /\ m \div W \in Nat
OBVIOUS

\* The high half of the counter does not go back.
LEMMA DivMono ==
  ASSUME NEW W \in Nat \ {0}, NEW m \in Nat, NEW n \in Nat, m <= n
  PROVE  m \div W <= n \div W
OBVIOUS

\* now_micros: a low half read while the high half was what it is again later gives the
\* time at which the low half was read.
LEMMA OneMoment ==
  ASSUME NEW W \in Nat \ {0}, NEW n \in Nat, NEW t \in 0..n, NEW h \in Nat,
         h <= t \div W, n \div W = h
  PROVE  (h * W) + (t % W) = t
<1>1. t \div W <= h
  BY DivMono
<1>2. t \div W = h
  BY <1>1, DivMod
<1>3. t \in Nat /\ t = ((t \div W) * W) + (t % W)
  BY DivMod
<1> QED
  BY <1>2, <1>3

\* The compare holds a remainder, and the high register a quotient.
LEMMA Registers ==
  /\ Wrap \in Nat \ {0} /\ MaxDelta \in Nat /\ MaxDelta >= 1 /\ MaxDelta < Wrap
  /\ \A n \in Nat : n % Wrap \in 0..(Wrap - 1) /\ n \div Wrap \in Nat
<1>1. Wrap \in Nat \ {0} /\ MaxDelta \in Nat /\ MaxDelta >= 1 /\ MaxDelta < Wrap
  BY TimeAssumption
<1> QED
  BY <1>1, DivMod

\* What a task may ask for is a time before the end of time.
LEMMA Deadlines == \A n \in 0..MaxNow, d \in Delay : n + d \in 0..Never /\ n + d > n /\ n + d # Never
BY TimeAssumption

(* The inductive invariant *)

\* The compare was written too late, and nothing has matched.
Behind == pc = "confirm" /\ ~matched /\ target <= now

\* A time being read is one of the past; one read to confirm is not before what it confirms.
ReadInv == /\ reg = "lo" => hi <= now \div Wrap
           /\ reg = "again" => \E t \in 0..now : /\ lo = t % Wrap /\ hi <= t \div Wrap
                                                 /\ Behind => target <= t
           /\ ~Reads => reg = "hi"

\* What is about to be armed is not later than any deadline, nor out of the compare's reach.
ArmInv == /\ pc = "compare" => \A t \in Task : next <= queue[t]
          /\ pc \in {"write", "confirm"} => (\A t \in Task : target <= queue[t]) /\ target <= now + MaxDelta
          /\ pc = "confirm" => c1 = target % Wrap

\* Before init the driver has nothing to do, and the program has not begun.
Quiet == core = "boot" => /\ pc = "free" /\ ready = {}
                          /\ \A t \in Task : queue[t] = Never /\ wants[t] = Never

Batched == core # "tasks" => batch = {} /\ running = NoTask

\* A waiting task is in the driver's queue, in time, or is about to be polled or to queue.
Queued == \A t \in Task : wants[t] # Never => queue[t] <= wants[t] \/ t \in ready \cup batch \/ running = t

Signalled == core \in {"tasks", "wfe", "asleep"} /\ ready # {} => event

IInv == TypeOK /\ ReadInv /\ ArmInv /\ Armed /\ Quiet /\ Batched /\ Queued /\ Signalled

-----------------------------------------------------------------------------
(* The time a finished read gives *)

LEMMA SeenIsPast ==
  ASSUME IInv, Sees
  PROVE  /\ Seen \in 0..now
         /\ Behind => target <= Seen
<1> USE TimeAssumption DEF IInv, TypeOK
<1>1. PICK t \in 0..now : lo = t % Wrap /\ hi <= t \div Wrap /\ (Behind => target <= t)
  BY DEF ReadInv, Sees
<1>2. Wrap \in Nat \ {0} /\ now \in Nat /\ now \div Wrap = hi
  BY DEF Sees
<1>3. (hi * Wrap) + (t % Wrap) = t
  BY <1>1, <1>2, OneMoment
<1> QED
  BY <1>1, <1>3 DEF Seen

-----------------------------------------------------------------------------
(* Type correctness *)

LEMMA Typing == TypeOK /\ [Next]_vars => TypeOK'
<1> SUFFICES ASSUME TypeOK, [Next]_vars PROVE TypeOK'
  OBVIOUS
<1>0. now % Wrap \in 0..(Wrap - 1) /\ now \div Wrap \in Nat /\ target % Wrap \in 0..(Wrap - 1)
  <2>1. now \in Nat /\ target \in Nat
    BY TimeAssumption DEF TypeOK
  <2> QED
    BY <2>1, Registers
<1> USE TimeAssumption DEF TypeOK
<1>1. CASE Tick
  <2>1. now' \in 0..MaxNow /\ UNCHANGED <<c1, executor, driver>>
    BY <1>1 DEF Tick
  <2>2. matched' \in BOOLEAN
    BY <1>1 DEF Tick
  <2> QED
    BY <2>1, <2>2 DEF executor, driver, reading
<1>2. CASE ReadHi \/ ReadTorn
  <2>1. hi' \in Nat /\ reg' \in {"hi", "lo"} /\ lo' \in 0..(Wrap - 1)
    BY <1>0, <1>2 DEF ReadHi, ReadTorn
  <2>2. UNCHANGED <<hardware, executor, queue, pc, next, target>>
    BY <1>2 DEF ReadHi, ReadTorn
  <2> QED
    BY <2>1, <2>2 DEF hardware, executor
<1>3. CASE ReadLo
  <2>1. lo' \in 0..(Wrap - 1) /\ reg' = "again"
    BY <1>0, <1>3 DEF ReadLo
  <2>2. UNCHANGED <<hardware, executor, queue, pc, hi, next, target>>
    BY <1>3 DEF ReadLo
  <2> QED
    BY <2>1, <2>2 DEF hardware, executor
<1>4. CASE Drain
  <2>1. ready' \subseteq Task /\ event' \in BOOLEAN
    BY <1>4 DEF Drain, Wake
  <2>2. queue' \in [Task -> 0..Never]
    BY <1>4 DEF Drain
  <2>3. next' \in 0..Never
    BY <1>4, <2>2 DEF Drain
  <2> QED
    BY <1>4, <2>1, <2>2, <2>3 DEF Drain, Sees, hardware
<1>5. CASE Compare
  <2>1. target' \in Nat
    BY <1>5 DEF Compare, Least, Seen
  <2> QED
    BY <1>5, <2>1 DEF Compare, Sees, hardware, executor
<1>6. CASE Write
  BY <1>0, <1>6 DEF Write, executor, reading
<1>7. CASE Confirm
  <2>1. pc' \in {"free", "clear"} /\ target' = 0 /\ UNCHANGED <<hardware, executor, queue, next>>
    BY <1>7 DEF Confirm
  <2>2. reg' = "hi" /\ hi' = 0 /\ lo' = 0
    BY <1>7 DEF Confirm, Sees
  <2> QED
    BY <2>1, <2>2 DEF hardware, executor
<1>15. CASE Clear
  BY <1>15 DEF Clear, executor, reading
<1>8. CASE Install
  <2>1. ready' \subseteq Task /\ event' \in BOOLEAN
    BY <1>8 DEF Install, Wake
  <2> QED
    BY <1>8, <2>1 DEF Install, driver, reading
<1>9. CASE OnIrq
  BY <1>9 DEF OnIrq, reading
<1>10. ASSUME NEW t \in Task, OtherWake(t) PROVE TypeOK'
  <2>1. ready' \subseteq Task /\ event' \in BOOLEAN
    BY <1>10 DEF OtherWake, Wake
  <2> QED
    BY <1>10, <2>1 DEF OtherWake, hardware, driver, reading
<1>11. CASE Poll \/ PollEnds \/ Wfe
  <2>1. UNCHANGED <<hardware, running, wants, driver>>
    BY <1>11 DEF Poll, PollEnds, Wfe
  <2>2. /\ ready' \subseteq Task /\ batch' \subseteq Task /\ event' \in BOOLEAN
        /\ core' \in {"poll", "tasks", "wfe", "asleep"}
    BY <1>11 DEF Poll, PollEnds, Wfe
  <2> QED
    BY <2>1, <2>2 DEF hardware, driver, reading
<1>12. ASSUME NEW t \in Task, PollTask(t) PROVE TypeOK'
  <2>1. wants' \in [Task -> 0..Never]
    BY <1>12, Deadlines DEF PollTask
  <2>2. running' \in Task \cup {NoTask} /\ batch' \subseteq Task
    BY <1>12 DEF PollTask
  <2>3. UNCHANGED <<hardware, core, event, ready, driver>>
    BY <1>12 DEF PollTask
  <2> QED
    BY <2>1, <2>2, <2>3 DEF hardware, driver, reading
<1>13. CASE Schedule
  BY <1>13 DEF Schedule, hardware, reading
<1>14. CASE UNCHANGED vars
  BY <1>14 DEF vars, hardware, executor, driver, reading
<1> QED
  BY <1>1, <1>2, <1>3, <1>4, <1>5, <1>6, <1>7, <1>8, <1>9, <1>10, <1>11, <1>12, <1>13, <1>14, <1>15
  DEF Next, Thread, Rearm

-----------------------------------------------------------------------------
(* Reading the time *)

\* A step that leaves the registers being read alone, and the confirmation, keeps a read as
\* good as it was; time may pass.
LEMMA ReadKept ==
  ASSUME IInv, TypeOK', UNCHANGED <<reading, target>>, now <= now', Behind' => Behind, Reads' <=> Reads
  PROVE  ReadInv'
<1> USE DEF IInv, TypeOK, ReadInv, reading
<1>1. reg' = "lo" => hi' <= now' \div Wrap
  <2> SUFFICES ASSUME reg = "lo" PROVE hi <= now' \div Wrap
    OBVIOUS
  <2>1. now \div Wrap <= now' \div Wrap /\ now \div Wrap \in Nat /\ now' \div Wrap \in Nat
    <3>1. now \in Nat /\ now' \in Nat
      OBVIOUS
    <3> QED
      BY <3>1, Registers, DivMono
  <2> QED
    BY <2>1
<1>2. ASSUME reg' = "again"
      PROVE  \E t \in 0..now' : lo' = t % Wrap /\ hi' <= t \div Wrap /\ (Behind' => target' <= t)
  <2>1. PICK t \in 0..now : lo = t % Wrap /\ hi <= t \div Wrap /\ (Behind => target <= t)
    BY <1>2
  <2>2. t \in 0..now'
    BY <2>1
  <2> QED
    BY <2>1, <2>2
<1>3. ~Reads' => reg' = "hi"
  OBVIOUS
<1> QED
  BY <1>1, <1>2, <1>3

LEMMA ReadStep == IInv /\ [Next]_vars => ReadInv'
<1> SUFFICES ASSUME IInv, [Next]_vars PROVE ReadInv'
  OBVIOUS
<1>0. TypeOK /\ TypeOK' /\ now \in Nat
  BY Typing DEF IInv, TypeOK
<1>1. CASE Tick
  <2>1. UNCHANGED <<reading, target, pc, c1>> /\ now' = now + 1 /\ matched' = (matched \/ now' % Wrap = c1)
    BY <1>1 DEF Tick, driver
  <2>2. Reads' <=> Reads
    BY <2>1 DEF Reads
  <2>3. Behind' => Behind
    <3> SUFFICES ASSUME Behind', ~Behind PROVE FALSE
      OBVIOUS
    <3>1. pc = "confirm" /\ ~matched /\ target <= now' /\ now' % Wrap # c1
      BY <2>1 DEF Behind
    <3>2. target = now'
      BY <1>0, <2>1, <3>1 DEF Behind, TypeOK
    <3> QED
      BY <3>1, <3>2 DEF IInv, ArmInv
  <2>4. now <= now'
    BY <1>0, <2>1
  <2> QED
    BY <1>0, <2>1, <2>2, <2>3, <2>4, ReadKept
<1>2. CASE ReadHi
  <2>1. reg' = "lo" /\ hi' = now \div Wrap /\ now' = now /\ Reads'
    BY <1>2 DEF ReadHi, hardware, Reads
  <2>2. now \div Wrap <= now \div Wrap
    BY <1>0, Registers
  <2> QED
    BY <2>1, <2>2 DEF ReadInv
<1>3. CASE ReadLo
  <2>1. reg' = "again" /\ lo' = now % Wrap /\ hi' = hi /\ now' = now /\ target' = target /\ Reads'
    BY <1>3 DEF ReadLo, hardware, Reads
  <2>2. hi <= now \div Wrap
    BY <1>3 DEF ReadLo, IInv, ReadInv
  <2>3. now \in 0..now' /\ (Behind' => target' <= now)
    BY <1>0, <2>1 DEF Behind
  <2> QED
    BY <2>1, <2>2, <2>3 DEF ReadInv
<1>4. ASSUME reg' = "hi" PROVE ReadInv'
  BY <1>4 DEF ReadInv
<1>5. CASE ReadTorn \/ Drain \/ Compare \/ Confirm
  <2>1. reg' = "hi"
    BY <1>5 DEF ReadTorn, Drain, Compare, Confirm, Sees
  <2> QED
    BY <1>4, <2>1
<1>6. CASE Write \/ Clear \/ OnIrq \/ Schedule
  <2>1. ~Reads /\ reg' = reg
    BY <1>6 DEF Write, Clear, OnIrq, Schedule, Reads, reading
  <2>2. reg' = "hi"
    BY <2>1 DEF IInv, ReadInv
  <2> QED
    BY <1>4, <2>2
<1>7. ASSUME UNCHANGED <<driver, now>>, matched' = matched \/ core = "boot" PROVE ReadInv'
  <2>1. UNCHANGED <<reading, target, pc, now>>
    BY <1>7 DEF driver
  <2>2. Reads' <=> Reads
    BY <2>1 DEF Reads
  <2>3. Behind' => Behind
    BY <1>7, <2>1 DEF Behind, IInv, Quiet
  <2> QED
    BY <1>0, <2>1, <2>2, <2>3, ReadKept
<1>8. CASE Install \/ Poll \/ PollEnds \/ Wfe \/ UNCHANGED vars
  BY <1>7, <1>8 DEF Install, Poll, PollEnds, Wfe, hardware, vars
<1>9. ASSUME NEW t \in Task, PollTask(t) \/ OtherWake(t) PROVE ReadInv'
  BY <1>7, <1>9 DEF PollTask, OtherWake, hardware
<1> QED
  BY <1>1, <1>2, <1>3, <1>5, <1>6, <1>8, <1>9 DEF Next, Thread, Rearm

-----------------------------------------------------------------------------
(* Arming *)

LEMMA MatchKept ==
  ASSUME TypeOK, TypeOK', UNCHANGED c1, NEW at \in Nat, MatchesBy(at),
         \/ now' = now /\ (matched => matched')
         \/ now' = now + 1 /\ matched' = (matched \/ now' % Wrap = c1)
  PROVE  MatchesBy(at)'
<1>0. now \in Nat
  BY DEF TypeOK
<1>1. CASE now' = now /\ (matched => matched')
  BY <1>1 DEF MatchesBy
<1>2. CASE now' = now + 1 /\ matched' = (matched \/ now' % Wrap = c1)
  <2>1. CASE matched
    BY <1>2, <2>1 DEF MatchesBy
  <2>2. CASE ~matched
    <3>1. PICK d \in 1..MaxDelta : (now + d) % Wrap = c1 /\ now + d <= at
      BY <2>2 DEF MatchesBy
    <3>2. CASE d = 1
      BY <1>2, <3>1, <3>2 DEF MatchesBy
    <3>3. CASE d # 1
      <4>1. d - 1 \in 1..MaxDelta /\ now' + (d - 1) = now + d
        BY <1>0, <1>2, <3>3, Registers
      <4> QED
        BY <3>1, <4>1 DEF MatchesBy
    <3> QED
      BY <3>2, <3>3
  <2> QED
    BY <2>1, <2>2
<1> QED
  BY <1>1, <1>2

LEMMA ArmStep == IInv /\ [Next]_vars => ArmInv' /\ Armed'
<1> SUFFICES ASSUME IInv, [Next]_vars PROVE ArmInv' /\ Armed'
  OBVIOUS
<1>0. /\ TypeOK /\ TypeOK' /\ now \in Nat /\ MaxDelta \in Nat /\ target \in Nat
      /\ \A t \in Task : queue[t] \in Nat
  BY Typing, Registers, TimeAssumption DEF IInv, TypeOK
<1>1. CASE Tick
  <2>1. UNCHANGED <<pc, queue, next, target, c1>> /\ now' = now + 1 /\ matched' = (matched \/ now' % Wrap = c1)
    BY <1>1 DEF Tick, driver
  <2>2. ArmInv'
    BY <1>0, <2>1 DEF IInv, ArmInv
  <2>3. Armed'
    BY <1>0, <2>1, MatchKept DEF IInv, Armed
  <2> QED
    BY <2>2, <2>3
<1>2. ASSUME UNCHANGED <<now, c1, pc, queue, next, target>>, matched' = matched PROVE ArmInv' /\ Armed'
  BY <1>2 DEF IInv, ArmInv, Armed, MatchesBy
<1>3. CASE ReadHi \/ ReadLo \/ ReadTorn \/ Poll \/ PollEnds \/ Wfe \/ UNCHANGED vars
  BY <1>2, <1>3 DEF ReadHi, ReadLo, ReadTorn, Poll, PollEnds, Wfe, hardware, driver, vars
<1>4. ASSUME NEW t \in Task, PollTask(t) \/ OtherWake(t) PROVE ArmInv' /\ Armed'
  BY <1>2, <1>4 DEF PollTask, OtherWake, hardware, driver
<1>5. CASE Drain
  <2>1. pc' = "compare" /\ \A t \in Task : next' <= queue'[t]
    BY <1>0, <1>5 DEF Drain, TypeOK
  <2> QED
    BY <2>1 DEF ArmInv, Armed
<1>6. CASE Compare
  <2>1. Seen \in 0..now
    BY <1>6, SeenIsPast DEF Compare
  <2>2. CASE pc' = "drain"
    BY <2>2 DEF ArmInv, Armed
  <2>3. CASE pc' # "drain"
    <3>1. pc' = "write" /\ target' = Least(next, Seen + MaxDelta) /\ UNCHANGED <<now, queue>>
      BY <1>6, <2>3 DEF Compare, hardware
    <3>2. \A t \in Task : next <= queue[t]
      BY <1>6 DEF Compare, IInv, ArmInv
    <3>3. target' <= next /\ target' <= now + MaxDelta
      BY <1>0, <2>1, <3>1 DEF Least, TypeOK
    <3>4. \A t \in Task : target' <= queue[t]
      BY <1>0, <3>2, <3>3 DEF TypeOK
    <3> QED
      BY <3>1, <3>3, <3>4 DEF ArmInv, Armed
  <2> QED
    BY <2>2, <2>3
<1>7. CASE Write
  BY <1>7 DEF Write, IInv, ArmInv, Armed, reading
<1>8. CASE Confirm
  <2>1. CASE pc' = "clear"
    BY <2>1 DEF ArmInv, Armed
  <2>2. CASE pc' # "clear"
    <3>1. pc = "confirm" /\ pc' = "free" /\ Seen < target /\ UNCHANGED <<now, c1, matched, queue>>
      BY <1>0, <1>8, <2>2, SeenIsPast DEF Confirm, hardware
    <3>2. matched \/ now < target
      BY <1>0, <1>8, <3>1, SeenIsPast DEF Behind, Confirm
    <3>3. c1 = target % Wrap /\ target <= now + MaxDelta /\ \A t \in Task : target <= queue[t]
      BY <3>1 DEF IInv, ArmInv
    <3>4. CASE matched
      BY <3>1, <3>4 DEF ArmInv, Armed, MatchesBy
    <3>5. CASE now < target
      <4>1. target - now \in 1..MaxDelta /\ now + (target - now) = target
        BY <1>0, <3>3, <3>5
      <4>2. \A t \in Task : MatchesBy(queue[t])
        BY <3>3, <4>1 DEF MatchesBy
      <4>3. \A t \in Task : MatchesBy(queue[t])'
        BY <3>1, <4>2 DEF MatchesBy
      <4> QED
        BY <3>1, <4>3 DEF ArmInv, Armed
    <3> QED
      BY <3>2, <3>4, <3>5
  <2> QED
    BY <2>1, <2>2
<1>9. CASE Clear \/ OnIrq
  <2>1. pc' = "drain"
    BY <1>9 DEF Clear, OnIrq
  <2> QED
    BY <2>1 DEF ArmInv, Armed
<1>10. CASE Schedule
  <2>1. pc = "free"
    BY <1>10 DEF Schedule
  <2>2. CASE pc' = "drain"
    BY <2>2 DEF ArmInv, Armed
  <2>3. CASE UNCHANGED <<queue, pc>>
    <3>1. UNCHANGED <<now, c1, matched>>
      BY <1>10 DEF Schedule, hardware
    <3> QED
      BY <2>1, <2>3, <3>1 DEF IInv, ArmInv, Armed, MatchesBy
  <2> QED
    BY <1>10, <2>2, <2>3 DEF Schedule
<1>11. CASE Install
  <2>1. pc' = "free" /\ \A t \in Task : queue'[t] = Never
    BY <1>11 DEF Install, driver, IInv, Quiet
  <2> QED
    BY <2>1 DEF ArmInv, Armed
<1> QED
  BY <1>1, <1>3, <1>4, <1>5, <1>6, <1>7, <1>8, <1>9, <1>10, <1>11 DEF Next, Thread, Rearm

-----------------------------------------------------------------------------
(* Waking *)

LEMMA WakeStep == IInv /\ [Next]_vars => Quiet' /\ Batched' /\ Queued' /\ Signalled'
<1> SUFFICES ASSUME IInv, [Next]_vars PROVE Quiet' /\ Batched' /\ Queued' /\ Signalled'
  OBVIOUS
<1> USE DEF Quiet, Batched, Queued, Signalled
<1>0. /\ TypeOK /\ TypeOK' /\ Quiet /\ Batched /\ Queued /\ Signalled /\ NoTask \notin Task
      /\ \A t \in Task : queue[t] \in Nat /\ wants[t] \in Nat /\ wants[t] <= Never
  BY Typing, TimeAssumption DEF IInv, TypeOK
<1>1. ASSUME UNCHANGED <<executor, queue, pc>> PROVE Quiet' /\ Batched' /\ Queued' /\ Signalled'
  BY <1>0, <1>1 DEF executor
<1>2. CASE Tick \/ ReadHi \/ ReadLo \/ ReadTorn \/ UNCHANGED vars
  BY <1>1, <1>2 DEF Tick, ReadHi, ReadLo, ReadTorn, driver, vars
<1>3. ASSUME core # "boot", UNCHANGED <<executor, queue>> PROVE Quiet' /\ Batched' /\ Queued' /\ Signalled'
  BY <1>0, <1>3 DEF executor
<1>4. CASE Compare \/ Write \/ Confirm \/ Clear
  <2>1. core # "boot"
    BY <1>0, <1>4 DEF Compare, Write, Confirm, Clear
  <2> QED
    BY <1>3, <1>4, <2>1 DEF Compare, Write, Confirm, Clear
<1>5. CASE Drain
  <2> DEFINE due == {t \in Task : queue[t] <= Seen}
  <2>1. core # "boot" /\ UNCHANGED <<core, batch, running, wants>>
    BY <1>0, <1>5 DEF Drain
  <2>2. ready' = ready \cup (due \ batch) /\ event' = (event \/ (ready = {} /\ ready' # {}))
    BY <1>5 DEF Drain, Wake
  <2>3. queue' = [t \in Task |-> IF t \in due THEN Never ELSE queue[t]]
    BY <1>5 DEF Drain
  <2>4. Quiet' /\ Batched'
    BY <1>0, <2>1
  <2>5. Queued'
    BY <1>0, <2>1, <2>2, <2>3
  <2>6. Signalled'
    BY <1>0, <2>1, <2>2
  <2> QED
    BY <2>4, <2>5, <2>6
<1>6. CASE Install
  BY <1>0, <1>6 DEF Install, Wake, driver
<1>7. CASE OnIrq
  <2>1. core # "boot" /\ core' \in {core, "poll"} /\ core' # "boot" /\ (core' = "tasks" <=> core = "tasks")
    BY <1>7 DEF OnIrq
  <2>2. UNCHANGED <<event, ready, batch, running, wants, queue>>
    BY <1>7 DEF OnIrq
  <2> QED
    BY <1>0, <2>1, <2>2
<1>8. ASSUME NEW t \in Task, OtherWake(t) PROVE Quiet' /\ Batched' /\ Queued' /\ Signalled'
  <2>1. core # "boot" /\ UNCHANGED <<core, batch, running, wants, queue>>
    BY <1>8 DEF OtherWake, driver
  <2>2. ready' = ready \cup ({t} \ batch) /\ event' = (event \/ (ready = {} /\ ready' # {}))
    BY <1>8 DEF OtherWake, Wake
  <2> QED
    BY <1>0, <2>1, <2>2
<1>9. CASE Poll
  BY <1>0, <1>9 DEF Poll, driver
<1>10. ASSUME NEW t \in Task, PollTask(t) PROVE Quiet' /\ Batched' /\ Queued' /\ Signalled'
  <2>1. core = "tasks" /\ running = NoTask /\ batch' = batch \ {t} /\ UNCHANGED <<core, event, ready, queue>>
    BY <1>10 DEF PollTask, driver
  <2>2. \A u \in Task \ {t} : wants'[u] = wants[u]
    BY <1>0, <1>10 DEF PollTask, TypeOK
  <2>3. running' = t \/ (running' = NoTask /\ wants'[t] = Never)
    <3>1. wants \in [Task -> 0..Never] /\ running = NoTask
      BY <1>0, <2>1 DEF TypeOK
    <3> QED
      BY <1>10, <3>1 DEF PollTask
  <2>4. Queued'
    <3> SUFFICES ASSUME NEW u \in Task, wants'[u] # Never
                 PROVE  queue'[u] <= wants'[u] \/ u \in ready' \cup batch' \/ running' = u
      OBVIOUS
    <3>1. CASE u = t
      BY <2>3, <3>1
    <3>2. CASE u # t
      BY <1>0, <2>1, <2>2, <3>2
    <3> QED
      BY <3>1, <3>2
  <2> QED
    BY <1>0, <2>1, <2>4
<1>11. CASE Schedule
  <2>1. running \in Task /\ running' = NoTask /\ UNCHANGED <<core, event, ready, batch, wants>>
    BY <1>0, <1>11 DEF Schedule, TypeOK
  <2>2. core = "tasks"
    BY <1>0, <1>11 DEF Schedule
  <2>3. queue'[running] <= wants[running] /\ \A u \in Task \ {running} : queue'[u] = queue[u]
    BY <1>0, <1>11, <2>1 DEF Schedule, TypeOK
  <2>4. Queued'
    BY <1>0, <2>1, <2>3
  <2> QED
    BY <1>0, <2>1, <2>2, <2>4
<1>12. CASE PollEnds
  BY <1>0, <1>12 DEF PollEnds, driver
<1>13. CASE Wfe
  BY <1>0, <1>13 DEF Wfe, driver
<1> QED
  BY <1>2, <1>4, <1>5, <1>6, <1>7, <1>8, <1>9, <1>10, <1>11, <1>12, <1>13 DEF Next, Thread, Rearm

-----------------------------------------------------------------------------
(* The theorems *)

LEMMA Starts == Init => IInv
<1> SUFFICES ASSUME Init PROVE IInv
  OBVIOUS
<1>1. TypeOK
  <2>1. now \in 0..MaxNow /\ c1 \in 0..(Wrap - 1) /\ matched \in BOOLEAN
    BY TimeAssumption DEF Init
  <2>2. wants \in [Task -> 0..Never] /\ queue \in [Task -> 0..Never]
    BY TimeAssumption DEF Init
  <2>3. next \in 0..Never /\ 0 \in 0..(Wrap - 1)
    BY TimeAssumption DEF Init
  <2> QED
    BY <2>1, <2>2, <2>3 DEF Init, TypeOK
<1>2. ReadInv /\ ArmInv /\ Armed
  BY DEF Init, ReadInv, ArmInv, Armed, Reads
<1>3. Quiet /\ Batched /\ Queued /\ Signalled
  BY DEF Init, Quiet, Batched, Queued, Signalled
<1> QED
  BY <1>1, <1>2, <1>3 DEF IInv

LEMMA Inductive == IInv /\ [Next]_vars => IInv'
BY Typing, ReadStep, ArmStep, WakeStep DEF IInv

LEMMA Always == Spec => []IInv
BY Starts, Inductive, PTL DEF Spec

\* The driver's, the executor's and the timer's variables keep their types.
THEOREM TypeCorrect == Spec => []TypeOK
<1>1. IInv => TypeOK
  BY DEF IInv
<1> QED
  BY <1>1, Always, PTL

\* set_compare1 and rearm: however long the driver takes between reading the time, writing
\* the compare and looking again, no deadline is left to the next wrap of the counter.
THEOREM NoDeadlineMissed == Spec => []Armed
<1>1. IInv => Armed
  BY DEF IInv
<1> QED
  BY <1>1, Always, PTL

\* __pender and wfe: a wake-up between the last poll and the sleep ends the sleep.
THEOREM NoWakeUpLost == Spec => []NoLostWake
<1>1. IInv => NoLostWake
  BY DEF IInv, Signalled, NoLostWake
<1> QED
  BY <1>1, Always, PTL

\* The core sleeps only when every deadline a task awaits will interrupt the sleep in time.
THEOREM SleepIsSafe == Spec => []SleepsSafely
<1>1. IInv => SleepsSafely
  <2> SUFFICES ASSUME IInv, core = "asleep", ~event, pc = "free", NEW t \in Task, wants[t] # Never
               PROVE  MatchesBy(wants[t])
    BY DEF SleepsSafely
  <2>1. queue[t] \in Nat /\ wants[t] \in Nat /\ queue[t] <= Never /\ wants[t] <= Never /\ Never \in Nat
    BY TimeAssumption DEF IInv, TypeOK
  <2>2. ready = {} /\ batch = {} /\ running = NoTask /\ running # t
    BY TimeAssumption DEF IInv, Signalled, Batched
  <2>3. queue[t] <= wants[t]
    BY <2>2 DEF IInv, Queued
  <2>4. MatchesBy(queue[t])
    BY <2>1, <2>3 DEF IInv, Armed
  <2>5. now \in Nat
    BY DEF IInv, TypeOK
  <2>6. ASSUME NEW d \in 1..MaxDelta, now + d <= queue[t] PROVE now + d <= wants[t]
    <3>1. d \in Nat
      BY Registers
    <3> QED
      BY <2>1, <2>3, <2>5, <2>6, <3>1
  <2> QED
    BY <2>4, <2>6 DEF MatchesBy
<1> QED
  BY <1>1, Always, PTL

(* -------------------------------- GPIO ---------------------------------- *)

Lefts == {<<"gpren", "gphen">>, <<"gphen">>, <<>>}
Drops == [pin : Pin, left : Lefts, read : SUBSET Pin, has : BOOLEAN]

\* The slot, the flag and the caller agree; a pin of the application's has none of them.
Agreed == \A p \in Pin : /\ g_armed[p] <=> g_slot[p] # "Idle"
                         /\ g_slot[p] # "Idle" \/ g_task[p] # "away" => p \in Gpio!Async
                         /\ g_task[p] = "parked" => g_slot[p] = "Waiting"
                         /\ g_task[p] = "new" => g_slot[p] = "Idle"
                         /\ g_task[p] = "away" => g_slot[p] = "Idle" \/ (g_drop # Gpio!Nothing /\ g_drop.pin = p)

\* The Drop under way is of a wait that is gone.
Dropped == g_drop # Gpio!Nothing => /\ g_drop \in Drops /\ g_drop.pin \in Gpio!Async /\ g_dropped
                                      /\ g_task[g_drop.pin] = "away"

\* The Drop has read register r and will write it.
Mid(r) == g_drop # Gpio!Nothing /\ g_drop.left # <<>> /\ g_drop.has /\ g_drop.left[1] = r

\* Who waits is armed, and will be after the write of a Drop.
Reach == \A p \in Pin : g_slot[p] = "Waiting" /\ g_task[p] # "away" =>
            p \in g_detect[Gpio!Trigger(p)] /\ (Mid(Gpio!Trigger(p)) => p \in g_drop.read)
HandOn == Hand \subseteq g_detect["gpren"] /\ (Mid("gpren") => Hand \subseteq g_drop.read)

Calm == ~g_dropped =>
           \A p \in Gpio!Async : /\ p \in g_events \cup g_detect["gpren"] \cup g_detect["gphen"] => g_slot[p] = "Waiting"
                                 /\ p \in g_detect["gphen"] => p \in Level

Risen == ~g_dropped =>
           \A p \in Gpio!Async : g_slot[p] = "Fired" \/ (g_slot[p] = "Waiting" /\ p \in g_events \cup (Level \cap g_high))
                              => g_rose[p]

GpioInv == Gpio!TypeOK /\ Agreed /\ Dropped /\ Reach /\ HandOn /\ Calm /\ Risen

-----------------------------------------------------------------------------
USE GpioAssumption, DriversAssumption

LEMMA GpioInit == Gpio!Init => GpioInv
<1> SUFFICES ASSUME Gpio!Init PROVE GpioInv
  OBVIOUS
<1>1. Gpio!TypeOK
  BY DEF Gpio!Init, Gpio!TypeOK, Gpio!Reg
<1>2. Agreed /\ Dropped /\ Reach /\ HandOn /\ Calm /\ Risen
  BY DEF Gpio!Init, Agreed, Dropped, Reach, HandOn, Calm, Risen, Mid, Gpio!Reg, Gpio!Async
<1> QED
  BY <1>1, <1>2 DEF GpioInv

\* The detector of a pin is one of the two.
LEMMA Triggers == \A p \in Pin : Gpio!Trigger(p) \in Gpio!Reg /\ (Gpio!Trigger(p) = "gphen" <=> p \in Level)
BY DEF Gpio!Trigger, Gpio!Reg

LEMMA GpioNext == GpioInv /\ [Gpio!Next]_gVars => GpioInv'
<1> SUFFICES ASSUME GpioInv, [Gpio!Next]_gVars PROVE GpioInv'
  OBVIOUS
<1> USE Triggers DEF GpioInv
<1>1. ASSUME NEW p \in Pin, Gpio!Rise(p) PROVE GpioInv'
  BY <1>1 DEF Gpio!Rise, Gpio!TypeOK, Agreed, Dropped, Reach, HandOn, Calm, Risen, Mid
<1>2. ASSUME NEW p \in Pin, Gpio!Fall(p) PROVE GpioInv'
  BY <1>2 DEF Gpio!Fall, Gpio!TypeOK, Agreed, Dropped, Reach, HandOn, Calm, Risen, Mid
<1>3. ASSUME NEW p \in Pin, Gpio!Latch(p) PROVE GpioInv'
  BY <1>3 DEF Gpio!Latch, Gpio!TypeOK, Agreed, Dropped, Reach, HandOn, Calm, Risen, Mid
<1>4. CASE Gpio!OnIrq
  <2>1. Gpio!TypeOK'
    BY <1>4 DEF Gpio!OnIrq, Gpio!TypeOK
  <2>2. Agreed' /\ Dropped'
    BY <1>4 DEF Gpio!OnIrq, Gpio!Served, Gpio!TypeOK, Agreed, Dropped
  <2>3. Reach' /\ HandOn'
    BY <1>4 DEF Gpio!OnIrq, Gpio!Served, Gpio!TypeOK, Agreed, Reach, HandOn, Mid, Gpio!Reg, Gpio!Async
  <2>4. Calm' /\ Risen'
    BY <1>4 DEF Gpio!OnIrq, Gpio!Served, Gpio!TypeOK, Calm, Risen, Gpio!Reg, Gpio!Async
  <2> QED
    BY <2>1, <2>2, <2>3, <2>4
<1>5. ASSUME NEW p \in Pin, Gpio!HandIrq(p) PROVE GpioInv'
  BY <1>5 DEF Gpio!HandIrq, Gpio!TypeOK, Agreed, Dropped, Reach, HandOn, Calm, Risen, Mid
<1>6. ASSUME NEW p \in Gpio!Async, Gpio!Call(p) PROVE GpioInv'
  <2>1. Gpio!TypeOK' /\ Agreed' /\ Dropped'
    BY <1>6 DEF Gpio!Call, Gpio!Runs, Gpio!TypeOK, Agreed, Dropped, Gpio!Async
  <2>2. Reach' /\ HandOn' /\ Calm' /\ Risen'
    BY <1>6 DEF Gpio!Call, Gpio!Runs, Gpio!TypeOK, Agreed, Reach, HandOn, Calm, Risen, Mid, Gpio!Async
  <2> QED
    BY <2>1, <2>2
<1>7. ASSUME NEW p \in Gpio!Async, Gpio!PollResolves(p) PROVE GpioInv'
  <2>1. Gpio!TypeOK' /\ Agreed' /\ Dropped'
    BY <1>7 DEF Gpio!PollResolves, Gpio!Runs, Gpio!TypeOK, Agreed, Dropped, Gpio!Async
  <2>2. Reach' /\ HandOn' /\ Calm' /\ Risen'
    BY <1>7 DEF Gpio!PollResolves, Gpio!Runs, Gpio!TypeOK, Agreed, Reach, HandOn, Calm, Risen, Mid, Gpio!Async
  <2> QED
    BY <2>1, <2>2
<1>8. ASSUME NEW p \in Gpio!Async, Gpio!PollParks(p) PROVE GpioInv'
  <2>1. /\ p \in Pin /\ g_task[p] # "away" /\ g_slot[p] # "Fired" /\ g_drop = Gpio!Nothing /\ g_drop' = Gpio!Nothing
        /\ g_slot' = [g_slot EXCEPT ![p] = "Waiting"] /\ g_task' = [g_task EXCEPT ![p] = "parked"]
        /\ g_armed' = [g_armed EXCEPT ![p] = TRUE] /\ UNCHANGED <<g_high, g_events, g_dropped>>
    BY <1>8 DEF Gpio!PollParks, Gpio!Runs, Gpio!Async
  <2>2. Agreed' /\ Dropped'
    BY <2>1 DEF Gpio!TypeOK, Agreed, Dropped
  <2>3. CASE g_armed[p]
    <3>1. g_slot[p] = "Waiting" /\ UNCHANGED <<g_detect, g_rose>>
      BY <1>8, <2>1, <2>3 DEF Gpio!PollParks, Gpio!TypeOK, Agreed
    <3>2. g_slot' = g_slot
      BY <2>1, <3>1 DEF Gpio!TypeOK
    <3>3. Gpio!TypeOK'
      BY <2>1, <3>1, <3>2 DEF Gpio!TypeOK
    <3>4. Reach' /\ HandOn'
      BY <2>1, <3>1, <3>2 DEF Gpio!TypeOK, Reach, HandOn, Mid
    <3>5. Calm' /\ Risen'
      BY <2>1, <3>1, <3>2 DEF Calm, Risen
    <3> QED
      BY <2>2, <3>3, <3>4, <3>5
  <2>4. CASE ~g_armed[p]
    <3>1. /\ g_detect' = [r \in Gpio!Reg |-> IF r = Gpio!Trigger(p) THEN g_detect[r] \cup {p} ELSE g_detect[r] \ {p}]
          /\ g_rose' = [g_rose EXCEPT ![p] = p \in Level \cap g_high] /\ g_slot[p] = "Idle"
      BY <1>8, <2>1, <2>4 DEF Gpio!PollParks, Agreed
    <3>2. /\ \A r \in Gpio!Reg : g_detect'[r] = IF r = Gpio!Trigger(p) THEN g_detect[r] \cup {p} ELSE g_detect[r] \ {p}
          /\ g_detect' \in [Gpio!Reg -> SUBSET Pin]
      BY <2>1, <3>1 DEF Gpio!TypeOK
    <3>3. Gpio!TypeOK'
      BY <2>1, <3>1, <3>2 DEF Gpio!TypeOK
    <3>4. Reach'
      BY <2>1, <3>2 DEF Gpio!TypeOK, Reach, Mid
    <3>5. HandOn'
      BY <2>1, <3>2 DEF HandOn, Mid, Gpio!Reg, Gpio!Async, Gpio!TypeOK
    <3>6. Calm'
      BY <2>1, <3>1, <3>2 DEF Gpio!TypeOK, Calm, Gpio!Reg
    <3>7. Risen'
      <4> SUFFICES ASSUME ~g_dropped, NEW q \in Gpio!Async,
                          g_slot'[q] = "Fired" \/ (g_slot'[q] = "Waiting" /\ q \in g_events \cup (Level \cap g_high))
                   PROVE  g_rose'[q]
        BY <2>1 DEF Risen
      <4>1. CASE q = p
        BY <2>1, <3>1, <4>1 DEF Calm, Gpio!TypeOK
      <4>2. CASE q # p
        BY <2>1, <3>1, <4>2 DEF Risen, Gpio!TypeOK, Gpio!Async
      <4> QED
        BY <4>1, <4>2
    <3> QED
      BY <2>2, <3>3, <3>4, <3>5, <3>6, <3>7
  <2> QED
    BY <2>3, <2>4
<1>9. ASSUME NEW p \in Gpio!Async, Gpio!Drop(p) PROVE GpioInv'
  <2>1. CASE g_armed[p]
    <3>1. /\ g_drop' = [pin |-> p, left |-> <<"gpren", "gphen">>, read |-> {}, has |-> FALSE]
          /\ g_dropped' /\ g_task' = [g_task EXCEPT ![p] = "away"] /\ UNCHANGED <<g_high, g_detect, g_events, g_slot, g_armed, g_rose>>
          /\ g_drop = Gpio!Nothing /\ g_dropped' \in BOOLEAN
      BY <1>9, <2>1 DEF Gpio!Drop, Gpio!Runs, Gpio!TypeOK
    <3>2. g_drop' \in Drops /\ g_drop'.pin = p /\ ~g_drop'.has /\ g_drop' # Gpio!Nothing
      BY <3>1 DEF Drops, Lefts, Gpio!Nothing, Gpio!Async
    <3>3. Gpio!TypeOK' /\ Agreed' /\ Dropped'
      BY <3>1, <3>2 DEF Gpio!TypeOK, Agreed, Dropped, Drops, Lefts, Gpio!Async
    <3>4. Reach' /\ HandOn' /\ Calm' /\ Risen'
      BY <3>1, <3>2 DEF Gpio!TypeOK, Reach, HandOn, Calm, Risen, Mid
    <3> QED
      BY <3>3, <3>4
  <2>2. CASE ~g_armed[p]
    BY <1>9, <2>2 DEF Gpio!Drop, Gpio!Runs, Gpio!TypeOK, Agreed, Dropped, Reach, HandOn, Calm, Risen, Mid, Gpio!Async
  <2> QED
    BY <2>1, <2>2
<1>10. CASE Gpio!DropReads
  <2>1. g_drop \in Drops /\ g_drop # Gpio!Nothing /\ g_drop.left # <<>> /\ g_dropped
    BY <1>10 DEF Gpio!DropReads, Gpio!Dropping, Dropped
  <2>2. g_drop.left[1] \in Gpio!Reg
    BY <2>1 DEF Drops, Lefts, Gpio!Reg
  <2>3. /\ g_drop' \in Drops /\ g_drop'.pin = g_drop.pin /\ g_drop'.left = g_drop.left /\ g_drop'.has
        /\ g_drop'.read = g_detect[g_drop.left[1]]
        /\ UNCHANGED <<g_high, g_detect, g_events, g_slot, g_task, g_armed, g_rose, g_dropped>>
    BY <1>10, <2>1, <2>2 DEF Gpio!DropReads, Drops, Gpio!TypeOK
  <2>4. g_drop' # Gpio!Nothing
    BY <1>10, <2>1 DEF Gpio!DropReads, Drops, Gpio!Nothing
  <2>5. Gpio!TypeOK' /\ Agreed' /\ Dropped'
    BY <2>1, <2>3, <2>4 DEF Gpio!TypeOK, Agreed, Dropped, Drops, Lefts
  <2>6. Reach' /\ HandOn' /\ Calm' /\ Risen'
    BY <2>1, <2>3, <2>4 DEF Reach, HandOn, Calm, Risen, Mid
  <2> QED
    BY <2>5, <2>6
<1>11. CASE Gpio!DropWrites
  <2>1. g_drop \in Drops /\ g_drop # Gpio!Nothing /\ g_drop.left # <<>> /\ g_drop.has /\ g_dropped /\ g_drop.pin \in Gpio!Async
        /\ g_task[g_drop.pin] = "away"
    BY <1>11 DEF Gpio!DropWrites, Gpio!Dropping, Dropped
  <2>2. g_drop.left[1] \in Gpio!Reg
    BY <2>1 DEF Drops, Lefts, Gpio!Reg
  <2>3. /\ g_drop' \in Drops /\ g_drop'.pin = g_drop.pin /\ ~g_drop'.has
        /\ UNCHANGED <<g_high, g_events, g_slot, g_task, g_armed, g_rose, g_dropped>>
    BY <1>11, <2>1 DEF Gpio!DropWrites, Drops, Lefts
  <2>4. g_drop' # Gpio!Nothing
    BY <1>11, <2>1 DEF Gpio!DropWrites, Drops, Gpio!Nothing
  <2>5. g_detect' \in [Gpio!Reg -> SUBSET Pin]
        /\ \A r \in Gpio!Reg : g_detect'[r] = IF r = g_drop.left[1] THEN g_drop.read \ {g_drop.pin} ELSE g_detect[r]
    BY <1>11, <2>1, <2>2 DEF Gpio!DropWrites, Drops, Gpio!TypeOK
  <2>6. Gpio!TypeOK' /\ Agreed' /\ Dropped'
    BY <2>1, <2>3, <2>4, <2>5 DEF Gpio!TypeOK, Agreed, Dropped, Drops, Lefts
  <2>7. Reach' /\ HandOn'
    BY <2>1, <2>2, <2>3, <2>4, <2>5 DEF Reach, HandOn, Mid, Gpio!Async, Gpio!Reg
  <2>8. Calm' /\ Risen'
    BY <2>1, <2>3 DEF Calm, Risen
  <2> QED
    BY <2>6, <2>7, <2>8
<1>12. CASE Gpio!DropEnds
  <2>1. g_drop \in Drops /\ g_drop.pin \in Gpio!Async /\ g_dropped /\ g_task[g_drop.pin] = "away" /\ g_drop # Gpio!Nothing
    BY <1>12 DEF Gpio!DropEnds, Gpio!Dropping, Dropped
  <2>2. Gpio!TypeOK' /\ Agreed' /\ Dropped'
    BY <1>12, <2>1 DEF Gpio!DropEnds, Gpio!TypeOK, Agreed, Dropped, Gpio!Async
  <2>3. Reach' /\ HandOn' /\ Calm' /\ Risen'
    BY <1>12, <2>1 DEF Gpio!DropEnds, Gpio!TypeOK, Reach, HandOn, Calm, Risen, Mid
  <2> QED
    BY <2>2, <2>3
<1>13. CASE UNCHANGED gVars
  BY <1>13 DEF gVars, Gpio!TypeOK, Agreed, Dropped, Reach, HandOn, Calm, Risen, Mid
<1> QED
  BY <1>1, <1>2, <1>3, <1>4, <1>5, <1>6, <1>7, <1>8, <1>9, <1>10, <1>11, <1>12, <1>13
  DEF Gpio!Next, Gpio!Pins, Gpio!Thread

LEMMA GpioPromises == GpioInv => Gpio!TypeOK /\ Gpio!ParkedIsArmed /\ Gpio!HandSurvives /\ Gpio!ServedUnlessDropped /\ Gpio!OwnEvent
<1> SUFFICES ASSUME GpioInv PROVE Gpio!ParkedIsArmed /\ Gpio!HandSurvives /\ Gpio!ServedUnlessDropped /\ Gpio!OwnEvent
  BY DEF GpioInv
<1>1. Gpio!ParkedIsArmed /\ Gpio!HandSurvives
  BY DEF GpioInv, Agreed, Reach, HandOn, Gpio!ParkedIsArmed, Gpio!HandSurvives, Gpio!Async
<1>2. Gpio!ServedUnlessDropped
  BY DEF GpioInv, Gpio!TypeOK, Calm, Gpio!ServedUnlessDropped, Gpio!Stuck, Gpio!Orphans, Gpio!Async
<1>3. Gpio!OwnEvent
  BY DEF GpioInv, Agreed, Risen, Gpio!OwnEvent, Gpio!Async
<1> QED
  BY <1>1, <1>2, <1>3

(* -------------------------------- UART -------------------------------- *)

\* The waker is stored before the source is opened; whichever of the two the handler takes back, it
\* has woken the task, and nothing polls it before it is parked.
UartArming == /\ u_pc \in {"read", "write"} => u_woken \/ u_waker[u_dir]
              /\ u_pc \in {"again", "parked"} => u_woken \/ (u_waker[u_dir] /\ u_dir \in u_imsc)
UartInv == Uart!TypeOK /\ UartArming

LEMMA UartInit == Uart!Init => UartInv
<1> SUFFICES ASSUME Uart!Init PROVE UartInv
  OBVIOUS
<1>1. u_fifo \in [Uart!Dir -> 0..UartDepth]
  BY DriversAssumption DEF Uart!Init, Uart!Dir
<1>2. Uart!TypeOK
  BY <1>1 DEF Uart!Init, Uart!TypeOK, Uart!Dir
<1> QED
  BY <1>2 DEF Uart!Init, UartInv, UartArming

LEMMA UartNext == UartInv /\ [Uart!Next]_uVars => UartInv'
<1> SUFFICES ASSUME UartInv, [Uart!Next]_uVars PROVE UartInv'
  OBVIOUS
<1> USE DriversAssumption DEF UartInv, Uart!TypeOK, UartArming, Uart!Dir
<1>1. CASE Uart!ByteArrives
  BY <1>1 DEF Uart!ByteArrives
<1>2. CASE Uart!ByteLeaves
  BY <1>2 DEF Uart!ByteLeaves
<1>3. CASE Uart!OnIrq
  BY <1>3 DEF Uart!OnIrq, Uart!Pending
<1>4. ASSUME NEW d \in Uart!Dir, Uart!Call(d) PROVE UartInv'
  BY <1>4 DEF Uart!Call
<1>5. CASE Uart!Test \/ Uart!Store \/ Uart!ReadMask \/ Uart!WriteMask \/ Uart!Again
  <2>1. CASE Uart!Test
    BY <2>1 DEF Uart!Test
  <2>2. CASE Uart!Store
    BY <2>2 DEF Uart!Store
  <2>3. CASE Uart!ReadMask \/ Uart!WriteMask \/ Uart!Again
    BY <2>3 DEF Uart!ReadMask, Uart!WriteMask, Uart!Again
  <2> QED
    BY <1>5, <2>1, <2>2, <2>3
<1>6. CASE Uart!ReadClear \/ Uart!WriteClear \/ Uart!Poll \/ Uart!Drop
  BY <1>6 DEF Uart!ReadClear, Uart!WriteClear, Uart!Poll, Uart!Drop
<1>7. CASE Uart!Moves
  BY <1>7 DEF Uart!Moves
<1>8. CASE UNCHANGED uVars
  BY <1>8 DEF uVars
<1> QED
  BY <1>1, <1>2, <1>3, <1>4, <1>5, <1>6, <1>7, <1>8 DEF Uart!Next, Uart!Thread

(* -------------------------------- I2C --------------------------------- *)

\* A transfer in flight has a place in the loop; between two, the controller is masked and still.
I2cRests == /\ i_op = "none" <=> i_pc = "idle"
            /\ i_op = "none" => i_armed = {} /\ i_status = {} /\ ~i_busy
\* The bytes on the wire are the ones moved and the ones the FIFO holds.
I2cBytes == i_op # "none" => /\ i_count <= i_len /\ i_wire <= i_len
                             /\ i_op = "write" => i_count = i_wire + i_fifo
                             /\ i_op = "read" => i_wire = i_count + i_fifo
                             /\ i_busy => i_wire < i_len
\* An end of any kind stops the controller, and a write that is done, and nothing else, is whole.
I2cEnds == /\ i_status # {} => ~i_busy
           /\ i_op = "write" /\ "done" \in i_status => {"err", "clkt"} \cap i_status # {} \/ i_wire = i_len
\* What the loop read of S holds still, as far as it acts on it.
I2cSeen == i_pc = "act" => /\ i_seen \cap {"done", "err", "clkt"} \subseteq i_status
                           /\ "done" \in i_seen => i_status \subseteq i_seen
                           /\ "txd" \in i_seen /\ i_op = "write" => i_fifo < I2cDepth
                           /\ "rxd" \in i_seen /\ i_op = "read" => i_fifo > 0
I2cFlags == i_late \in BOOLEAN /\ i_waker \in BOOLEAN /\ i_woken \in BOOLEAN /\ i_busy \in BOOLEAN
I2cInv == I2c!TypeOK /\ I2cRests /\ I2cBytes /\ I2cEnds /\ I2cSeen /\ I2c!OkMeansAll

LEMMA I2cInit == I2c!Init => I2cInv
<1> SUFFICES ASSUME I2c!Init PROVE I2cInv
  OBVIOUS
<1>1. I2cFlags
  BY DEF I2c!Init, I2cFlags
<1>2. I2c!TypeOK
  BY DriversAssumption, <1>1 DEF I2c!Init, I2c!TypeOK, I2cFlags
<1> QED
  BY <1>2 DEF I2c!Init, I2cInv, I2cRests, I2cBytes, I2cEnds, I2cSeen, I2c!OkMeansAll

LEMMA I2cNext == I2cInv /\ [I2c!Next]_iVars => I2cInv'
<1> SUFFICES ASSUME I2cInv, [I2c!Next]_iVars PROVE I2cInv'
  OBVIOUS
<1> USE DriversAssumption DEF I2cInv, I2c!TypeOK, I2cRests, I2cBytes, I2cSeen
<1>1. CASE I2c!Shift
  <2>0. i_busy' <=> i_wire' < i_len
    BY <1>1 DEF I2c!Shift
  <2>1. I2c!TypeOK' /\ I2cRests'
    BY <1>1 DEF I2c!Shift, I2c!software
  <2>2. I2cBytes'
    BY <1>1, <2>0 DEF I2c!Shift, I2c!software
  <2>3. I2cEnds' /\ I2cSeen'
    BY <1>1, <2>0 DEF I2cEnds, I2c!Shift, I2c!software
  <2>4. I2c!OkMeansAll'
    BY <1>1, <2>0 DEF I2cEnds, I2c!OkMeansAll, I2c!Shift, I2c!software
  <2> QED
    BY <2>1, <2>2, <2>3, <2>4
<1>2. CASE I2c!Receive
  <2>0. i_busy' <=> i_wire' < i_len
    BY <1>2 DEF I2c!Receive
  <2>1. I2c!TypeOK' /\ I2cRests'
    BY <1>2 DEF I2c!Receive, I2c!software
  <2>2. I2cBytes'
    BY <1>2, <2>0 DEF I2c!Receive, I2c!software
  <2>3. I2cEnds' /\ I2cSeen'
    BY <1>2, <2>0 DEF I2cEnds, I2c!Receive, I2c!software
  <2>4. I2c!OkMeansAll'
    BY <1>2, <2>0 DEF I2cEnds, I2c!OkMeansAll, I2c!Receive, I2c!software
  <2> QED
    BY <2>1, <2>2, <2>3, <2>4
<1>3. CASE I2c!Fails
  <2>1. PICK how \in {{"err"}, {"err", "done"}, {"clkt"}, {"clkt", "done"}, {"done"}} : i_status' = i_status \cup how
    BY <1>3 DEF I2c!Fails
  <2>2. ~i_busy' /\ i_busy' \in BOOLEAN /\ UNCHANGED <<i_fifo, i_wire, i_armed>> /\ UNCHANGED I2c!software
    BY <1>3 DEF I2c!Fails
  <2>3. i_status' \subseteq {"done", "err", "clkt"}
    BY <2>1
  <2>4. I2c!TypeOK'
    BY <2>2, <2>3 DEF I2c!software
  <2>5. I2cRests'
    BY <1>3 DEF I2c!Fails, I2c!software
  <2>6. I2cBytes'
    BY <1>3 DEF I2c!Fails, I2c!software
  <2>7. I2cEnds' /\ I2cSeen'
    BY <1>3 DEF I2cEnds, I2c!Fails, I2c!software
  <2>8. I2c!OkMeansAll'
    BY <1>3 DEF I2cEnds, I2c!OkMeansAll, I2c!Fails, I2c!software
  <2> QED
    BY <2>4, <2>5, <2>6, <2>7, <2>8
<1>4. CASE I2c!Expire
  <2>1. I2c!TypeOK' /\ I2cRests'
    BY <1>4 DEF I2c!Expire
  <2>2. I2cBytes'
    BY <1>4 DEF I2c!Expire
  <2>3. I2cEnds' /\ I2cSeen'
    BY <1>4 DEF I2cEnds, I2c!Expire
  <2>4. I2c!OkMeansAll'
    BY <1>4 DEF I2cEnds, I2c!OkMeansAll, I2c!Expire
  <2> QED
    BY <2>1, <2>2, <2>3, <2>4
<1>5. CASE I2c!OnIrq
  <2>1. I2c!TypeOK' /\ I2cRests'
    BY <1>5 DEF I2c!OnIrq
  <2>2. I2cBytes'
    BY <1>5 DEF I2c!OnIrq
  <2>3. I2cEnds' /\ I2cSeen'
    BY <1>5 DEF I2cEnds, I2c!OnIrq
  <2>4. I2c!OkMeansAll'
    BY <1>5 DEF I2cEnds, I2c!OkMeansAll, I2c!OnIrq
  <2> QED
    BY <2>1, <2>2, <2>3, <2>4
<1>6. CASE I2c!Look
  <2>1. I2c!TypeOK' /\ I2cRests'
    BY <1>6 DEF I2c!Look, I2c!S
  <2>2. I2cBytes'
    BY <1>6 DEF I2c!Look, I2c!S
  <2>3. I2cEnds' /\ I2cSeen'
    BY <1>6 DEF I2cEnds, I2c!Look, I2c!S
  <2>4. I2c!OkMeansAll'
    BY <1>6 DEF I2cEnds, I2c!OkMeansAll, I2c!Look, I2c!S
  <2> QED
    BY <2>1, <2>2, <2>3, <2>4
<1>7. CASE I2c!ActOnFault
  <2>0. I2cFlags'
    BY <1>7 DEF I2cFlags, I2c!ActOnFault, I2c!Faults, I2c!Finish
  <2>1. I2c!TypeOK' /\ I2cRests'
    BY <1>7, <2>0 DEF I2cFlags, I2cEnds, I2c!ActOnFault, I2c!Faults, I2c!Finish
  <2>2. I2cBytes'
    BY <1>7 DEF I2c!ActOnFault, I2c!Faults, I2c!Finish
  <2>3. I2cEnds' /\ I2cSeen'
    BY <1>7 DEF I2cEnds, I2c!ActOnFault, I2c!Faults, I2c!Finish
  <2>4. I2c!OkMeansAll'
    BY <1>7 DEF I2cEnds, I2c!OkMeansAll, I2c!ActOnFault, I2c!Faults, I2c!Finish
  <2> QED
    BY <2>1, <2>2, <2>3, <2>4
<1>8. CASE I2c!ActOnData
  <2>1. I2c!TypeOK' /\ I2cRests'
    BY <1>8 DEF I2c!ActOnData, I2c!Faults, I2c!Moves
  <2>2. I2cBytes'
    BY <1>8 DEF I2c!ActOnData, I2c!Faults, I2c!Moves
  <2>3. I2cEnds' /\ I2cSeen'
    BY <1>8 DEF I2cEnds, I2c!ActOnData, I2c!Faults, I2c!Moves
  <2>4. I2c!OkMeansAll'
    BY <1>8 DEF I2cEnds, I2c!OkMeansAll, I2c!ActOnData, I2c!Faults, I2c!Moves
  <2> QED
    BY <2>1, <2>2, <2>3, <2>4
<1>9. CASE I2c!ActOnDone
  <2>0. I2cFlags'
    BY <1>9 DEF I2cFlags, I2c!ActOnDone, I2c!Faults, I2c!Moves, I2c!Complete, I2c!Finish
  <2>1. I2c!TypeOK' /\ I2cRests'
    BY <1>9, <2>0 DEF I2cFlags, I2cEnds, I2c!ActOnDone, I2c!Faults, I2c!Moves, I2c!Complete, I2c!Finish
  <2>2. I2cBytes'
    BY <1>9 DEF I2c!ActOnDone, I2c!Faults, I2c!Moves, I2c!Complete, I2c!Finish
  <2>3. I2cEnds' /\ I2cSeen'
    BY <1>9 DEF I2cEnds, I2c!ActOnDone, I2c!Faults, I2c!Moves, I2c!Complete, I2c!Finish
  <2>4. I2c!OkMeansAll'
    <3>1. i_count = i_len /\ i_wire = i_len /\ i_fifo = 0
      BY <1>9 DEF I2cEnds, I2c!ActOnDone, I2c!Faults, I2c!Moves, I2c!Complete
    <3> QED
      BY <1>9, <3>1 DEF I2c!OkMeansAll, I2c!ActOnDone, I2c!Finish
  <2> QED
    BY <2>1, <2>2, <2>3, <2>4
<1>10. CASE I2c!ActOnDeadline
  <2>0. I2cFlags'
    BY <1>10 DEF I2cFlags, I2c!ActOnDeadline, I2c!Faults, I2c!Moves, I2c!Complete, I2c!Finish
  <2>1. I2c!TypeOK' /\ I2cRests'
    BY <1>10, <2>0
    DEF I2cFlags, I2cEnds, I2c!ActOnDeadline, I2c!Faults, I2c!Moves, I2c!Complete, I2c!Finish
  <2>2. I2cBytes'
    BY <1>10 DEF I2c!ActOnDeadline, I2c!Faults, I2c!Moves, I2c!Complete, I2c!Finish
  <2>3. I2cEnds' /\ I2cSeen'
    BY <1>10 DEF I2cEnds, I2c!ActOnDeadline, I2c!Faults, I2c!Moves, I2c!Complete, I2c!Finish
  <2>4. I2c!OkMeansAll'
    BY <1>10
    DEF I2cEnds, I2c!OkMeansAll, I2c!ActOnDeadline, I2c!Faults, I2c!Moves, I2c!Complete, I2c!Finish
  <2> QED
    BY <2>1, <2>2, <2>3, <2>4
<1>11. CASE I2c!ActOnNothing \/ I2c!Store \/ I2c!Arm
  <2>0. I2c!TypeOK'
    <3>1. CASE I2c!ActOnNothing
      BY <3>1 DEF I2c!ActOnNothing
    <3>2. CASE I2c!Store
      BY <3>2 DEF I2c!Store
    <3>3. CASE I2c!Arm
      BY <3>3 DEF I2c!Arm
    <3> QED
      BY <1>11, <3>1, <3>2, <3>3
  <2>1. I2cRests'
    BY <1>11 DEF I2c!ActOnNothing, I2c!Store, I2c!Arm
  <2>2. I2cBytes'
    BY <1>11 DEF I2c!ActOnNothing, I2c!Store, I2c!Arm
  <2>3. I2cEnds' /\ I2cSeen'
    BY <1>11 DEF I2cEnds, I2c!ActOnNothing, I2c!Store, I2c!Arm
  <2>4. I2c!OkMeansAll'
    BY <1>11 DEF I2cEnds, I2c!OkMeansAll, I2c!ActOnNothing, I2c!Store, I2c!Arm
  <2> QED
    BY <2>0, <2>1, <2>2, <2>3, <2>4
<1>12. CASE I2c!Again
  <2>1. I2c!TypeOK' /\ I2cRests'
    BY <1>12 DEF I2c!Again, I2c!S
  <2>2. I2cBytes'
    BY <1>12 DEF I2c!Again, I2c!S
  <2>3. I2cEnds' /\ I2cSeen'
    BY <1>12 DEF I2cEnds, I2c!Again, I2c!S
  <2>4. I2c!OkMeansAll'
    BY <1>12 DEF I2cEnds, I2c!OkMeansAll, I2c!Again, I2c!S
  <2> QED
    BY <2>1, <2>2, <2>3, <2>4
<1>13. CASE I2c!Poll
  <2>0. I2cFlags'
    BY <1>13 DEF I2cFlags, I2c!Poll
  <2>1. I2c!TypeOK'
    BY <1>13, <2>0 DEF I2cFlags, I2c!Poll
  <2>2. I2cRests' /\ I2cBytes'
    BY <1>13 DEF I2c!Poll
  <2>3. I2cEnds' /\ I2cSeen'
    BY <1>13 DEF I2cEnds, I2c!Poll
  <2>4. I2c!OkMeansAll'
    BY <1>13 DEF I2cEnds, I2c!OkMeansAll, I2c!Poll
  <2> QED
    BY <2>1, <2>2, <2>3, <2>4
<1>16. CASE I2c!OtherPoll
  <2>0. I2cFlags'
    BY <1>16 DEF I2cFlags, I2c!OtherPoll
  <2>1. I2c!TypeOK'
    BY <1>16, <2>0 DEF I2cFlags, I2c!OtherPoll
  <2>2. I2cRests' /\ I2cBytes'
    BY <1>16 DEF I2c!OtherPoll
  <2>3. I2cEnds' /\ I2cSeen'
    BY <1>16 DEF I2cEnds, I2c!OtherPoll
  <2>4. I2c!OkMeansAll'
    BY <1>16 DEF I2cEnds, I2c!OkMeansAll, I2c!OtherPoll
  <2> QED
    BY <2>1, <2>2, <2>3, <2>4
<1>17. CASE I2c!Drop
  <2>0. I2cFlags'
    BY <1>17 DEF I2cFlags, I2c!Drop
  <2>1. I2c!TypeOK'
    BY <1>17, <2>0 DEF I2cFlags, I2c!Drop
  <2>2. I2cRests' /\ I2cBytes'
    BY <1>17 DEF I2c!Drop
  <2>3. I2cEnds' /\ I2cSeen'
    BY <1>17 DEF I2cEnds, I2c!Drop
  <2>4. I2c!OkMeansAll'
    BY <1>17 DEF I2cEnds, I2c!OkMeansAll, I2c!Drop
  <2> QED
    BY <2>1, <2>2, <2>3, <2>4
<1>14. ASSUME NEW o \in {"write", "read"}, NEW n \in 1..MaxLen, I2c!Start(o, n) PROVE I2cInv'
  <2>0. I2cFlags'
    BY <1>14 DEF I2cFlags, I2c!Start
  <2>5. i_len' \in 0..MaxLen /\ i_fifo' \in 0..I2cDepth /\ i_wire' \in 0..MaxLen /\ i_count' \in 0..MaxLen
    BY <1>14 DEF I2c!Start
  <2>6. /\ i_seen' = i_seen /\ i_op' \in {"write", "read"} /\ i_result' = "none" /\ i_pc' = "look"
        /\ i_armed' = {} /\ i_status' = {}
    BY <1>14 DEF I2c!Start
  <2>7. I2c!TypeOK'
    BY <2>0, <2>5, <2>6 DEF I2cFlags
  <2>1. I2c!TypeOK' /\ I2cRests'
    BY <1>14, <2>7 DEF I2c!Start
  <2>2. I2cBytes'
    BY <1>14 DEF I2c!Start
  <2>3. I2cEnds' /\ I2cSeen'
    BY <1>14 DEF I2cEnds, I2c!Start
  <2>4. I2c!OkMeansAll'
    BY <1>14 DEF I2cEnds, I2c!OkMeansAll, I2c!Start
  <2> QED
    BY <2>1, <2>2, <2>3, <2>4
<1>15. CASE UNCHANGED iVars
  <2>1. I2c!TypeOK' /\ I2cRests'
    BY <1>15 DEF iVars
  <2>2. I2cBytes'
    BY <1>15 DEF iVars
  <2>3. I2cEnds' /\ I2cSeen'
    BY <1>15 DEF I2cEnds, iVars
  <2>4. I2c!OkMeansAll'
    BY <1>15 DEF I2cEnds, I2c!OkMeansAll, iVars
  <2> QED
    BY <2>1, <2>2, <2>3, <2>4
<1> QED
  BY <1>1, <1>2, <1>3, <1>4, <1>5, <1>6, <1>7, <1>8, <1>9, <1>10, <1>11, <1>12, <1>13, <1>14, <1>15,
     <1>16, <1>17
  DEF I2c!Next, I2c!Loop

(* ---------------------------- SD transfers ---------------------------- *)

SdGiven == d_pc \in {"command", "data"}
SdSent == d_pc \in {"command", "data", "drain"}
SdHeld == IF d_fifo = "block" THEN 1 ELSE 0

SdFlags == /\ d_wrong \in BOOLEAN /\ d_late \in BOOLEAN /\ d_waker \in BOOLEAN /\ d_woken \in BOOLEAN
           /\ d_out \in BOOLEAN /\ d_told \in BOOLEAN /\ d_foul \in BOOLEAN /\ d_write \in BOOLEAN
\* The command: who may still answer it, and what is left in its circuit.
SdCommand ==
  /\ d_pc # "idle" => d_count \in 1..MaxBlocks /\ d_result = "none"
  /\ d_pc = "start" => d_moved = 0 /\ ~d_wrong
  /\ SdSent => (d_out <=> d_write)
  /\ d_pc = "command" => /\ d_cmdline = "busy" => d_int = {}
                         /\ "cmd" \in d_int <=> d_cmdline = "free"
  /\ d_pc \in {"data", "drain"} => d_cmdline = "free"
  /\ d_pc = "idle" /\ d_result \in {"ok", "failed", "dropped"} => d_cmdline = "free"
  /\ d_pc = "idle" /\ d_result = "ok" /\ d_write => d_data # "moving"
  /\ d_cmdline = "busy" => d_left > 0 /\ d_data # "moving"
  /\ d_data = "moving" /\ d_out /\ (d_told \/ d_fifo = "block") => d_left > 0
  /\ d_pc = "drain" => d_path = "async_dma"
  /\ (SdGiven /\ "done" \in d_int) \/ d_pc = "drain" => d_data = "idle" /\ d_card # "data"
\* The gate is open and the waker stored in an async data phase only.
SdWait == /\ d_enable # {} \/ d_waker => d_pc = "data" /\ Sd!Async
          /\ d_pc = "data" /\ ~Sd!Async => d_wait = "look"
\* A ready bit of a write by hand is for the buffer as it is, and a write that is done is on the
\* card, whatever was left before it.
SdReady == /\ SdGiven /\ ~Sd!ByEngine /\ d_write /\ d_data # "failed" /\ "write" \in d_int
                => d_left > 0 /\ d_told /\ d_fifo # "block"
           /\ d_data = "moving" /\ d_out /\ d_left = 0 => d_fifo = "empty"
           /\ d_write /\ ((SdGiven /\ "done" \in d_int) \/ d_pc = "drain")
                => d_left = 0 /\ d_fifo = "empty" /\ ~d_told
\* Without a data phase left unreset: every block is the caller's, in the FIFO or the card's.
SdClean ==
  ~d_foul =>
    /\ d_pc \in {"idle", "start"} => /\ d_fifo = "empty" /\ d_data # "failed" /\ d_cmdline # "busy"
                                     /\ d_data = "moving" => ~d_out /\ d_left = 0
    /\ d_pc = "command" /\ d_cmdline # "free" => d_data = "idle" /\ d_fifo = "empty"
    /\ SdGiven /\ d_cmdline = "free" => ("err" \in d_int <=> d_data = "failed")
    /\ SdGiven /\ d_cmdline = "free" /\ d_data = "idle" =>
         d_left = 0 /\ (d_fifo = "block" => d_path = "async_dma" /\ ~d_write)
    /\ d_pc = "drain" => d_left = 0 /\ (d_fifo = "block" => ~d_write)
SdBlocks ==
  ~d_foul /\ SdSent /\ d_data # "failed" =>
    /\ d_fifo # "stale" /\ ~d_wrong
    /\ d_write => d_moved + d_left = d_count + SdHeld
    /\ ~d_write => d_moved + d_left + SdHeld = d_count
SdSeen ==
  /\ ~d_foul /\ SdGiven /\ ~Sd!ByEngine /\ d_data # "failed" =>
       /\ ~d_write /\ "read" \in d_int => d_fifo = "block"
       /\ ~d_write /\ d_fifo = "block" => "read" \in d_int
  /\ SdGiven /\ ~Sd!ByEngine /\ d_write /\ d_data = "moving" /\ d_told /\ d_fifo # "block" /\ d_moved < d_count => "write" \in d_int
SdInv == /\ Sd!TypeOK /\ SdFlags /\ SdCommand /\ SdWait /\ SdReady /\ SdClean /\ SdBlocks /\ SdSeen
         /\ Sd!CleanBetween /\ Sd!OkMeansAll /\ Sd!NothingMissed

LEMMA SdInit == Sd!Init => SdInv
<1> SUFFICES ASSUME Sd!Init PROVE SdInv
  OBVIOUS
<1>1. SdFlags
  BY DEF Sd!Init, SdFlags
<1>2. Sd!TypeOK
  BY <1>1, DriversAssumption DEF Sd!Init, Sd!TypeOK, SdFlags, Sd!Path, Sd!Bits
<1> QED
  BY <1>1, <1>2
  DEF Sd!Init, SdInv, SdCommand, SdWait, SdReady, SdClean, SdBlocks, SdSeen, SdGiven, SdSent, SdHeld,
       Sd!CleanBetween, Sd!OkMeansAll, Sd!NothingMissed

LEMMA SdAborts == SdInv /\ d_pc \in {"data", "drain"} /\ Sd!Async /\ (Sd!Abort("failed") \/ Sd!Abort("dropped")) => SdInv'
<1> SUFFICES ASSUME SdInv /\ d_pc \in {"data", "drain"} /\ Sd!Async /\ (Sd!Abort("failed") \/ Sd!Abort("dropped")) PROVE SdInv'
  OBVIOUS
<1> USE DriversAssumption DEF SdInv, SdFlags, Sd!TypeOK, SdGiven, SdSent, SdHeld, Sd!Async,
                              Sd!ByEngine, Sd!Bits, Sd!transfer, Sd!task, Sd!circuits
<1>1. SdFlags'
  BY DEF Sd!Abort, Sd!Reset
<1>2. Sd!TypeOK'
  BY <1>1 DEF SdCommand, Sd!Abort, Sd!Reset
<1>3. SdCommand'
  BY <1>1, <1>2 DEF SdCommand, SdReady, Sd!Abort, Sd!Reset
<1>4. SdWait'
  BY <1>1, <1>2 DEF SdWait, Sd!Abort, Sd!Reset
<1>5. SdReady'
  BY <1>1, <1>2 DEF SdReady, SdCommand, Sd!Abort, Sd!Reset
<1>6. SdClean'
  BY <1>1, <1>2 DEF SdClean, SdCommand, SdBlocks, SdReady, Sd!Abort, Sd!Reset
<1>7. SdBlocks'
  BY <1>1, <1>2 DEF SdBlocks, SdClean, SdCommand, SdReady, SdSeen, Sd!Abort, Sd!Reset
<1>8. SdSeen'
  BY <1>1, <1>2 DEF SdSeen, SdClean, SdBlocks, SdCommand, SdReady, Sd!Abort, Sd!Reset
<1>9. Sd!CleanBetween'
  BY <1>1, <1>2 DEF Sd!CleanBetween, Sd!Tail, SdWait, SdClean, SdBlocks, SdCommand, Sd!Abort, Sd!Reset
<1>10. Sd!OkMeansAll'
  BY <1>1, <1>2 DEF Sd!OkMeansAll, SdBlocks, SdClean, SdCommand, SdReady, Sd!Abort, Sd!Reset
<1>11. Sd!NothingMissed'
  BY <1>8, <1>2 DEF Sd!NothingMissed, SdSeen
<1> QED
  BY <1>1, <1>2, <1>3, <1>4, <1>5, <1>6, <1>7, <1>8, <1>9, <1>10, <1>11 DEF SdInv

LEMMA SdFails == SdInv /\ d_pc \in {"data", "drain"} /\ ~Sd!Async /\ Sd!Fail => SdInv'
<1> SUFFICES ASSUME SdInv /\ d_pc \in {"data", "drain"} /\ ~Sd!Async /\ Sd!Fail PROVE SdInv'
  OBVIOUS
<1> USE DriversAssumption DEF SdInv, SdFlags, Sd!TypeOK, SdGiven, SdSent, SdHeld, Sd!Async,
                              Sd!ByEngine, Sd!Bits, Sd!transfer, Sd!task, Sd!circuits
<1>1. SdFlags'
  BY DEF Sd!Fail, Sd!Reset
<1>a. /\ d_pc' = "idle" /\ d_result' = "failed" /\ d_int' = d_int \ {"err"} /\ d_card' = d_card
      /\ UNCHANGED <<d_path, d_write, d_count, d_moved, d_wait, d_enable>>
  BY DEF Sd!Fail
<1>b. \/ d_cmdline' = "free" /\ d_data' = "idle" /\ d_fifo' = "empty" /\ d_left' = 0
      \/ UNCHANGED <<d_cmdline, d_data, d_fifo, d_left>>
  BY DEF Sd!Fail, Sd!Reset
<1>2. Sd!TypeOK'
  BY <1>1, <1>a, <1>b
<1>3. SdCommand'
  BY <1>1, <1>2 DEF SdCommand, SdReady, Sd!Fail, Sd!Reset
<1>4. SdWait'
  BY <1>1, <1>2 DEF SdWait, Sd!Fail, Sd!Reset
<1>5. SdReady'
  BY <1>1, <1>2 DEF SdReady, SdCommand, Sd!Fail, Sd!Reset
<1>6. SdClean'
  BY <1>1, <1>2 DEF SdClean, SdCommand, SdBlocks, SdReady, Sd!Fail, Sd!Reset
<1>7. SdBlocks'
  BY <1>1, <1>2 DEF SdBlocks, SdClean, SdCommand, SdReady, SdSeen, Sd!Fail, Sd!Reset
<1>8. SdSeen'
  BY <1>1, <1>2 DEF SdSeen, SdClean, SdBlocks, SdCommand, SdReady, Sd!Fail, Sd!Reset
<1>9. Sd!CleanBetween'
  BY <1>1, <1>2 DEF Sd!CleanBetween, Sd!Tail, SdWait, SdClean, SdBlocks, SdCommand, Sd!Fail, Sd!Reset
<1>10. Sd!OkMeansAll'
  BY <1>1, <1>2 DEF Sd!OkMeansAll, SdBlocks, SdClean, SdCommand, SdReady, Sd!Fail, Sd!Reset
<1>11. Sd!NothingMissed'
  BY <1>8, <1>2 DEF Sd!NothingMissed, SdSeen
<1> QED
  BY <1>1, <1>2, <1>3, <1>4, <1>5, <1>6, <1>7, <1>8, <1>9, <1>10, <1>11 DEF SdInv

LEMMA SdEnds == SdInv /\ d_pc = "data" /\ Sd!Want = "done" /\ "done" \in d_int /\ "err" \notin d_int /\ Sd!Consume => SdInv'
<1> SUFFICES ASSUME SdInv /\ d_pc = "data" /\ Sd!Want = "done" /\ "done" \in d_int /\ "err" \notin d_int /\ Sd!Consume PROVE SdInv'
  OBVIOUS
<1> USE DriversAssumption DEF SdInv, SdFlags, Sd!TypeOK, SdGiven, SdSent, SdHeld, Sd!Async,
                              Sd!ByEngine, Sd!Bits, Sd!transfer, Sd!task, Sd!circuits
<1>a. /\ d_moved' = d_moved /\ d_wrong' = d_wrong /\ d_fifo' = d_fifo /\ d_told' = d_told
      /\ IF d_path = "async_dma" THEN d_pc' = "drain" /\ d_result' = d_result ELSE d_pc' = "idle" /\ d_result' = "ok"
      /\ ~Sd!ByEngine => d_moved = d_count
  BY DEF Sd!Consume, Sd!Want
<1>b. /\ d_int' = d_int \ {"done"} /\ d_enable' = {} /\ d_late' = FALSE /\ d_wait' = "look" /\ d_waker' = FALSE
      /\ UNCHANGED <<Sd!transfer, d_woken, d_cmdline, d_data, d_out, d_left, d_card, d_foul>>
  BY DEF Sd!Consume
<1>c. d_pc = "data" /\ "done" \in d_int /\ "err" \notin d_int
  OBVIOUS
<1>1. SdFlags'
  BY <1>a, <1>b, <1>c
<1>2. Sd!TypeOK'
  BY <1>a, <1>b, <1>c, <1>1 DEF SdCommand
<1>3. SdCommand'
  BY <1>a, <1>b, <1>c, <1>1, <1>2 DEF SdCommand, SdReady
<1>4. SdWait'
  BY <1>a, <1>b, <1>c, <1>1, <1>2 DEF SdWait
<1>5. SdReady'
  BY <1>a, <1>b, <1>c, <1>1, <1>2 DEF SdReady, SdCommand
<1>6. SdClean'
  BY <1>a, <1>b, <1>c, <1>1, <1>2 DEF SdClean, SdCommand, SdBlocks, SdReady
<1>7. SdBlocks'
  BY <1>a, <1>b, <1>c, <1>1, <1>2 DEF SdBlocks, SdClean, SdCommand, SdReady, SdSeen
<1>8. SdSeen'
  BY <1>a, <1>b, <1>c, <1>1, <1>2 DEF SdSeen, SdClean, SdBlocks, SdCommand, SdReady
<1>9. Sd!CleanBetween'
  BY <1>a, <1>b, <1>c, <1>1, <1>2 DEF Sd!CleanBetween, Sd!Tail, SdWait, SdClean, SdBlocks, SdCommand
<1>10. Sd!OkMeansAll'
  BY <1>a, <1>b, <1>c, <1>1, <1>2 DEF Sd!OkMeansAll, SdBlocks, SdClean, SdCommand, SdReady
<1>11. Sd!NothingMissed'
  BY <1>8, <1>2 DEF Sd!NothingMissed, SdSeen
<1> QED
  BY <1>1, <1>2, <1>3, <1>4, <1>5, <1>6, <1>7, <1>8, <1>9, <1>10, <1>11 DEF SdInv

LEMMA SdPushes == SdInv /\ d_pc = "data" /\ Sd!Want = "write" /\ "write" \in d_int /\ "err" \notin d_int /\ Sd!Consume => SdInv'
<1> SUFFICES ASSUME SdInv /\ d_pc = "data" /\ Sd!Want = "write" /\ "write" \in d_int /\ "err" \notin d_int /\ Sd!Consume PROVE SdInv'
  OBVIOUS
<1> USE DriversAssumption DEF SdInv, SdFlags, Sd!TypeOK, SdGiven, SdSent, SdHeld, Sd!Async,
                              Sd!ByEngine, Sd!Bits, Sd!transfer, Sd!task, Sd!circuits
<1>a. /\ d_moved' = d_moved + 1 /\ d_fifo' = "block" /\ d_pc' = d_pc /\ d_result' = d_result /\ d_told' = d_told
      /\ d_wrong' \in BOOLEAN /\ (d_wrong' <=> d_wrong \/ d_fifo = "stale")
      /\ d_write /\ ~Sd!ByEngine /\ d_moved # d_count
  BY DEF Sd!Consume, Sd!Want
<1>b. /\ d_int' = d_int \ {"write"} /\ d_enable' = {} /\ d_late' = FALSE /\ d_wait' = "look" /\ d_waker' = FALSE
      /\ UNCHANGED <<Sd!transfer, d_woken, d_cmdline, d_data, d_out, d_left, d_card, d_foul>>
  BY DEF Sd!Consume
<1>c. d_pc = "data" /\ "write" \in d_int /\ "err" \notin d_int
  OBVIOUS
<1>1. SdFlags'
  BY <1>a, <1>b, <1>c
<1>2. Sd!TypeOK'
  BY <1>a, <1>b, <1>c, <1>1 DEF SdCommand
<1>3. SdCommand'
  BY <1>a, <1>b, <1>c, <1>1, <1>2 DEF SdCommand, SdReady
<1>4. SdWait'
  BY <1>a, <1>b, <1>c, <1>1, <1>2 DEF SdWait
<1>5. SdReady'
  BY <1>a, <1>b, <1>c, <1>1, <1>2 DEF SdReady, SdCommand
<1>6. SdClean'
  BY <1>a, <1>b, <1>c, <1>1, <1>2 DEF SdClean, SdCommand, SdBlocks, SdReady
<1>7. SdBlocks'
  BY <1>a, <1>b, <1>c, <1>1, <1>2 DEF SdBlocks, SdClean, SdCommand, SdReady, SdSeen
<1>8. SdSeen'
  BY <1>a, <1>b, <1>c, <1>1, <1>2 DEF SdSeen, SdClean, SdBlocks, SdCommand, SdReady
<1>9. Sd!CleanBetween'
  BY <1>a, <1>b, <1>c, <1>1, <1>2 DEF Sd!CleanBetween, Sd!Tail, SdWait, SdClean, SdBlocks, SdCommand
<1>10. Sd!OkMeansAll'
  BY <1>a, <1>b, <1>c, <1>1, <1>2 DEF Sd!OkMeansAll, SdBlocks, SdClean, SdCommand, SdReady
<1>11. Sd!NothingMissed'
  BY <1>8, <1>2 DEF Sd!NothingMissed, SdSeen
<1> QED
  BY <1>1, <1>2, <1>3, <1>4, <1>5, <1>6, <1>7, <1>8, <1>9, <1>10, <1>11 DEF SdInv

LEMMA SdDrains == SdInv /\ d_pc = "data" /\ Sd!Want = "read" /\ "read" \in d_int /\ "err" \notin d_int /\ Sd!Consume => SdInv'
<1> SUFFICES ASSUME SdInv /\ d_pc = "data" /\ Sd!Want = "read" /\ "read" \in d_int /\ "err" \notin d_int /\ Sd!Consume PROVE SdInv'
  OBVIOUS
<1> USE DriversAssumption DEF SdInv, SdFlags, Sd!TypeOK, SdGiven, SdSent, SdHeld, Sd!Async,
                              Sd!ByEngine, Sd!Bits, Sd!transfer, Sd!task, Sd!circuits
<1>a. /\ d_moved' = d_moved + 1 /\ d_told' = FALSE /\ d_wrong' \in BOOLEAN /\ (d_wrong' <=> d_wrong \/ d_fifo = "stale")
      /\ d_fifo' = IF d_fifo = "stale" THEN "stale" ELSE "empty"
      /\ IF d_count = 1 THEN d_pc' = "idle" /\ d_result' = "ok" ELSE d_pc' = d_pc /\ d_result' = d_result
      /\ ~d_write /\ ~Sd!ByEngine /\ d_moved # d_count
  BY DEF Sd!Consume, Sd!Want
<1>b. /\ d_int' = d_int \ {"read"} /\ d_enable' = {} /\ d_late' = FALSE /\ d_wait' = "look" /\ d_waker' = FALSE
      /\ UNCHANGED <<Sd!transfer, d_woken, d_cmdline, d_data, d_out, d_left, d_card, d_foul>>
  BY DEF Sd!Consume
<1>c. d_pc = "data" /\ "read" \in d_int /\ "err" \notin d_int
  OBVIOUS
<1>1. SdFlags'
  BY <1>a, <1>b, <1>c
<1>2. Sd!TypeOK'
  BY <1>a, <1>b, <1>c, <1>1 DEF SdCommand
<1>3. SdCommand'
  BY <1>a, <1>b, <1>c, <1>1, <1>2 DEF SdCommand, SdReady
<1>4. SdWait'
  BY <1>a, <1>b, <1>c, <1>1, <1>2 DEF SdWait
<1>5. SdReady'
  BY <1>a, <1>b, <1>c, <1>1, <1>2 DEF SdReady, SdCommand
<1>6. SdClean'
  BY <1>a, <1>b, <1>c, <1>1, <1>2 DEF SdSeen, SdClean, SdCommand, SdBlocks, SdReady
<1>7. SdBlocks'
  BY <1>a, <1>b, <1>c, <1>1, <1>2 DEF SdBlocks, SdClean, SdCommand, SdReady, SdSeen
<1>8. SdSeen'
  BY <1>a, <1>b, <1>c, <1>1, <1>2 DEF SdSeen, SdClean, SdBlocks, SdCommand, SdReady
<1>9. Sd!CleanBetween'
  BY <1>a, <1>b, <1>c, <1>1, <1>2 DEF Sd!CleanBetween, Sd!Tail, SdWait, SdClean, SdBlocks, SdCommand
<1>10. Sd!OkMeansAll'
  BY <1>a, <1>b, <1>c, <1>1, <1>2 DEF Sd!OkMeansAll, SdBlocks, SdClean, SdCommand, SdReady
<1>11. Sd!NothingMissed'
  BY <1>8, <1>2 DEF Sd!NothingMissed, SdSeen
<1> QED
  BY <1>1, <1>2, <1>3, <1>4, <1>5, <1>6, <1>7, <1>8, <1>9, <1>10, <1>11 DEF SdInv

LEMMA SdMoves == SdInv /\ d_pc = "data" /\ Sd!Want \in d_int /\ "err" \notin d_int /\ Sd!Consume => SdInv'
<1>1. Sd!Want \in {"done", "write", "read"}
  BY DEF Sd!Want
<1> QED
  BY <1>1, SdEnds, SdPushes, SdDrains

LEMMA SdNext == SdInv /\ [Sd!Next]_dVars => SdInv'
<1> SUFFICES ASSUME SdInv, [Sd!Next]_dVars PROVE SdInv'
  OBVIOUS
<1> USE DriversAssumption DEF SdInv, SdFlags, Sd!TypeOK, SdGiven, SdSent, SdHeld, Sd!Async,
                              Sd!ByEngine, Sd!Bits, Sd!transfer, Sd!task, Sd!circuits
<1>1. CASE Sd!Accept
  <2>1. SdFlags'
    BY <1>1 DEF Sd!Accept
  <2>2. Sd!TypeOK'
    BY <1>1, <2>1 DEF SdCommand, Sd!Accept
  <2>3. SdCommand'
    BY <1>1, <2>1, <2>2 DEF SdCommand, SdReady, Sd!Accept
  <2>4. SdWait'
    BY <1>1, <2>1, <2>2 DEF SdWait, Sd!Accept
  <2>5. SdReady'
    BY <1>1, <2>1, <2>2 DEF SdReady, SdCommand, Sd!Accept
  <2>6. SdClean'
    BY <1>1, <2>1, <2>2 DEF SdClean, SdCommand, SdBlocks, SdReady, Sd!Accept
  <2>7. SdBlocks'
    BY <1>1, <2>1, <2>2 DEF SdBlocks, SdClean, SdCommand, SdReady, SdSeen, Sd!Accept
  <2>8. SdSeen'
    BY <1>1, <2>1, <2>2 DEF SdSeen, SdClean, SdBlocks, SdCommand, SdReady, Sd!Accept
  <2>9. Sd!CleanBetween'
    BY <1>1, <2>1, <2>2 DEF Sd!CleanBetween, Sd!Tail, SdWait, SdClean, SdBlocks, SdCommand, Sd!Accept
  <2>10. Sd!OkMeansAll'
    BY <1>1, <2>1, <2>2 DEF Sd!OkMeansAll, SdBlocks, SdClean, SdCommand, SdReady, Sd!Accept
  <2>11. Sd!NothingMissed'
    BY <2>8, <2>2 DEF Sd!NothingMissed, SdSeen
  <2> QED
    BY <2>1, <2>2, <2>3, <2>4, <2>5, <2>6, <2>7, <2>8, <2>9, <2>10, <2>11 DEF SdInv
<1>2. CASE Sd!Refuse
  <2>1. SdFlags'
    BY <1>2 DEF Sd!Refuse
  <2>2. Sd!TypeOK'
    BY <1>2, <2>1 DEF SdCommand, Sd!Refuse
  <2>3. SdCommand'
    BY <1>2, <2>1, <2>2 DEF SdCommand, SdReady, Sd!Refuse
  <2>4. SdWait'
    BY <1>2, <2>1, <2>2 DEF SdWait, Sd!Refuse
  <2>5. SdReady'
    BY <1>2, <2>1, <2>2 DEF SdReady, SdCommand, Sd!Refuse
  <2>6. SdClean'
    BY <1>2, <2>1, <2>2 DEF SdClean, SdCommand, SdBlocks, SdReady, Sd!Refuse
  <2>7. SdBlocks'
    BY <1>2, <2>1, <2>2 DEF SdBlocks, SdClean, SdCommand, SdReady, SdSeen, Sd!Refuse
  <2>8. SdSeen'
    BY <1>2, <2>1, <2>2 DEF SdSeen, SdClean, SdBlocks, SdCommand, SdReady, Sd!Refuse
  <2>9. Sd!CleanBetween'
    BY <1>2, <2>1, <2>2 DEF Sd!CleanBetween, Sd!Tail, SdWait, SdClean, SdBlocks, SdCommand, Sd!Refuse
  <2>10. Sd!OkMeansAll'
    BY <1>2, <2>1, <2>2 DEF Sd!OkMeansAll, SdBlocks, SdClean, SdCommand, SdReady, Sd!Refuse
  <2>11. Sd!NothingMissed'
    BY <2>8, <2>2 DEF Sd!NothingMissed, SdSeen
  <2> QED
    BY <2>1, <2>2, <2>3, <2>4, <2>5, <2>6, <2>7, <2>8, <2>9, <2>10, <2>11 DEF SdInv
<1>3. CASE Sd!Deliver
  <2>1. SdFlags'
    BY <1>3 DEF Sd!Deliver
  <2>2. Sd!TypeOK'
    BY <1>3, <2>1 DEF SdCommand, Sd!Deliver
  <2>3. SdCommand'
    BY <1>3, <2>1, <2>2 DEF SdCommand, SdReady, Sd!Deliver
  <2>4. SdWait'
    BY <1>3, <2>1, <2>2 DEF SdWait, Sd!Deliver
  <2>5. SdReady'
    BY <1>3, <2>1, <2>2 DEF SdReady, SdCommand, Sd!Deliver
  <2>6. SdClean'
    BY <1>3, <2>1, <2>2 DEF SdClean, SdCommand, SdBlocks, SdReady, Sd!Deliver
  <2>7. SdBlocks'
    BY <1>3, <2>1, <2>2 DEF SdBlocks, SdClean, SdCommand, SdReady, SdSeen, Sd!Deliver
  <2>8. SdSeen'
    BY <1>3, <2>1, <2>2 DEF SdSeen, SdClean, SdBlocks, SdCommand, SdReady, Sd!Deliver
  <2>9. Sd!CleanBetween'
    BY <1>3, <2>1, <2>2 DEF Sd!CleanBetween, Sd!Tail, SdWait, SdClean, SdBlocks, SdCommand, Sd!Deliver
  <2>10. Sd!OkMeansAll'
    BY <1>3, <2>1, <2>2 DEF Sd!OkMeansAll, SdBlocks, SdClean, SdCommand, SdReady, Sd!Deliver
  <2>11. Sd!NothingMissed'
    BY <2>8, <2>2 DEF Sd!NothingMissed, SdSeen
  <2> QED
    BY <2>1, <2>2, <2>3, <2>4, <2>5, <2>6, <2>7, <2>8, <2>9, <2>10, <2>11 DEF SdInv
<1>4. CASE Sd!WriteReady
  <2>1. SdFlags'
    BY <1>4 DEF Sd!WriteReady
  <2>2. Sd!TypeOK'
    BY <1>4, <2>1 DEF SdCommand, Sd!WriteReady
  <2>3. SdCommand'
    BY <1>4, <2>1, <2>2 DEF SdCommand, SdReady, Sd!WriteReady
  <2>4. SdWait'
    BY <1>4, <2>1, <2>2 DEF SdWait, Sd!WriteReady
  <2>5. SdReady'
    BY <1>4, <2>1, <2>2 DEF SdReady, SdCommand, Sd!WriteReady
  <2>6. SdClean'
    BY <1>4, <2>1, <2>2 DEF SdClean, SdCommand, SdBlocks, SdReady, Sd!WriteReady
  <2>7. SdBlocks'
    BY <1>4, <2>1, <2>2 DEF SdBlocks, SdClean, SdCommand, SdReady, SdSeen, Sd!WriteReady
  <2>8. SdSeen'
    BY <1>4, <2>1, <2>2 DEF SdSeen, SdClean, SdBlocks, SdCommand, SdReady, Sd!WriteReady
  <2>9. Sd!CleanBetween'
    BY <1>4, <2>1, <2>2
    DEF Sd!CleanBetween, Sd!Tail, SdWait, SdClean, SdBlocks, SdCommand, Sd!WriteReady
  <2>10. Sd!OkMeansAll'
    BY <1>4, <2>1, <2>2 DEF Sd!OkMeansAll, SdBlocks, SdClean, SdCommand, SdReady, Sd!WriteReady
  <2>11. Sd!NothingMissed'
    BY <2>8, <2>2 DEF Sd!NothingMissed, SdSeen
  <2> QED
    BY <2>1, <2>2, <2>3, <2>4, <2>5, <2>6, <2>7, <2>8, <2>9, <2>10, <2>11 DEF SdInv
<1>5. CASE Sd!Take
  <2>1. SdFlags'
    BY <1>5 DEF Sd!Take
  <2>2. Sd!TypeOK'
    BY <1>5, <2>1 DEF SdCommand, Sd!Take
  <2>3. SdCommand'
    BY <1>5, <2>1, <2>2 DEF SdCommand, SdReady, Sd!Take
  <2>4. SdWait'
    BY <1>5, <2>1, <2>2 DEF SdWait, Sd!Take
  <2>5. SdReady'
    BY <1>5, <2>1, <2>2 DEF SdReady, SdCommand, Sd!Take
  <2>6. SdClean'
    BY <1>5, <2>1, <2>2 DEF SdClean, SdCommand, SdBlocks, SdReady, Sd!Take
  <2>7. SdBlocks'
    BY <1>5, <2>1, <2>2 DEF SdBlocks, SdClean, SdCommand, SdReady, SdSeen, Sd!Take
  <2>8. SdSeen'
    BY <1>5, <2>1, <2>2 DEF SdSeen, SdClean, SdBlocks, SdCommand, SdReady, Sd!Take
  <2>9. Sd!CleanBetween'
    BY <1>5, <2>1, <2>2 DEF Sd!CleanBetween, Sd!Tail, SdWait, SdClean, SdBlocks, SdCommand, Sd!Take
  <2>10. Sd!OkMeansAll'
    BY <1>5, <2>1, <2>2 DEF Sd!OkMeansAll, SdBlocks, SdClean, SdCommand, SdReady, Sd!Take
  <2>11. Sd!NothingMissed'
    BY <2>8, <2>2 DEF Sd!NothingMissed, SdSeen
  <2> QED
    BY <2>1, <2>2, <2>3, <2>4, <2>5, <2>6, <2>7, <2>8, <2>9, <2>10, <2>11 DEF SdInv
<1>6. CASE Sd!Complete
  <2>1. SdFlags'
    BY <1>6 DEF Sd!Complete
  <2>2. Sd!TypeOK'
    BY <1>6, <2>1 DEF SdCommand, Sd!Complete
  <2>3. SdCommand'
    BY <1>6, <2>1, <2>2 DEF SdCommand, SdReady, Sd!Complete
  <2>4. SdWait'
    BY <1>6, <2>1, <2>2 DEF SdWait, Sd!Complete
  <2>5. SdReady'
    BY <1>6, <2>1, <2>2 DEF SdReady, SdCommand, Sd!Complete
  <2>6. SdClean'
    BY <1>6, <2>1, <2>2 DEF SdClean, SdCommand, SdBlocks, SdReady, Sd!Complete
  <2>7. SdBlocks'
    BY <1>6, <2>1, <2>2 DEF SdBlocks, SdClean, SdCommand, SdReady, SdSeen, Sd!Complete
  <2>8. SdSeen'
    BY <1>6, <2>1, <2>2 DEF SdSeen, SdClean, SdBlocks, SdCommand, SdReady, Sd!Complete
  <2>9. Sd!CleanBetween'
    BY <1>6, <2>1, <2>2 DEF Sd!CleanBetween, Sd!Tail, SdWait, SdClean, SdBlocks, SdCommand, Sd!Complete
  <2>10. Sd!OkMeansAll'
    BY <1>6, <2>1, <2>2 DEF Sd!OkMeansAll, SdBlocks, SdClean, SdCommand, SdReady, Sd!Complete
  <2>11. Sd!NothingMissed'
    BY <2>8, <2>2 DEF Sd!NothingMissed, SdSeen
  <2> QED
    BY <2>1, <2>2, <2>3, <2>4, <2>5, <2>6, <2>7, <2>8, <2>9, <2>10, <2>11 DEF SdInv
<1>7. CASE Sd!Break
  <2>1. SdFlags'
    BY <1>7 DEF Sd!Break
  <2>2. Sd!TypeOK'
    BY <1>7, <2>1 DEF SdCommand, Sd!Break
  <2>3. SdCommand'
    BY <1>7, <2>1, <2>2 DEF SdCommand, SdReady, Sd!Break
  <2>4. SdWait'
    BY <1>7, <2>1, <2>2 DEF SdWait, Sd!Break
  <2>5. SdReady'
    BY <1>7, <2>1, <2>2 DEF SdReady, SdCommand, Sd!Break
  <2>6. SdClean'
    BY <1>7, <2>1, <2>2 DEF SdClean, SdCommand, SdBlocks, SdReady, Sd!Break
  <2>7. SdBlocks'
    BY <1>7, <2>1, <2>2 DEF SdBlocks, SdClean, SdCommand, SdReady, SdSeen, Sd!Break
  <2>8. SdSeen'
    BY <1>7, <2>1, <2>2 DEF SdSeen, SdClean, SdBlocks, SdCommand, SdReady, Sd!Break
  <2>9. Sd!CleanBetween'
    BY <1>7, <2>1, <2>2 DEF Sd!CleanBetween, Sd!Tail, SdWait, SdClean, SdBlocks, SdCommand, Sd!Break
  <2>10. Sd!OkMeansAll'
    BY <1>7, <2>1, <2>2 DEF Sd!OkMeansAll, SdBlocks, SdClean, SdCommand, SdReady, Sd!Break
  <2>11. Sd!NothingMissed'
    BY <2>8, <2>2 DEF Sd!NothingMissed, SdSeen
  <2> QED
    BY <2>1, <2>2, <2>3, <2>4, <2>5, <2>6, <2>7, <2>8, <2>9, <2>10, <2>11 DEF SdInv
<1>8. CASE Sd!Engine
  <2>1. SdFlags'
    BY <1>8 DEF Sd!Engine
  <2>2. Sd!TypeOK'
    BY <1>8, <2>1 DEF SdCommand, Sd!Engine
  <2>3. SdCommand'
    BY <1>8, <2>1, <2>2 DEF SdCommand, SdReady, Sd!Engine
  <2>4. SdWait'
    BY <1>8, <2>1, <2>2 DEF SdWait, Sd!Engine
  <2>5. SdReady'
    BY <1>8, <2>1, <2>2 DEF SdReady, SdCommand, Sd!Engine
  <2>6. SdClean'
    BY <1>8, <2>1, <2>2 DEF SdClean, SdCommand, SdBlocks, SdReady, Sd!Engine
  <2>7. SdBlocks'
    BY <1>8, <2>1, <2>2 DEF SdBlocks, SdClean, SdCommand, SdReady, SdSeen, Sd!Engine
  <2>8. SdSeen'
    BY <1>8, <2>1, <2>2 DEF SdSeen, SdClean, SdBlocks, SdCommand, SdReady, Sd!Engine
  <2>9. Sd!CleanBetween'
    BY <1>8, <2>1, <2>2 DEF Sd!CleanBetween, Sd!Tail, SdWait, SdClean, SdBlocks, SdCommand, Sd!Engine
  <2>10. Sd!OkMeansAll'
    BY <1>8, <2>1, <2>2 DEF Sd!OkMeansAll, SdBlocks, SdClean, SdCommand, SdReady, Sd!Engine
  <2>11. Sd!NothingMissed'
    BY <2>8, <2>2 DEF Sd!NothingMissed, SdSeen
  <2> QED
    BY <2>1, <2>2, <2>3, <2>4, <2>5, <2>6, <2>7, <2>8, <2>9, <2>10, <2>11 DEF SdInv
<1>9. CASE Sd!Expire
  <2>1. SdFlags'
    BY <1>9 DEF Sd!Expire
  <2>2. Sd!TypeOK'
    BY <1>9, <2>1 DEF SdCommand, Sd!Expire
  <2>3. SdCommand'
    BY <1>9, <2>1, <2>2 DEF SdCommand, SdReady, Sd!Expire
  <2>4. SdWait'
    BY <1>9, <2>1, <2>2 DEF SdWait, Sd!Expire
  <2>5. SdReady'
    BY <1>9, <2>1, <2>2 DEF SdReady, SdCommand, Sd!Expire
  <2>6. SdClean'
    BY <1>9, <2>1, <2>2 DEF SdClean, SdCommand, SdBlocks, SdReady, Sd!Expire
  <2>7. SdBlocks'
    BY <1>9, <2>1, <2>2 DEF SdBlocks, SdClean, SdCommand, SdReady, SdSeen, Sd!Expire
  <2>8. SdSeen'
    BY <1>9, <2>1, <2>2 DEF SdSeen, SdClean, SdBlocks, SdCommand, SdReady, Sd!Expire
  <2>9. Sd!CleanBetween'
    BY <1>9, <2>1, <2>2 DEF Sd!CleanBetween, Sd!Tail, SdWait, SdClean, SdBlocks, SdCommand, Sd!Expire
  <2>10. Sd!OkMeansAll'
    BY <1>9, <2>1, <2>2 DEF Sd!OkMeansAll, SdBlocks, SdClean, SdCommand, SdReady, Sd!Expire
  <2>11. Sd!NothingMissed'
    BY <2>8, <2>2 DEF Sd!NothingMissed, SdSeen
  <2> QED
    BY <2>1, <2>2, <2>3, <2>4, <2>5, <2>6, <2>7, <2>8, <2>9, <2>10, <2>11 DEF SdInv
<1>10. CASE Sd!OnIrq
  <2>1. SdFlags'
    BY <1>10 DEF Sd!OnIrq
  <2>2. Sd!TypeOK'
    BY <1>10, <2>1 DEF SdCommand, Sd!OnIrq
  <2>3. SdCommand'
    BY <1>10, <2>1, <2>2 DEF SdCommand, SdReady, Sd!OnIrq
  <2>4. SdWait'
    BY <1>10, <2>1, <2>2 DEF SdWait, Sd!OnIrq
  <2>5. SdReady'
    BY <1>10, <2>1, <2>2 DEF SdReady, SdCommand, Sd!OnIrq
  <2>6. SdClean'
    BY <1>10, <2>1, <2>2 DEF SdClean, SdCommand, SdBlocks, SdReady, Sd!OnIrq
  <2>7. SdBlocks'
    BY <1>10, <2>1, <2>2 DEF SdBlocks, SdClean, SdCommand, SdReady, SdSeen, Sd!OnIrq
  <2>8. SdSeen'
    BY <1>10, <2>1, <2>2 DEF SdSeen, SdClean, SdBlocks, SdCommand, SdReady, Sd!OnIrq
  <2>9. Sd!CleanBetween'
    BY <1>10, <2>1, <2>2 DEF Sd!CleanBetween, Sd!Tail, SdWait, SdClean, SdBlocks, SdCommand, Sd!OnIrq
  <2>10. Sd!OkMeansAll'
    BY <1>10, <2>1, <2>2 DEF Sd!OkMeansAll, SdBlocks, SdClean, SdCommand, SdReady, Sd!OnIrq
  <2>11. Sd!NothingMissed'
    BY <2>8, <2>2 DEF Sd!NothingMissed, SdSeen
  <2> QED
    BY <2>1, <2>2, <2>3, <2>4, <2>5, <2>6, <2>7, <2>8, <2>9, <2>10, <2>11 DEF SdInv
<1>11. CASE Sd!Issue
  <2>1. SdFlags'
    BY <1>11 DEF Sd!Issue, Sd!DataLinesFree
  <2>2. Sd!TypeOK'
    BY <1>11, <2>1 DEF SdCommand, Sd!Issue, Sd!DataLinesFree
  <2>3. SdCommand'
    BY <1>11, <2>1, <2>2 DEF SdCommand, SdReady, Sd!Issue, Sd!DataLinesFree
  <2>4. SdWait'
    BY <1>11, <2>1, <2>2 DEF SdWait, Sd!Issue, Sd!DataLinesFree
  <2>5. SdReady'
    BY <1>11, <2>1, <2>2 DEF SdReady, SdCommand, Sd!Issue, Sd!DataLinesFree
  <2>6. SdClean'
    BY <1>11, <2>1, <2>2 DEF SdClean, SdCommand, SdBlocks, SdReady, Sd!Issue, Sd!DataLinesFree
  <2>7. SdBlocks'
    BY <1>11, <2>1, <2>2 DEF SdBlocks, SdClean, SdCommand, SdReady, SdSeen, Sd!Issue, Sd!DataLinesFree
  <2>8. SdSeen'
    BY <1>11, <2>1, <2>2 DEF SdSeen, SdClean, SdBlocks, SdCommand, SdReady, Sd!Issue, Sd!DataLinesFree
  <2>9. Sd!CleanBetween'
    BY <1>11, <2>1, <2>2
    DEF Sd!CleanBetween, Sd!Tail, SdWait, SdClean, SdBlocks, SdCommand, Sd!Issue, Sd!DataLinesFree
  <2>10. Sd!OkMeansAll'
    BY <1>11, <2>1, <2>2 DEF Sd!OkMeansAll, SdBlocks, SdClean, SdCommand, SdReady, Sd!Issue, Sd!DataLinesFree
  <2>11. Sd!NothingMissed'
    BY <2>8, <2>2 DEF Sd!NothingMissed, SdSeen
  <2> QED
    BY <2>1, <2>2, <2>3, <2>4, <2>5, <2>6, <2>7, <2>8, <2>9, <2>10, <2>11 DEF SdInv
<1>12. CASE Sd!NotReady
  <2>1. SdFlags'
    BY <1>12 DEF Sd!NotReady, Sd!Unguarded
  <2>2. Sd!TypeOK'
    BY <1>12, <2>1 DEF SdCommand, Sd!NotReady, Sd!Unguarded
  <2>3. SdCommand'
    BY <1>12, <2>1, <2>2 DEF SdCommand, SdReady, Sd!NotReady, Sd!Unguarded
  <2>4. SdWait'
    BY <1>12, <2>1, <2>2 DEF SdWait, Sd!NotReady, Sd!Unguarded
  <2>5. SdReady'
    BY <1>12, <2>1, <2>2 DEF SdReady, SdCommand, Sd!NotReady, Sd!Unguarded
  <2>6. SdClean'
    BY <1>12, <2>1, <2>2 DEF SdClean, SdCommand, SdBlocks, SdReady, Sd!NotReady, Sd!Unguarded
  <2>7. SdBlocks'
    BY <1>12, <2>1, <2>2 DEF SdBlocks, SdClean, SdCommand, SdReady, SdSeen, Sd!NotReady, Sd!Unguarded
  <2>8. SdSeen'
    BY <1>12, <2>1, <2>2 DEF SdSeen, SdClean, SdBlocks, SdCommand, SdReady, Sd!NotReady, Sd!Unguarded
  <2>9. Sd!CleanBetween'
    BY <1>12, <2>1, <2>2
    DEF Sd!CleanBetween, Sd!Tail, SdWait, SdClean, SdBlocks, SdCommand, Sd!NotReady, Sd!Unguarded
  <2>10. Sd!OkMeansAll'
    BY <1>12, <2>1, <2>2 DEF Sd!OkMeansAll, SdBlocks, SdClean, SdCommand, SdReady, Sd!NotReady, Sd!Unguarded
  <2>11. Sd!NothingMissed'
    BY <2>8, <2>2 DEF Sd!NothingMissed, SdSeen
  <2> QED
    BY <2>1, <2>2, <2>3, <2>4, <2>5, <2>6, <2>7, <2>8, <2>9, <2>10, <2>11 DEF SdInv
<1>13. CASE Sd!CommandDone
  <2>1. SdFlags'
    BY <1>13 DEF Sd!CommandDone
  <2>2. Sd!TypeOK'
    BY <1>13, <2>1 DEF SdCommand, Sd!CommandDone
  <2>3. SdCommand'
    BY <1>13, <2>1, <2>2 DEF SdCommand, SdReady, Sd!CommandDone
  <2>4. SdWait'
    BY <1>13, <2>1, <2>2 DEF SdWait, Sd!CommandDone
  <2>5. SdReady'
    BY <1>13, <2>1, <2>2 DEF SdReady, SdCommand, Sd!CommandDone
  <2>6. SdClean'
    BY <1>13, <2>1, <2>2 DEF SdClean, SdCommand, SdBlocks, SdReady, Sd!CommandDone
  <2>7. SdBlocks'
    BY <1>13, <2>1, <2>2 DEF SdBlocks, SdClean, SdCommand, SdReady, SdSeen, Sd!CommandDone
  <2>8. SdSeen'
    BY <1>13, <2>1, <2>2 DEF SdSeen, SdClean, SdBlocks, SdCommand, SdReady, Sd!CommandDone
  <2>9. Sd!CleanBetween'
    BY <1>13, <2>1, <2>2
    DEF Sd!CleanBetween, Sd!Tail, SdWait, SdClean, SdBlocks, SdCommand, Sd!CommandDone
  <2>10. Sd!OkMeansAll'
    BY <1>13, <2>1, <2>2 DEF Sd!OkMeansAll, SdBlocks, SdClean, SdCommand, SdReady, Sd!CommandDone
  <2>11. Sd!NothingMissed'
    BY <2>8, <2>2 DEF Sd!NothingMissed, SdSeen
  <2> QED
    BY <2>1, <2>2, <2>3, <2>4, <2>5, <2>6, <2>7, <2>8, <2>9, <2>10, <2>11 DEF SdInv
<1>14. CASE Sd!CommandFailed
  <2>1. SdFlags'
    BY <1>14 DEF Sd!CommandFailed, Sd!Unguarded
  <2>2. Sd!TypeOK'
    BY <1>14, <2>1 DEF SdCommand, Sd!CommandFailed, Sd!Unguarded
  <2>3. SdCommand'
    BY <1>14, <2>1, <2>2 DEF SdCommand, SdReady, Sd!CommandFailed, Sd!Unguarded
  <2>4. SdWait'
    BY <1>14, <2>1, <2>2 DEF SdWait, Sd!CommandFailed, Sd!Unguarded
  <2>5. SdReady'
    BY <1>14, <2>1, <2>2 DEF SdReady, SdCommand, Sd!CommandFailed, Sd!Unguarded
  <2>6. SdClean'
    BY <1>14, <2>1, <2>2 DEF SdClean, SdCommand, SdBlocks, SdReady, Sd!CommandFailed, Sd!Unguarded
  <2>7. SdBlocks'
    BY <1>14, <2>1, <2>2
    DEF SdBlocks, SdClean, SdCommand, SdReady, SdSeen, Sd!CommandFailed, Sd!Unguarded
  <2>8. SdSeen'
    BY <1>14, <2>1, <2>2
    DEF SdSeen, SdClean, SdBlocks, SdCommand, SdReady, Sd!CommandFailed, Sd!Unguarded
  <2>9. Sd!CleanBetween'
    BY <1>14, <2>1, <2>2
    DEF Sd!CleanBetween, Sd!Tail, SdWait, SdClean, SdBlocks, SdCommand, Sd!CommandFailed, Sd!Unguarded
  <2>10. Sd!OkMeansAll'
    BY <1>14, <2>1, <2>2 DEF Sd!OkMeansAll, SdBlocks, SdClean, SdCommand, SdReady, Sd!CommandFailed, Sd!Unguarded
  <2>11. Sd!NothingMissed'
    BY <2>8, <2>2 DEF Sd!NothingMissed, SdSeen
  <2> QED
    BY <2>1, <2>2, <2>3, <2>4, <2>5, <2>6, <2>7, <2>8, <2>9, <2>10, <2>11 DEF SdInv
<1>15. CASE Sd!Store
  <2>1. SdFlags'
    BY <1>15 DEF Sd!Store
  <2>2. Sd!TypeOK'
    BY <1>15, <2>1 DEF SdCommand, Sd!Store
  <2>3. SdCommand'
    BY <1>15, <2>1, <2>2 DEF SdCommand, SdReady, Sd!Store
  <2>4. SdWait'
    BY <1>15, <2>1, <2>2 DEF SdWait, Sd!Store
  <2>5. SdReady'
    BY <1>15, <2>1, <2>2 DEF SdReady, SdCommand, Sd!Store
  <2>6. SdClean'
    BY <1>15, <2>1, <2>2 DEF SdClean, SdCommand, SdBlocks, SdReady, Sd!Store
  <2>7. SdBlocks'
    BY <1>15, <2>1, <2>2 DEF SdBlocks, SdClean, SdCommand, SdReady, SdSeen, Sd!Store
  <2>8. SdSeen'
    BY <1>15, <2>1, <2>2 DEF SdSeen, SdClean, SdBlocks, SdCommand, SdReady, Sd!Store
  <2>9. Sd!CleanBetween'
    BY <1>15, <2>1, <2>2 DEF Sd!CleanBetween, Sd!Tail, SdWait, SdClean, SdBlocks, SdCommand, Sd!Store
  <2>10. Sd!OkMeansAll'
    BY <1>15, <2>1, <2>2 DEF Sd!OkMeansAll, SdBlocks, SdClean, SdCommand, SdReady, Sd!Store
  <2>11. Sd!NothingMissed'
    BY <2>8, <2>2 DEF Sd!NothingMissed, SdSeen
  <2> QED
    BY <2>1, <2>2, <2>3, <2>4, <2>5, <2>6, <2>7, <2>8, <2>9, <2>10, <2>11 DEF SdInv
<1>16. CASE Sd!Open
  <2>1. SdFlags'
    BY <1>16 DEF Sd!Open
  <2>0. {Sd!Want, "err"} \subseteq Sd!Bits
    BY DEF Sd!Want
  <2>2. Sd!TypeOK'
    BY <2>0, <1>16, <2>1 DEF SdCommand, Sd!Open
  <2>3. SdCommand'
    BY <1>16, <2>1, <2>2 DEF SdCommand, SdReady, Sd!Open
  <2>4. SdWait'
    BY <1>16, <2>1, <2>2 DEF SdWait, Sd!Open
  <2>5. SdReady'
    BY <1>16, <2>1, <2>2 DEF SdReady, SdCommand, Sd!Open
  <2>6. SdClean'
    BY <1>16, <2>1, <2>2 DEF SdClean, SdCommand, SdBlocks, SdReady, Sd!Open
  <2>7. SdBlocks'
    BY <1>16, <2>1, <2>2 DEF SdBlocks, SdClean, SdCommand, SdReady, SdSeen, Sd!Open
  <2>8. SdSeen'
    BY <1>16, <2>1, <2>2 DEF SdSeen, SdClean, SdBlocks, SdCommand, SdReady, Sd!Open
  <2>9. Sd!CleanBetween'
    BY <1>16, <2>1, <2>2 DEF Sd!CleanBetween, Sd!Tail, SdWait, SdClean, SdBlocks, SdCommand, Sd!Open
  <2>10. Sd!OkMeansAll'
    BY <1>16, <2>1, <2>2 DEF Sd!OkMeansAll, SdBlocks, SdClean, SdCommand, SdReady, Sd!Open
  <2>11. Sd!NothingMissed'
    BY <2>8, <2>2 DEF Sd!NothingMissed, SdSeen
  <2> QED
    BY <2>1, <2>2, <2>3, <2>4, <2>5, <2>6, <2>7, <2>8, <2>9, <2>10, <2>11 DEF SdInv
<1>17. CASE Sd!Poll
  <2>1. SdFlags'
    BY <1>17 DEF Sd!Poll
  <2>2. Sd!TypeOK'
    BY <1>17, <2>1 DEF SdCommand, Sd!Poll
  <2>3. SdCommand'
    BY <1>17, <2>1, <2>2 DEF SdCommand, SdReady, Sd!Poll
  <2>4. SdWait'
    BY <1>17, <2>1, <2>2 DEF SdWait, Sd!Poll
  <2>5. SdReady'
    BY <1>17, <2>1, <2>2 DEF SdReady, SdCommand, Sd!Poll
  <2>6. SdClean'
    BY <1>17, <2>1, <2>2 DEF SdClean, SdCommand, SdBlocks, SdReady, Sd!Poll
  <2>7. SdBlocks'
    BY <1>17, <2>1, <2>2 DEF SdBlocks, SdClean, SdCommand, SdReady, SdSeen, Sd!Poll
  <2>8. SdSeen'
    BY <1>17, <2>1, <2>2 DEF SdSeen, SdClean, SdBlocks, SdCommand, SdReady, Sd!Poll
  <2>9. Sd!CleanBetween'
    BY <1>17, <2>1, <2>2 DEF Sd!CleanBetween, Sd!Tail, SdWait, SdClean, SdBlocks, SdCommand, Sd!Poll
  <2>10. Sd!OkMeansAll'
    BY <1>17, <2>1, <2>2 DEF Sd!OkMeansAll, SdBlocks, SdClean, SdCommand, SdReady, Sd!Poll
  <2>11. Sd!NothingMissed'
    BY <2>8, <2>2 DEF Sd!NothingMissed, SdSeen
  <2> QED
    BY <2>1, <2>2, <2>3, <2>4, <2>5, <2>6, <2>7, <2>8, <2>9, <2>10, <2>11 DEF SdInv
<1>18. CASE Sd!OtherPoll
  <2>1. SdFlags'
    BY <1>18 DEF Sd!OtherPoll
  <2>2. Sd!TypeOK'
    BY <1>18, <2>1 DEF SdCommand, Sd!OtherPoll
  <2>3. SdCommand'
    BY <1>18, <2>1, <2>2 DEF SdCommand, SdReady, Sd!OtherPoll
  <2>4. SdWait'
    BY <1>18, <2>1, <2>2 DEF SdWait, Sd!OtherPoll
  <2>5. SdReady'
    BY <1>18, <2>1, <2>2 DEF SdReady, SdCommand, Sd!OtherPoll
  <2>6. SdClean'
    BY <1>18, <2>1, <2>2 DEF SdClean, SdCommand, SdBlocks, SdReady, Sd!OtherPoll
  <2>7. SdBlocks'
    BY <1>18, <2>1, <2>2 DEF SdBlocks, SdClean, SdCommand, SdReady, SdSeen, Sd!OtherPoll
  <2>8. SdSeen'
    BY <1>18, <2>1, <2>2 DEF SdSeen, SdClean, SdBlocks, SdCommand, SdReady, Sd!OtherPoll
  <2>9. Sd!CleanBetween'
    BY <1>18, <2>1, <2>2
    DEF Sd!CleanBetween, Sd!Tail, SdWait, SdClean, SdBlocks, SdCommand, Sd!OtherPoll
  <2>10. Sd!OkMeansAll'
    BY <1>18, <2>1, <2>2 DEF Sd!OkMeansAll, SdBlocks, SdClean, SdCommand, SdReady, Sd!OtherPoll
  <2>11. Sd!NothingMissed'
    BY <2>8, <2>2 DEF Sd!NothingMissed, SdSeen
  <2> QED
    BY <2>1, <2>2, <2>3, <2>4, <2>5, <2>6, <2>7, <2>8, <2>9, <2>10, <2>11 DEF SdInv
<1>19. ASSUME NEW p \in {"pio", "adma", "async", "async_dma"}, NEW w \in BOOLEAN, NEW n \in 1..MaxBlocks, Sd!Begin(p, w, n) PROVE SdInv'
  <2>1. SdFlags'
    BY <1>19 DEF Sd!Begin, Sd!Path
  <2>2. Sd!TypeOK'
    BY <1>19, <2>1 DEF SdCommand, Sd!Begin, Sd!Path
  <2>3. SdCommand'
    BY <1>19, <2>1, <2>2 DEF SdCommand, SdReady, Sd!Begin, Sd!Path
  <2>4. SdWait'
    BY <1>19, <2>1, <2>2 DEF SdWait, Sd!Begin, Sd!Path
  <2>5. SdReady'
    BY <1>19, <2>1, <2>2 DEF SdReady, SdCommand, Sd!Begin, Sd!Path
  <2>6. SdClean'
    BY <1>19, <2>1, <2>2 DEF SdClean, SdCommand, SdBlocks, SdReady, Sd!Begin, Sd!Path
  <2>7. SdBlocks'
    BY <1>19, <2>1, <2>2 DEF SdBlocks, SdClean, SdCommand, SdReady, SdSeen, Sd!Begin, Sd!Path
  <2>8. SdSeen'
    BY <1>19, <2>1, <2>2 DEF SdSeen, SdClean, SdBlocks, SdCommand, SdReady, Sd!Begin, Sd!Path
  <2>9. Sd!CleanBetween'
    BY <1>19, <2>1, <2>2
    DEF Sd!CleanBetween, Sd!Tail, SdWait, SdClean, SdBlocks, SdCommand, Sd!Begin, Sd!Path
  <2>10. Sd!OkMeansAll'
    BY <1>19, <2>1, <2>2 DEF Sd!OkMeansAll, SdBlocks, SdClean, SdCommand, SdReady, Sd!Begin, Sd!Path
  <2>11. Sd!NothingMissed'
    BY <2>8, <2>2 DEF Sd!NothingMissed, SdSeen
  <2> QED
    BY <2>1, <2>2, <2>3, <2>4, <2>5, <2>6, <2>7, <2>8, <2>9, <2>10, <2>11 DEF SdInv
<1>20. CASE UNCHANGED dVars
  <2>1. SdFlags'
    BY <1>20 DEF dVars
  <2>2. Sd!TypeOK'
    BY <1>20, <2>1 DEF SdCommand, dVars
  <2>3. SdCommand'
    BY <1>20, <2>1, <2>2 DEF SdCommand, SdReady, dVars
  <2>4. SdWait'
    BY <1>20, <2>1, <2>2 DEF SdWait, dVars
  <2>5. SdReady'
    BY <1>20, <2>1, <2>2 DEF SdReady, SdCommand, dVars
  <2>6. SdClean'
    BY <1>20, <2>1, <2>2 DEF SdClean, SdCommand, SdBlocks, SdReady, dVars
  <2>7. SdBlocks'
    BY <1>20, <2>1, <2>2 DEF SdBlocks, SdClean, SdCommand, SdReady, SdSeen, dVars
  <2>8. SdSeen'
    BY <1>20, <2>1, <2>2 DEF SdSeen, SdClean, SdBlocks, SdCommand, SdReady, dVars
  <2>9. Sd!CleanBetween'
    BY <1>20, <2>1, <2>2 DEF Sd!CleanBetween, Sd!Tail, SdWait, SdClean, SdBlocks, SdCommand, dVars
  <2>10. Sd!OkMeansAll'
    BY <1>20, <2>1, <2>2 DEF Sd!OkMeansAll, SdBlocks, SdClean, SdCommand, SdReady, dVars
  <2>11. Sd!NothingMissed'
    BY <2>8, <2>2 DEF Sd!NothingMissed, SdSeen
  <2> QED
    BY <2>1, <2>2, <2>3, <2>4, <2>5, <2>6, <2>7, <2>8, <2>9, <2>10, <2>11 DEF SdInv
<1>30. ASSUME Sd!Fail, d_pc \in {"data", "drain"} PROVE SdInv'
  BY <1>30, SdAborts, SdFails DEF Sd!Fail
<1>31. CASE Sd!Spin
  BY <1>31, <1>30, SdMoves DEF Sd!Spin, Sd!Looked, Sd!Arrived
<1>32. CASE Sd!Drain
  <2>1. CASE /\ d_moved = d_count /\ d_pc' = "idle" /\ d_result' = "ok"
             /\ UNCHANGED <<Sd!transfer, d_moved, d_wrong, d_late, Sd!task, d_int, d_enable, Sd!circuits, d_foul>>
    <3>1. SdFlags'
      BY <1>32, <2>1 DEF Sd!Drain
    <3>2. Sd!TypeOK'
      BY <1>32, <2>1, <3>1 DEF SdCommand, Sd!Drain
    <3>3. SdCommand'
      BY <1>32, <2>1, <3>1, <3>2 DEF SdCommand, SdReady, Sd!Drain
    <3>4. SdWait'
      BY <1>32, <2>1, <3>1, <3>2 DEF SdWait, Sd!Drain
    <3>5. SdReady'
      BY <1>32, <2>1, <3>1, <3>2 DEF SdReady, SdCommand, Sd!Drain
    <3>6. SdClean'
      BY <1>32, <2>1, <3>1, <3>2 DEF SdClean, SdCommand, SdBlocks, SdReady, Sd!Drain
    <3>7. SdBlocks'
      BY <1>32, <2>1, <3>1, <3>2 DEF SdBlocks, SdClean, SdCommand, SdReady, SdSeen, Sd!Drain
    <3>8. SdSeen'
      BY <1>32, <2>1, <3>1, <3>2 DEF SdSeen, SdClean, SdBlocks, SdCommand, SdReady, Sd!Drain
    <3>9. Sd!CleanBetween'
      BY <1>32, <2>1, <3>1, <3>2
      DEF Sd!CleanBetween, Sd!Tail, SdWait, SdClean, SdBlocks, SdCommand, Sd!Drain
    <3>10. Sd!OkMeansAll'
      BY <1>32, <2>1, <3>1, <3>2 DEF Sd!OkMeansAll, SdBlocks, SdClean, SdCommand, SdReady, Sd!Drain
    <3>11. Sd!NothingMissed'
      BY <3>8, <3>2 DEF Sd!NothingMissed, SdSeen
    <3> QED
      BY <3>1, <3>2, <3>3, <3>4, <3>5, <3>6, <3>7, <3>8, <3>9, <3>10, <3>11 DEF SdInv
  <2> QED
    BY <1>32, <2>1, <1>30 DEF Sd!Drain
<1>33. CASE Sd!Drop
  BY <1>33, SdAborts DEF Sd!Drop, SdWait
<1>35. ASSUME d_pc = "data", d_wait' = "store" \/ d_wait' = "parked",
              UNCHANGED <<d_pc, Sd!transfer, d_moved, d_wrong, d_result, d_late, d_waker, d_woken, d_int, d_enable, Sd!circuits, d_foul>>,
              Sd!Async
       PROVE SdInv'
  <2>1. SdFlags'
    BY <1>35
  <2>2. Sd!TypeOK'
    BY <1>35, <2>1 DEF SdCommand
  <2>3. SdCommand'
    BY <1>35, <2>1, <2>2 DEF SdCommand, SdReady
  <2>4. SdWait'
    BY <1>35, <2>1, <2>2 DEF SdWait
  <2>5. SdReady'
    BY <1>35, <2>1, <2>2 DEF SdReady, SdCommand
  <2>6. SdClean'
    BY <1>35, <2>1, <2>2 DEF SdClean, SdCommand, SdBlocks, SdReady
  <2>7. SdBlocks'
    BY <1>35, <2>1, <2>2 DEF SdBlocks, SdClean, SdCommand, SdReady, SdSeen
  <2>8. SdSeen'
    BY <1>35, <2>1, <2>2 DEF SdSeen, SdClean, SdBlocks, SdCommand, SdReady
  <2>9. Sd!CleanBetween'
    BY <1>35, <2>1, <2>2 DEF Sd!CleanBetween, Sd!Tail, SdWait, SdClean, SdBlocks, SdCommand
  <2>10. Sd!OkMeansAll'
    BY <1>35, <2>1, <2>2 DEF Sd!OkMeansAll, SdBlocks, SdClean, SdCommand, SdReady
  <2>11. Sd!NothingMissed'
    BY <2>8, <2>2 DEF Sd!NothingMissed, SdSeen
  <2> QED
    BY <2>1, <2>2, <2>3, <2>4, <2>5, <2>6, <2>7, <2>8, <2>9, <2>10, <2>11 DEF SdInv
<1>36. CASE Sd!Look
  BY <1>36, <1>30, <1>35, SdMoves DEF Sd!Look, Sd!Looked, Sd!Arrived
<1>37. CASE Sd!Again
  BY <1>37, <1>30, <1>35, SdMoves DEF Sd!Again, Sd!Looked, Sd!Arrived, SdWait
<1> QED
  BY <1>1, <1>2, <1>3, <1>4, <1>5, <1>6, <1>7, <1>8, <1>9, <1>10, <1>11, <1>12, <1>13, <1>14, <1>15,
     <1>16, <1>17, <1>18, <1>19, <1>20, <1>31, <1>32, <1>33, <1>36, <1>37
  DEF Sd!Next, Sd!Card, Sd!Driver

(* ---------------------------- SD bring-up ----------------------------- *)

\* Card and controller start a bring-up alike, at 3.3V, one line and the default speed, and only
\* the 1.8V switch of a Pi 5, for a card that has UHS modes and a caller who wants them, moves both
\* to 1.8V together.
CardVolt == b_card.volt = b_host.volt
            /\ (b_host.volt = 2 => b_pi5 /\ b_max >= Card!Sdr50 /\ b_able >= Card!Sdr50)
CardSlow == b_card.speed = Card!OneBit /\ b_host.speed = Card!OneBit
\* Where init_with is says how far the mode has come.
CardStage ==
  /\ b_step = "power" /\ ~b_pi5 => b_card = Card!Fresh
  /\ b_step \in {"reset", "identify", "signal"} => b_card = Card!Fresh
  /\ b_step \in {"identify", "signal"} => b_host = Card!Fresh
  /\ b_step = "signal" => b_pi5 /\ b_max >= Card!Sdr50 /\ b_able >= Card!Sdr50
  /\ b_step \in {"select", "width", "speed"} => CardVolt /\ CardSlow
  /\ b_step \in {"select", "width"} => b_card.width = 1 /\ b_host.width = 1
  /\ b_step = "width" => b_max >= Card!FourBit
  /\ b_step = "speed" => /\ b_host.width = 4 => b_max >= Card!FourBit
                         /\ b_host.width = 4 \/ b_max < Card!FourBit =>
                              b_card.width = b_host.width /\ b_circuit = "free"
  /\ b_step \in {"identify", "signal", "select", "width"} => b_circuit = "free"
CardInv == Card!TypeOK /\ CardStage /\ Card!Usable /\ Card!ReportedIsReal

LEMMA CardInit == Card!Init => CardInv
BY DEF Card!Init, CardInv, Card!TypeOK, CardStage, CardVolt, CardSlow, Card!Usable, Card!Up,
       Card!ReportedIsReal, Card!Line, Card!Fresh, Card!OneBit, Card!HighSpeed, Card!FourBit, Card!Sdr50, Card!Sdr104

LEMMA CardNext == CardInv /\ [Card!Next]_bVars => CardInv'
<1> SUFFICES ASSUME CardInv, [Card!Next]_bVars PROVE CardInv'
  OBVIOUS
<1> USE DEF CardInv, Card!OneBit, Card!HighSpeed, Card!FourBit, Card!Sdr50, Card!Sdr104, Card!Line, Card!Fresh
<1>1. CASE Card!Power
  <2>1. Card!TypeOK'
    BY <1>1 DEF Card!TypeOK, Card!Power, Card!Go, Card!Give, Card!Again, Card!Left, Card!FourWide
  <2>2. CardStage'
    BY <1>1
    DEF Card!TypeOK, CardStage, CardVolt, CardSlow, Card!Power, Card!Go, Card!Give, Card!Again,
        Card!Left, Card!FourWide
  <2>3. Card!Usable' /\ Card!ReportedIsReal'
    BY <1>1
    DEF Card!TypeOK, CardStage, CardVolt, CardSlow, Card!Usable, Card!ReportedIsReal, Card!Up,
        Card!Power, Card!Go, Card!Give, Card!Again, Card!Left, Card!FourWide
  <2> QED
    BY <2>1, <2>2, <2>3
<1>2. CASE Card!ResetHost
  <2>1. Card!TypeOK'
    BY <1>2 DEF Card!TypeOK, Card!ResetHost, Card!Go, Card!Give, Card!Again, Card!Left, Card!FourWide
  <2>2. CardStage'
    BY <1>2
    DEF Card!TypeOK, CardStage, CardVolt, CardSlow, Card!ResetHost, Card!Go, Card!Give, Card!Again,
        Card!Left, Card!FourWide
  <2>3. Card!Usable' /\ Card!ReportedIsReal'
    BY <1>2
    DEF Card!TypeOK, CardStage, CardVolt, CardSlow, Card!Usable, Card!ReportedIsReal, Card!Up,
        Card!ResetHost, Card!Go, Card!Give, Card!Again, Card!Left, Card!FourWide
  <2> QED
    BY <2>1, <2>2, <2>3
<1>3. CASE Card!Identify
  <2>1. Card!TypeOK'
    BY <1>3 DEF Card!TypeOK, Card!Identify, Card!Go, Card!Give, Card!Again, Card!Left, Card!FourWide
  <2>2. CardStage'
    BY <1>3
    DEF Card!TypeOK, CardStage, CardVolt, CardSlow, Card!Identify, Card!Go, Card!Give, Card!Again,
        Card!Left, Card!FourWide
  <2>3. Card!Usable' /\ Card!ReportedIsReal'
    BY <1>3
    DEF Card!TypeOK, CardStage, CardVolt, CardSlow, Card!Usable, Card!ReportedIsReal, Card!Up,
        Card!Identify, Card!Go, Card!Give, Card!Again, Card!Left, Card!FourWide
  <2> QED
    BY <2>1, <2>2, <2>3
<1>4. CASE Card!Signal
  <2>1. Card!TypeOK'
    BY <1>4 DEF Card!TypeOK, Card!Signal, Card!Go, Card!Give, Card!Again, Card!Left, Card!FourWide
  <2>2. CardStage'
    <3>1. b_card = Card!Fresh /\ b_host = Card!Fresh /\ b_pi5 /\ b_circuit = "free"
      BY <1>4 DEF CardStage, Card!Signal
    <3>2. CASE b_step' = "select"
      <4>1. /\ b_card' = [b_card EXCEPT !.volt = 2] /\ b_host' = [b_host EXCEPT !.volt = 2]
            /\ UNCHANGED <<b_pi5, b_max, b_able, b_circuit>>
        BY <1>4, <3>2 DEF Card!Signal, Card!Go, Card!Again
      <4>2. /\ b_card'.volt = 2 /\ b_host'.volt = 2 /\ b_card'.width = 1 /\ b_host'.width = 1
            /\ b_card'.speed = 1 /\ b_host'.speed = 1
        BY <3>1, <4>1
      <4> QED
        BY <1>4, <3>1, <3>2, <4>1, <4>2 DEF CardStage, CardVolt, CardSlow, Card!Signal
    <3>3. CASE b_step' = "power"
      BY <1>4, <3>1, <3>3 DEF CardStage, Card!Signal, Card!Again, Card!Go
    <3> QED
      BY <1>4, <3>2, <3>3 DEF Card!Signal, Card!Again, Card!Go
  <2>3. Card!Usable' /\ Card!ReportedIsReal'
    BY <1>4
    DEF Card!TypeOK, CardStage, CardVolt, CardSlow, Card!Usable, Card!ReportedIsReal, Card!Up,
        Card!Signal, Card!Go, Card!Give, Card!Again, Card!Left, Card!FourWide
  <2> QED
    BY <2>1, <2>2, <2>3
<1>5. CASE Card!Select
  <2>1. Card!TypeOK'
    BY <1>5 DEF Card!TypeOK, Card!Select, Card!Go, Card!Give, Card!Again, Card!Left, Card!FourWide
  <2>2. CardStage'
    BY <1>5
    DEF Card!TypeOK, CardStage, CardVolt, CardSlow, Card!Select, Card!Go, Card!Give, Card!Again,
        Card!Left, Card!FourWide
  <2>3. Card!Usable' /\ Card!ReportedIsReal'
    BY <1>5
    DEF Card!TypeOK, CardStage, CardVolt, CardSlow, Card!Usable, Card!ReportedIsReal, Card!Up,
        Card!Select, Card!Go, Card!Give, Card!Again, Card!Left, Card!FourWide
  <2> QED
    BY <2>1, <2>2, <2>3
<1>6. CASE Card!Width
  <2>1. Card!TypeOK'
    BY <1>6 DEF Card!TypeOK, Card!Width, Card!Go, Card!Give, Card!Again, Card!Left, Card!FourWide
  <2>2. CardStage'
    BY <1>6
    DEF Card!TypeOK, CardStage, CardVolt, CardSlow, Card!Width, Card!Go, Card!Give, Card!Again,
        Card!Left, Card!FourWide
  <2>3. Card!Usable' /\ Card!ReportedIsReal'
    BY <1>6
    DEF Card!TypeOK, CardStage, CardVolt, CardSlow, Card!Usable, Card!ReportedIsReal, Card!Up,
        Card!Width, Card!Go, Card!Give, Card!Again, Card!Left, Card!FourWide
  <2> QED
    BY <2>1, <2>2, <2>3
<1>7. CASE Card!SpeedDefault
  <2>1. Card!TypeOK'
    BY <1>7 DEF Card!TypeOK, Card!SpeedDefault, Card!Go, Card!Give, Card!Again, Card!Left, Card!FourWide
  <2>2. CardStage'
    BY <1>7
    DEF Card!TypeOK, CardStage, CardVolt, CardSlow, Card!SpeedDefault, Card!Go, Card!Give, Card!Again,
        Card!Left, Card!FourWide
  <2>3. Card!Usable' /\ Card!ReportedIsReal'
    BY <1>7
    DEF Card!TypeOK, CardStage, CardVolt, CardSlow, Card!Usable, Card!ReportedIsReal, Card!Up,
        Card!SpeedDefault, Card!Go, Card!Give, Card!Again, Card!Left, Card!FourWide
  <2> QED
    BY <2>1, <2>2, <2>3
<1>8. CASE Card!SpeedHigh
  <2>1. /\ b_host.volt = 3 /\ b_card.volt = 3 /\ b_host.width = 4 /\ b_card.width = 4
        /\ b_host.speed = 1 /\ b_card.speed = 1 /\ b_max >= 2
    BY <1>8 DEF Card!TypeOK, CardStage, CardVolt, CardSlow, Card!SpeedHigh, Card!FourWide
  <2>2. UNCHANGED <<b_pi5, b_max, b_able>> /\ b_step' = "up" /\ b_result' \in {2, 3}
    BY <1>8 DEF Card!SpeedHigh, Card!Give
  <2>0. b_pi5 /\ b_circuit = "free"
    BY <1>8 DEF CardStage, Card!SpeedHigh, Card!FourWide
  <2>3. CASE /\ b_card' = [b_card EXCEPT !.speed = 3] /\ b_host' = [b_host EXCEPT !.speed = 3]
             /\ \/ b_result' = 3 /\ b_circuit' = "free"
                \/ b_result' = 2 /\ b_circuit' \in {"free", "unclocked"}
    <3>1. /\ b_host'.volt = 3 /\ b_card'.volt = 3 /\ b_host'.width = 4 /\ b_card'.width = 4
          /\ b_host'.speed = 3 /\ b_card'.speed = 3
      BY <2>1, <2>3 DEF Card!TypeOK
    <3>2. b_card' \in Card!Line /\ b_host' \in Card!Line
      BY <2>3 DEF Card!TypeOK
    <3>3. Card!TypeOK'
      BY <2>2, <2>3, <3>2 DEF Card!TypeOK
    <3> QED
      BY <1>8, <2>0, <2>1, <2>2, <2>3, <3>1, <3>3
      DEF Card!TypeOK, CardStage, Card!Usable, Card!ReportedIsReal, Card!Up, Card!SpeedHigh
  <2>4. CASE /\ b_card' \in {b_card, [b_card EXCEPT !.speed = IF b_able >= 3 THEN 3 ELSE 1]}
             /\ b_result' = 2 /\ b_circuit' = "free" /\ UNCHANGED b_host
    <3>1. b_card'.volt = 3 /\ b_card'.width = 4 /\ b_card'.speed \in {1, 3}
      BY <2>1, <2>4 DEF Card!TypeOK
    <3>2. b_card' \in Card!Line /\ b_host' \in Card!Line
      BY <2>4 DEF Card!TypeOK
    <3>3. Card!TypeOK'
      BY <2>2, <2>4, <3>2 DEF Card!TypeOK
    <3> QED
      BY <2>0, <2>1, <2>2, <2>4, <3>1, <3>3 DEF CardStage, Card!Usable, Card!ReportedIsReal, Card!Up
  <2> QED
    BY <1>8, <2>0, <2>3, <2>4 DEF Card!SpeedHigh, Card!Give
<1>11. CASE Card!NoUhs
  <2>1. Card!TypeOK'
    BY <1>11 DEF Card!TypeOK, Card!NoUhs, Card!Again, Card!FourWide
  <2>2. b_pi5 /\ b_step' = "power" /\ UNCHANGED b_pi5
    BY <1>11 DEF CardStage, CardVolt, Card!NoUhs, Card!Again
  <2> QED
    BY <2>1, <2>2 DEF CardStage, Card!Usable, Card!ReportedIsReal, Card!Up
<1>9. CASE Card!Uhs
  <2>1. Card!TypeOK'
    BY <1>9 DEF Card!TypeOK, Card!Uhs, Card!Go, Card!Give, Card!Again, Card!Left, Card!FourWide
  <2>2. CardStage'
    BY <1>9
    DEF Card!TypeOK, CardStage, CardVolt, CardSlow, Card!Uhs, Card!Go, Card!Give, Card!Again,
        Card!Left, Card!FourWide
  <2>3. ASSUME b_step' = "up" PROVE Card!Usable' /\ Card!ReportedIsReal'
    <3>0. /\ b_host.volt = 2 /\ b_card.volt = 2 /\ b_host.width = 4 /\ b_card.width = 4
          /\ b_max >= 4 /\ b_able >= 4
      BY <1>9, <2>3 DEF CardStage, CardVolt, Card!Uhs, Card!FourWide, Card!Again
    <3> DEFINE mode == IF b_max >= 5 /\ b_able >= 5 THEN 5 ELSE 4
    <3>1. /\ b_card' = [b_card EXCEPT !.speed = mode] /\ b_host' = [b_host EXCEPT !.speed = mode]
          /\ b_result' = mode /\ UNCHANGED b_max /\ b_circuit' = "free"
      BY <1>9, <2>3 DEF Card!Uhs, Card!Give, Card!Again
    <3>2. mode \in {4, 5} /\ mode <= b_max
      BY <3>0 DEF Card!TypeOK
    <3> HIDE DEF mode
    <3>3. /\ b_host'.volt = 2 /\ b_card'.volt = 2 /\ b_host'.width = 4 /\ b_card'.width = 4
          /\ b_host'.speed = mode /\ b_card'.speed = mode
      BY <3>0, <3>1, <3>2 DEF Card!TypeOK
    <3> QED
      BY <3>1, <3>2, <3>3 DEF Card!Usable, Card!ReportedIsReal, Card!Up
  <2> QED
    BY <2>1, <2>2, <2>3 DEF Card!Usable, Card!ReportedIsReal, Card!Up
<1>10. CASE UNCHANGED bVars
  BY <1>10
  DEF bVars, Card!TypeOK, CardStage, CardVolt, CardSlow, Card!Usable, Card!ReportedIsReal, Card!Up
<1> QED
  BY <1>1, <1>2, <1>3, <1>4, <1>5, <1>6, <1>7, <1>8, <1>9, <1>10, <1>11 DEF Card!Next

(* ----------------------------- DMA stream ----------------------------- *)

\* While the caller keeps up, the engine plays the chunk last handed over, once it has moved to the
\* buffer that was refilled, or the one before, with the last one whole in the other buffer.
StreamSound ==
  ~s_late /\ s_engine = "running" =>
    /\ s_block = s_next => /\ s_step \in {"out", "wait"} /\ s_sound = s_fed - 1
                           /\ s_memory[Stream!Other(s_next)] = s_fed
    /\ s_block # s_next => s_step \in {"wait", "fill", "clean"} /\ s_sound = s_fed
StreamStep == /\ s_step \in {"wait", "fill", "clean"} => s_fed < 2 + Chunks
              /\ s_step = "clean" => s_cached[s_next] = s_fed + 1
StreamInv == /\ Stream!TypeOK /\ StreamSound /\ StreamStep
             /\ Stream!Gapless /\ Stream!QuietWhenDropped /\ Stream!NotUnderTheEngine

LEMMA StreamInit == Stream!Init => StreamInv
<1> SUFFICES ASSUME Stream!Init PROVE StreamInv
  OBVIOUS
<1> USE DriversAssumption
<1>1. s_late \in BOOLEAN /\ s_gap \in BOOLEAN /\ ~s_gap
  BY DEF Stream!Init
<1>2. s_cached \in [Stream!Halves -> Stream!Numbers] /\ s_memory \in [Stream!Halves -> Stream!Numbers]
  BY DEF Stream!Init, Stream!Halves, Stream!Numbers, Stream!Torn
<1>3. Stream!TypeOK
  BY <1>1, <1>2 DEF Stream!Init, Stream!TypeOK, Stream!Halves, Stream!Numbers, Stream!Torn
<1>4. s_memory[1] = 2
  BY DEF Stream!Init, Stream!Halves
<1> QED
  BY <1>1, <1>3, <1>4
  DEF Stream!Init, StreamInv, StreamSound, StreamStep, Stream!Gapless, Stream!QuietWhenDropped,
                    Stream!NotUnderTheEngine, Stream!Other, Stream!Halves

LEMMA StreamNext == StreamInv /\ [Stream!Next]_sVars => StreamInv'
<1> SUFFICES ASSUME StreamInv, [Stream!Next]_sVars PROVE StreamInv'
  OBVIOUS
<1> USE DriversAssumption DEF StreamInv, Stream!engineVars, Stream!Halves, Stream!Other, Stream!Numbers, Stream!Torn
<1>1. CASE Stream!Feed
  <2>1. Stream!TypeOK'
    BY <1>1 DEF Stream!TypeOK, StreamStep, Stream!Feed
  <2>2. StreamSound' /\ StreamStep'
    BY <1>1 DEF Stream!TypeOK, StreamSound, StreamStep, Stream!QuietWhenDropped, Stream!Feed
  <2>3. Stream!Gapless' /\ Stream!QuietWhenDropped' /\ Stream!NotUnderTheEngine'
    BY <1>1 DEF Stream!TypeOK, StreamSound, StreamStep, Stream!Gapless, Stream!QuietWhenDropped,
                  Stream!NotUnderTheEngine, Stream!Feed
  <2> QED
    BY <2>1, <2>2, <2>3
<1>2. CASE Stream!Seen
  <2>1. Stream!TypeOK'
    BY <1>2 DEF Stream!TypeOK, StreamStep, Stream!Seen
  <2>2. StreamSound' /\ StreamStep'
    BY <1>2 DEF Stream!TypeOK, StreamSound, StreamStep, Stream!QuietWhenDropped, Stream!Seen
  <2>3. Stream!Gapless' /\ Stream!QuietWhenDropped' /\ Stream!NotUnderTheEngine'
    BY <1>2 DEF Stream!TypeOK, StreamSound, StreamStep, Stream!Gapless, Stream!QuietWhenDropped,
                  Stream!NotUnderTheEngine, Stream!Seen
  <2> QED
    BY <2>1, <2>2, <2>3
<1>3. CASE Stream!Fill
  <2>1. Stream!TypeOK'
    BY <1>3 DEF Stream!TypeOK, StreamStep, Stream!Fill
  <2>2. StreamSound' /\ StreamStep'
    BY <1>3 DEF Stream!TypeOK, StreamSound, StreamStep, Stream!QuietWhenDropped, Stream!Fill
  <2>3. Stream!Gapless' /\ Stream!QuietWhenDropped' /\ Stream!NotUnderTheEngine'
    BY <1>3 DEF Stream!TypeOK, StreamSound, StreamStep, Stream!Gapless, Stream!QuietWhenDropped,
                  Stream!NotUnderTheEngine, Stream!Fill
  <2> QED
    BY <2>1, <2>2, <2>3
<1>4. CASE Stream!WriteBack
  <2>1. Stream!TypeOK'
    BY <1>4 DEF Stream!TypeOK, StreamStep, Stream!WriteBack
  <2>2. StreamSound' /\ StreamStep'
    BY <1>4 DEF Stream!TypeOK, StreamSound, StreamStep, Stream!QuietWhenDropped, Stream!WriteBack
  <2>3. Stream!Gapless' /\ Stream!QuietWhenDropped' /\ Stream!NotUnderTheEngine'
    BY <1>4 DEF Stream!TypeOK, StreamSound, StreamStep, Stream!Gapless, Stream!QuietWhenDropped,
                  Stream!NotUnderTheEngine, Stream!WriteBack
  <2> QED
    BY <2>1, <2>2, <2>3
<1>5. CASE Stream!Clean
  <2>1. Stream!TypeOK'
    BY <1>5 DEF Stream!TypeOK, StreamStep, Stream!Clean
  <2>2. StreamSound' /\ StreamStep'
    BY <1>5 DEF Stream!TypeOK, StreamSound, StreamStep, Stream!QuietWhenDropped, Stream!Clean
  <2>3. Stream!Gapless' /\ Stream!QuietWhenDropped' /\ Stream!NotUnderTheEngine'
    BY <1>5 DEF Stream!TypeOK, StreamSound, StreamStep, Stream!Gapless, Stream!QuietWhenDropped,
                  Stream!NotUnderTheEngine, Stream!Clean
  <2> QED
    BY <2>1, <2>2, <2>3
<1>6. CASE Stream!Drop
  <2>1. Stream!TypeOK'
    BY <1>6 DEF Stream!TypeOK, StreamStep, Stream!Drop
  <2>2. StreamSound' /\ StreamStep'
    BY <1>6 DEF Stream!TypeOK, StreamSound, StreamStep, Stream!QuietWhenDropped, Stream!Drop
  <2>3. Stream!Gapless' /\ Stream!QuietWhenDropped' /\ Stream!NotUnderTheEngine'
    BY <1>6 DEF Stream!TypeOK, StreamSound, StreamStep, Stream!Gapless, Stream!QuietWhenDropped,
                  Stream!NotUnderTheEngine, Stream!Drop
  <2> QED
    BY <2>1, <2>2, <2>3
<1>7. CASE Stream!Reuse
  <2>1. Stream!TypeOK'
    BY <1>7 DEF Stream!TypeOK, StreamStep, Stream!Reuse
  <2>2. StreamSound' /\ StreamStep'
    BY <1>7 DEF Stream!TypeOK, StreamSound, StreamStep, Stream!QuietWhenDropped, Stream!Reuse
  <2>3. Stream!Gapless' /\ Stream!QuietWhenDropped' /\ Stream!NotUnderTheEngine'
    BY <1>7 DEF Stream!TypeOK, StreamSound, StreamStep, Stream!Gapless, Stream!QuietWhenDropped,
                  Stream!NotUnderTheEngine, Stream!Reuse
  <2> QED
    BY <2>1, <2>2, <2>3
<1>8. CASE Stream!Advance
  <2>1. Stream!TypeOK'
    BY <1>8 DEF Stream!TypeOK, Stream!Advance, Stream!InTime
  <2>2. s_late' <=> s_late \/ ~(s_step = "wait" /\ s_block = s_next)
    BY <1>8 DEF Stream!Advance, Stream!InTime
  <2>3. s_gap' <=> s_gap \/ s_memory[1 - s_block] # s_sound + 1
    BY <1>8 DEF Stream!Advance
  <2>4. /\ s_block' = 1 - s_block /\ s_sound' = s_memory[1 - s_block] /\ s_engine = "running"
        /\ UNCHANGED <<s_step, s_next, s_fed, s_cached, s_memory, s_engine>>
    BY <1>8 DEF Stream!Advance
  <2>5. StreamSound' /\ StreamStep'
    BY <2>2, <2>4 DEF Stream!TypeOK, StreamSound, StreamStep
  <2>6. Stream!Gapless'
    BY <2>2, <2>3, <2>4 DEF Stream!TypeOK, StreamSound, Stream!Gapless
  <2>7. Stream!QuietWhenDropped' /\ Stream!NotUnderTheEngine'
    BY <2>2, <2>4 DEF Stream!TypeOK, StreamSound, Stream!QuietWhenDropped, Stream!NotUnderTheEngine
  <2> QED
    BY <2>1, <2>5, <2>6, <2>7
<1>9. CASE Stream!Fault
  <2>1. Stream!TypeOK'
    BY <1>9 DEF Stream!TypeOK, StreamStep, Stream!Fault
  <2>2. StreamSound' /\ StreamStep'
    BY <1>9 DEF Stream!TypeOK, StreamSound, StreamStep, Stream!QuietWhenDropped, Stream!Fault
  <2>3. Stream!Gapless' /\ Stream!QuietWhenDropped' /\ Stream!NotUnderTheEngine'
    BY <1>9 DEF Stream!TypeOK, StreamSound, StreamStep, Stream!Gapless, Stream!QuietWhenDropped,
                  Stream!NotUnderTheEngine, Stream!Fault
  <2> QED
    BY <2>1, <2>2, <2>3
<1>10. CASE UNCHANGED sVars
  BY <1>10
  DEF sVars, Stream!TypeOK, StreamSound, StreamStep, Stream!Gapless, Stream!QuietWhenDropped,
      Stream!NotUnderTheEngine
<1> QED
  BY <1>1, <1>2, <1>3, <1>4, <1>5, <1>6, <1>7, <1>8, <1>9, <1>10 DEF Stream!Next

(* -------------------------- secondary cores --------------------------- *)

\* A release word in memory, or on its way, is behind the stack and the entry it releases to; a
\* core that is released has them.
HandoffOrder ==
  /\ k_slot \subseteq k_params
  /\ \A c \in Cores : Handoff!Slot(c) \in k_dirty => c \in k_params
  /\ k_pc \in {"slot", "cleanSlot", "call"} => k_target \in k_params
  /\ k_pc = "clean" => k_target \in k_spawned
  /\ \A c \in Cores : k_at[c] = "released" => c \in k_params
HandoffLines == k_dirty \subseteq {Handoff!Params(c) : c \in k_spawned} \cup {Handoff!Slot(c) : c \in k_spawned}
                                    \cup {Handoff!Flag}
HandoffInv == Handoff!TypeOK /\ HandoffLines /\ HandoffOrder /\ Handoff!EntersOwn

LEMMA HandoffInit == Handoff!Init => HandoffInv
<1> SUFFICES ASSUME Handoff!Init PROVE HandoffInv
  OBVIOUS
<1> QED
  BY DriversAssumption
  DEF Handoff!Init, HandoffInv, Handoff!TypeOK, HandoffLines, HandoffOrder, Handoff!EntersOwn

LEMMA HandoffNext == HandoffInv /\ [Handoff!Next]_kVars => HandoffInv'
<1> SUFFICES ASSUME HandoffInv, [Handoff!Next]_kVars PROVE HandoffInv'
  OBVIOUS
<1> USE DriversAssumption DEF HandoffInv, Handoff!secVars, Handoff!Params, Handoff!Slot, Handoff!Flag, Handoff!Device
<1>1. CASE Handoff!Spawn
  <2>1. Handoff!TypeOK'
    BY <1>1
    DEF Handoff!TypeOK, HandoffOrder, HandoffLines, Handoff!Spawn, Handoff!Writes, Handoff!Reaches,
        Handoff!Memory
  <2>2. HandoffLines'
    BY <1>1
    DEF Handoff!TypeOK, HandoffOrder, HandoffLines, Handoff!Spawn, Handoff!Writes, Handoff!Reaches,
        Handoff!Memory
  <2>3. HandoffOrder'
    BY <1>1
    DEF Handoff!TypeOK, HandoffOrder, HandoffLines, Handoff!Spawn, Handoff!Writes, Handoff!Reaches,
        Handoff!Memory
  <2>4. Handoff!EntersOwn'
    BY <1>1
    DEF Handoff!TypeOK, HandoffOrder, Handoff!EntersOwn, Handoff!Spawn, Handoff!Writes, Handoff!Reaches,
        Handoff!Memory
  <2> QED
    BY <2>1, <2>2, <2>3, <2>4
<1>2. CASE Handoff!CleanParams
  <2>1. Handoff!TypeOK'
    BY <1>2
    DEF Handoff!TypeOK, HandoffOrder, HandoffLines, Handoff!CleanParams, Handoff!CleanLine,
        Handoff!Reaches
  <2>2. HandoffLines'
    BY <1>2
    DEF Handoff!TypeOK, HandoffOrder, HandoffLines, Handoff!CleanParams, Handoff!CleanLine,
        Handoff!Reaches
  <2>3. HandoffOrder'
    BY <1>2
    DEF Handoff!TypeOK, HandoffOrder, HandoffLines, Handoff!CleanParams, Handoff!CleanLine,
        Handoff!Reaches
  <2>4. Handoff!EntersOwn'
    BY <1>2
    DEF Handoff!TypeOK, HandoffOrder, Handoff!EntersOwn, Handoff!CleanParams, Handoff!CleanLine,
        Handoff!Reaches
  <2> QED
    BY <2>1, <2>2, <2>3, <2>4
<1>3. CASE Handoff!WriteSlot
  <2>1. Handoff!TypeOK'
    BY <1>3
    DEF Handoff!TypeOK, HandoffOrder, HandoffLines, Handoff!WriteSlot, Handoff!Writes, Handoff!Reaches,
        Handoff!Memory
  <2>2. HandoffLines'
    BY <1>3
    DEF Handoff!TypeOK, HandoffOrder, HandoffLines, Handoff!WriteSlot, Handoff!Writes, Handoff!Reaches,
        Handoff!Memory
  <2>3. HandoffOrder'
    BY <1>3
    DEF Handoff!TypeOK, HandoffOrder, HandoffLines, Handoff!WriteSlot, Handoff!Writes, Handoff!Reaches,
        Handoff!Memory
  <2>4. Handoff!EntersOwn'
    BY <1>3
    DEF Handoff!TypeOK, HandoffOrder, Handoff!EntersOwn, Handoff!WriteSlot, Handoff!Writes,
        Handoff!Reaches, Handoff!Memory
  <2> QED
    BY <2>1, <2>2, <2>3, <2>4
<1>4. CASE Handoff!CleanSlot
  <2>1. Handoff!TypeOK'
    BY <1>4
    DEF Handoff!TypeOK, HandoffOrder, HandoffLines, Handoff!CleanSlot, Handoff!CleanLine,
        Handoff!Reaches
  <2>2. HandoffLines'
    BY <1>4
    DEF Handoff!TypeOK, HandoffOrder, HandoffLines, Handoff!CleanSlot, Handoff!CleanLine,
        Handoff!Reaches
  <2>3. HandoffOrder'
    BY <1>4
    DEF Handoff!TypeOK, HandoffOrder, HandoffLines, Handoff!CleanSlot, Handoff!CleanLine,
        Handoff!Reaches
  <2>4. Handoff!EntersOwn'
    BY <1>4
    DEF Handoff!TypeOK, HandoffOrder, Handoff!EntersOwn, Handoff!CleanSlot, Handoff!CleanLine,
        Handoff!Reaches
  <2> QED
    BY <2>1, <2>2, <2>3, <2>4
<1>5. CASE Handoff!Call
  <2>1. Handoff!TypeOK'
    BY <1>5 DEF Handoff!TypeOK, HandoffOrder, HandoffLines, Handoff!Call
  <2>2. HandoffLines'
    BY <1>5 DEF Handoff!TypeOK, HandoffOrder, HandoffLines, Handoff!Call
  <2>3. HandoffOrder'
    BY <1>5 DEF Handoff!TypeOK, HandoffOrder, HandoffLines, Handoff!Call
  <2>4. Handoff!EntersOwn'
    BY <1>5 DEF Handoff!TypeOK, HandoffOrder, Handoff!EntersOwn, Handoff!Call
  <2> QED
    BY <2>1, <2>2, <2>3, <2>4
<1>6. CASE Handoff!Publish
  <2>1. Handoff!TypeOK'
    BY <1>6 DEF Handoff!TypeOK, HandoffOrder, HandoffLines, Handoff!Publish, Handoff!Memory
  <2>2. HandoffLines'
    BY <1>6 DEF Handoff!TypeOK, HandoffOrder, HandoffLines, Handoff!Publish, Handoff!Memory
  <2>3. HandoffOrder'
    BY <1>6 DEF Handoff!TypeOK, HandoffOrder, HandoffLines, Handoff!Publish, Handoff!Memory
  <2>4. Handoff!EntersOwn'
    BY <1>6 DEF Handoff!TypeOK, HandoffOrder, Handoff!EntersOwn, Handoff!Publish, Handoff!Memory
  <2> QED
    BY <2>1, <2>2, <2>3, <2>4
<1>7. CASE Handoff!Dsb
  <2>1. Handoff!TypeOK'
    BY <1>7
    DEF Handoff!TypeOK, HandoffOrder, HandoffLines, Handoff!Dsb, Handoff!CleanLine, Handoff!Reaches
  <2>2. HandoffLines'
    BY <1>7
    DEF Handoff!TypeOK, HandoffOrder, HandoffLines, Handoff!Dsb, Handoff!CleanLine, Handoff!Reaches
  <2>3. HandoffOrder'
    BY <1>7
    DEF Handoff!TypeOK, HandoffOrder, HandoffLines, Handoff!Dsb, Handoff!CleanLine, Handoff!Reaches
  <2>4. Handoff!EntersOwn'
    BY <1>7
    DEF Handoff!TypeOK, HandoffOrder, Handoff!EntersOwn, Handoff!Dsb, Handoff!CleanLine, Handoff!Reaches
  <2> QED
    BY <2>1, <2>2, <2>3, <2>4
<1>8. CASE Handoff!Sev
  <2>1. Handoff!TypeOK'
    BY <1>8 DEF Handoff!TypeOK, HandoffOrder, HandoffLines, Handoff!Sev
  <2>2. HandoffLines'
    BY <1>8 DEF Handoff!TypeOK, HandoffOrder, HandoffLines, Handoff!Sev
  <2>3. HandoffOrder'
    BY <1>8 DEF Handoff!TypeOK, HandoffOrder, HandoffLines, Handoff!Sev
  <2>4. Handoff!EntersOwn'
    BY <1>8 DEF Handoff!TypeOK, HandoffOrder, Handoff!EntersOwn, Handoff!Sev
  <2> QED
    BY <2>1, <2>2, <2>3, <2>4
<1>9. CASE Handoff!WriteBack
  <2>1. Handoff!TypeOK'
    BY <1>9
    DEF Handoff!TypeOK, HandoffOrder, HandoffLines, Handoff!WriteBack, Handoff!CleanLine,
        Handoff!Reaches
  <2>2. HandoffLines'
    BY <1>9
    DEF Handoff!TypeOK, HandoffOrder, HandoffLines, Handoff!WriteBack, Handoff!CleanLine,
        Handoff!Reaches
  <2>3. HandoffOrder'
    BY <1>9
    DEF Handoff!TypeOK, HandoffOrder, HandoffLines, Handoff!WriteBack, Handoff!CleanLine,
        Handoff!Reaches
  <2>4. Handoff!EntersOwn'
    BY <1>9
    DEF Handoff!TypeOK, HandoffOrder, Handoff!EntersOwn, Handoff!WriteBack, Handoff!CleanLine,
        Handoff!Reaches
  <2> QED
    BY <2>1, <2>2, <2>3, <2>4
<1>10. CASE Handoff!Stray
  <2>1. Handoff!TypeOK'
    BY <1>10 DEF Handoff!TypeOK, HandoffOrder, HandoffLines, Handoff!Stray, Handoff!FromSecond
  <2>2. HandoffLines'
    BY <1>10 DEF Handoff!TypeOK, HandoffOrder, HandoffLines, Handoff!Stray, Handoff!FromSecond
  <2>3. HandoffOrder'
    BY <1>10 DEF Handoff!TypeOK, HandoffOrder, HandoffLines, Handoff!Stray, Handoff!FromSecond
  <2>4. Handoff!EntersOwn'
    BY <1>10 DEF Handoff!TypeOK, HandoffOrder, Handoff!EntersOwn, Handoff!Stray, Handoff!FromSecond
  <2> QED
    BY <2>1, <2>2, <2>3, <2>4
<1>11. ASSUME NEW c \in Cores, Handoff!Core(c) PROVE HandoffInv'
  <2>1. Handoff!TypeOK'
    BY <1>11
    DEF Handoff!TypeOK, HandoffOrder, HandoffLines, Handoff!Core, Handoff!StubWakes, Handoff!Look,
        Handoff!Enter, Handoff!Check, Handoff!WaitReturns, Handoff!Wakes, Handoff!Goes,
        Handoff!FromSecond
  <2>2. HandoffLines'
    BY <1>11
    DEF Handoff!TypeOK, HandoffOrder, HandoffLines, Handoff!Core, Handoff!StubWakes, Handoff!Look,
        Handoff!Enter, Handoff!Check, Handoff!WaitReturns, Handoff!Wakes, Handoff!Goes,
        Handoff!FromSecond
  <2>3. HandoffOrder'
    BY <1>11
    DEF Handoff!TypeOK, HandoffOrder, HandoffLines, Handoff!Core, Handoff!StubWakes, Handoff!Look,
        Handoff!Enter, Handoff!Check, Handoff!WaitReturns, Handoff!Wakes, Handoff!Goes,
        Handoff!FromSecond
  <2>4. Handoff!EntersOwn'
    BY <1>11
    DEF Handoff!TypeOK, HandoffOrder, Handoff!EntersOwn, Handoff!Core, Handoff!StubWakes, Handoff!Look,
        Handoff!Enter, Handoff!Check, Handoff!WaitReturns, Handoff!Wakes, Handoff!Goes,
        Handoff!FromSecond
  <2> QED
    BY <2>1, <2>2, <2>3, <2>4
<1>12. CASE UNCHANGED kVars
  BY <1>12 DEF kVars, Handoff!TypeOK, HandoffOrder, HandoffLines, Handoff!EntersOwn
<1> QED
  BY <1>1, <1>2, <1>3, <1>4, <1>5, <1>6, <1>7, <1>8, <1>9, <1>10, <1>11, <1>12
  DEF Handoff!Next, Handoff!Core0

(* --------------------------- the composition ---------------------------- *)

DriversInv == GpioInv /\ UartInv /\ I2cInv /\ SdInv /\ CardInv /\ StreamInv /\ HandoffInv

LEMMA DriversStart == MCInit => DriversInv
BY GpioInit, UartInit, I2cInit, SdInit, CardInit, StreamInit, HandoffInit DEF MCInit, DriversInv

\* A step is of one driver, and a stutter of the others.
LEMMA OneMoves == [MCNext]_allVars => /\ [Gpio!Next]_gVars /\ [Uart!Next]_uVars /\ [I2c!Next]_iVars
                                      /\ [Sd!Next]_dVars /\ [Card!Next]_bVars
                                      /\ [Stream!Next]_sVars /\ [Handoff!Next]_kVars
BY DEF MCNext, allVars, waits, others

LEMMA DriversStep == DriversInv /\ [MCNext]_allVars => DriversInv'
BY OneMoves, GpioNext, UartNext, I2cNext, SdNext, CardNext, StreamNext, HandoffNext DEF DriversInv

LEMMA DriversAlways == MCSpec => []DriversInv
BY DriversStart, DriversStep, PTL DEF MCSpec

\* Every driver keeps its types.
THEOREM DriversTypes == MCSpec => []TypesOK
<1>1. DriversInv => TypesOK
  BY DEF DriversInv, TypesOK, GpioInv, UartInv, I2cInv, SdInv, CardInv, StreamInv, HandoffInv
<1> QED
  BY <1>1, DriversAlways, PTL

\* A future that is parked has its interrupt armed or its wake on the way, in gpio/asynch.rs and in
\* uart/asynch.rs, and a pin's wait ends by the event it asked for.
THEOREM DriversServeParked == MCSpec => []ParkedIsServed
<1>1. DriversInv => ParkedIsServed
  BY GpioPromises DEF DriversInv, ParkedIsServed, UartInv, UartArming, Uart!ParkedIsArmed
<1> QED
  BY <1>1, DriversAlways, PTL

\* What a wait or a transfer leaves, as CleanBetween says it and with its exceptions: an I2C transfer's
\* controller, the SD host's interrupts always and its circuits after an async transfer that failed
\* or was dropped once its command was taken, a card where neither four lines nor high speed was
\* given up, the buffers of a DMA stream: i2c/asynch.rs, sd/asynch.rs, sd.rs init_with and dma.rs.
THEOREM DriversLeaveClean == MCSpec => []CleanBetween
<1>1. DriversInv => CleanBetween
  BY GpioPromises
  DEF DriversInv, CleanBetween, I2cInv, I2cRests, I2c!CleanBetween, SdInv, CardInv, StreamInv
<1> QED
  BY <1>1, DriversAlways, PTL

\* What is reported done is done: the bytes of i2c.rs, the blocks sd.rs wrote, those it read unless the
\* transfer began on a data phase left without a reset, the mode init_with returns,
\* the chunks feed of dma.rs returned for, and the stack and entry launch of multicore.rs handed over.
THEOREM DriversOkIsTrue == MCSpec => []OkIsTrue
<1>1. DriversInv => OkIsTrue
  BY DEF DriversInv, OkIsTrue, I2cInv, SdInv, CardInv, StreamInv, HandoffInv
<1> QED
  BY <1>1, DriversAlways, PTL
=============================================================================
