------------------------------ MODULE SntpSync -------------------------------
(***************************************************************************)
(* kickstart/src/sntp.rs, the task that sets the wall clock from a server, *)
(* and the clock of clock.rs: a lease, a lookup, one request and the       *)
(* answers that come before a deadline, then a wait until the next.        *)
(*                                                                         *)
(* Time is counted in ticks.  The clock is kept as its distance from the   *)
(* server's, which the counter both advance by leaves alone; the network   *)
(* is external and delays, loses and repeats what it carries.              *)
(***************************************************************************)
EXTENDS Integers, FiniteSets

CONSTANTS ReplyTimeout, \* REPLY_TIMEOUT
          DnsTimeout,   \* DNS_TIMEOUT
          FirstRetry,   \* FIRST_RETRY
          RetryMax,     \* retry_interval
          Resync,       \* resync_interval
          Late,         \* bound: ticks a task may run after its deadline
          OnWay,        \* bound: answers on their way at once
          Unset         \* the clock was never set

VARIABLES step,   \* the task: "lease", "resolve", "await", "sleep"
          timer,  \* ticks left of the lookup, the exchange or the wait
          retry,  \* the wait after the next failure
          asked,  \* ticks since the request went out
          up,     \* the lease
          asks,   \* requests the server has still to answer: of this exchange (TRUE), of earlier ones
          way,    \* answers on their way: [own, good, age] since the server read its clock
          clock   \* Unset, or [off, trip]: by how much the clock is ahead, and the round trip it was set by

task == <<step, timer, retry, asked, clock>>
network == <<up, asks, way>>
vars == <<task, network>>

Least(a, b) == IF a < b THEN a ELSE b
Oldest == ReplyTimeout + Late
Answers == [own: BOOLEAN, good: BOOLEAN, age: 0..Oldest]
Retry1 == Least(FirstRetry, RetryMax)

Init == /\ step = "lease" /\ timer = 0 /\ retry = Retry1 /\ asked = 0
        /\ up = FALSE /\ asks = {} /\ way = {} /\ clock = Unset

\* An exchange that is over leaves its requests and answers to whoever binds the port next.
Over == asks' = {FALSE : a \in asks} /\ way' = {[a EXCEPT !.own = FALSE] : a \in way}

-----------------------------------------------------------------------------
(* run *)

WaitConfigUp == /\ step = "lease" /\ up
                /\ step' = "resolve" /\ timer' = DnsTimeout
                /\ UNCHANGED <<retry, asked, clock, network>>

\* The request, with the time it is sent as its nonce.
Ask == /\ step = "resolve"
       /\ step' = "await" /\ timer' = ReplyTimeout /\ asked' = 0
       /\ asks' = asks \cup {TRUE}
       /\ UNCHANGED <<retry, clock, up, way>>

\* An attempt failed: the wait doubles, up to the configured one.
Fail == step' = "sleep" /\ timer' = retry /\ retry' = Least(2 * retry, RetryMax)

\* The lookup fails, by its answer or its time, or the request cannot be sent.
FailsEarly == /\ step = "resolve" /\ Fail
              /\ UNCHANGED <<asked, clock, network>>

TimesOut == /\ step = "await" /\ timer = 0 /\ Fail /\ Over
            /\ UNCHANGED <<asked, clock, up>>

\* Mutant: whose request an answer echoes is not looked at.
UsableAny(a) == a.good

\* parse: it echoes this request's nonce, and its sender has a time to give.
Usable(a) == a.own /\ a.good

\* The server's time and half the round trip, against the server's clock now.
Corrected(a) == (asked \div 2) - a.age

\* Mutant: every datagram read begins the timeout anew.
IgnoreAnew == /\ step = "await"
              /\ \E a \in way : ~Usable(a) /\ (way' = way \ {a} \/ way' = way)
              /\ timer' = ReplyTimeout
              /\ UNCHANGED <<step, retry, asked, clock, up, asks>>

\* An answer from elsewhere, to another request or of no use is counted and the wait goes on.
Ignore == /\ step = "await"
          /\ \E a \in way : ~Usable(a) /\ (way' = way \ {a} \/ way' = way)
          /\ UNCHANGED <<task, up, asks>>

\* The first usable answer sets the clock.
Set == /\ step = "await"
       /\ \E a \in way : Usable(a) /\ clock' = [off |-> Corrected(a), trip |-> asked]
       /\ step' = "sleep" /\ timer' = Resync /\ retry' = Retry1
       /\ Over
       /\ UNCHANGED <<asked, up>>

Wake == /\ step = "sleep" /\ timer = 0
        /\ step' = "lease"
        /\ UNCHANGED <<timer, retry, asked, clock, network>>

-----------------------------------------------------------------------------
(* The network, and time *)

Lease == up' = ~up /\ UNCHANGED <<task, asks, way>>

\* The server reads its clock and answers; the answer of one that has no good time is no good.
Answer == /\ Cardinality(way) < OnWay
          /\ \E own \in asks, good \in BOOLEAN :
               /\ way' = way \cup {[own |-> own, good |-> good, age |-> 0]}
               /\ \E S \in {asks, asks \ {own}} : asks' = S
          /\ UNCHANGED <<task, up>>

Lose == /\ \/ \E a \in way : way' = way \ {a} /\ UNCHANGED asks
           \/ \E own \in asks : asks' = asks \ {own} /\ UNCHANGED way
        /\ UNCHANGED <<task, up>>

\* Time does not pass a deadline by more than the task may be late; old answers are lost.
Tick == /\ timer > 0 \/ (step = "await" /\ asked < Oldest) \/ step = "lease"
        /\ timer' = IF timer > 0 THEN timer - 1 ELSE 0
        /\ asked' = IF step = "await" THEN Least(asked + 1, Oldest) ELSE 0
        /\ way' = {[a EXCEPT !.age = @ + 1] : a \in {a \in way : a.age < Oldest}}
        /\ UNCHANGED <<step, retry, clock, up, asks>>

Task == WaitConfigUp \/ Ask \/ FailsEarly \/ TimesOut \/ Ignore \/ Set \/ Wake
Next == Task \/ Lease \/ Answer \/ Lose \/ Tick

\* Time passes, and the task runs when a deadline of its own has come.
Fairness == WF_vars(Tick) /\ WF_vars(WaitConfigUp) /\ WF_vars(Ask \/ FailsEarly) /\ WF_vars(TimesOut \/ Set) /\ WF_vars(Wake)
Spec == Init /\ [][Next]_vars
FairSpec == Spec /\ Fairness

-----------------------------------------------------------------------------
(* Properties *)

TypeOK == /\ step \in {"lease", "resolve", "await", "sleep"}
          /\ timer \in Nat /\ retry \in Retry1..RetryMax
          /\ asked \in 0..Oldest /\ up \in BOOLEAN /\ asks \subseteq BOOLEAN /\ way \subseteq Answers
          /\ clock \in {Unset} \cup [off: -Oldest..Oldest, trip: 0..Oldest]

\* However the delay of an exchange falls on its two ways, and whatever answers to earlier exchanges
\* arrive beside its own, the clock is off by no more than half the round trip it was set by.
WithinHalfTrip == clock # Unset => (2 * clock.off <= clock.trip /\ 2 * clock.off >= -clock.trip - 1)

\* A board keeps asking, after failures and after success, as long as it has a lease.
KeepsAsking == (<>[]up) => []<>(step = "resolve")

\* An exchange ends in time, whatever arrives during it.
ExchangeEnds == step = "await" ~> step = "sleep"
=============================================================================
