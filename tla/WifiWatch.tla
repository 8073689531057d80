------------------------------ MODULE WifiWatch ------------------------------
(***************************************************************************)
(* The association watch of the Wi-Fi runner (embassy/src/wifi.rs): a pass  *)
(* of its loop every unit of time, a probe of a radio that has fallen       *)
(* silent, the join it issues and looks in on, and the link state it shows  *)
(* the network stack.                                                       *)
(*                                                                         *)
(* External: the access point, and the chip, which may lose an association, *)
(* put one back by itself, fail a join or stop answering commands.          *)
(***************************************************************************)
EXTENDS Naturals

CONSTANTS Silence, Probe,          \* RX_SILENCE, PROBE_INTERVAL
          JoinPoll, Budget, Retry  \* JOIN_POLL, JOIN_BUDGET, RETRY_INTERVAL

VARIABLES reconnect,       \* whether the runner was given what to rejoin with
          turn,           \* "pass" or "world": whose move it is
          state,          \* Watch::state
          due, deadline,  \* time left to Watch::due and to the join's deadline
          quiet,          \* time since a frame was heard
          link,           \* ASSOCIATED and the stack's link state
          joins,          \* parity of JOINS
          net,            \* the access point is there
          radio,          \* "on" a network, "joining" or "off"
          mute,           \* the chip does not answer commands
          lost            \* history: how long the radio has been off its network

watch == <<state, due, deadline, link, joins>>
world == <<net, radio, mute>>
vars == <<reconnect, turn, watch, quiet, world, lost>>

Init == /\ reconnect \in BOOLEAN
        /\ turn = "pass" /\ state = "Up" /\ due = Probe /\ deadline = 0 /\ quiet = 0
        /\ link = TRUE /\ joins = FALSE
        /\ net = TRUE /\ radio = "on" /\ mute = FALSE /\ lost = 0

Sub1(n) == IF n = 0 THEN 0 ELSE n - 1

-----------------------------------------------------------------------------
(* The chip and its surroundings, between two passes *)

Tick == /\ turn = "world" /\ turn' = "pass"
        /\ due' = Sub1(due) /\ deadline' = Sub1(deadline)
        /\ quiet' = IF quiet < Silence THEN quiet + 1 ELSE quiet
        /\ lost' = IF radio = "on" THEN 0 ELSE IF lost <= Silence THEN lost + 1 ELSE lost
        /\ UNCHANGED <<reconnect, state, link, joins, world>>

Changes(r, n, m) == /\ turn = "world" /\ radio' = r /\ net' = n /\ mute' = m
                    /\ lost' = IF r = "on" THEN 0 ELSE lost
                    /\ UNCHANGED <<reconnect, turn, watch, quiet>>

Drops == radio # "off" /\ \E n \in BOOLEAN : (n => net) /\ Changes("off", n, mute)
Returns == ~net /\ Changes(radio, TRUE, mute)
Roams == radio = "off" /\ net /\ Changes("on", net, mute)
Lands == radio = "joining" /\ net /\ Changes("on", net, mute)
Mutes == Changes(radio, net, ~mute)

-----------------------------------------------------------------------------
(* A pass *)

\* probe: a command that did not get through counts as no.
Probed == radio = "on" /\ ~mute

\* Mutant: a join that was issued is taken for an association.
JoinBlind == IF ~reconnect
             THEN due' = Probe /\ state' = "Down" /\ UNCHANGED <<deadline, joins, radio, link>>
             ELSE /\ joins' = ~joins
                  /\ link' = ~mute
                  /\ state' = IF mute THEN "Down" ELSE "Up"
                  /\ due' = Probe /\ UNCHANGED deadline
                  /\ radio' = IF mute THEN radio ELSE "joining"

\* join: issued, and waited for by probes until its deadline; refused by a chip that does not answer.
\* A join takes down what association there is.
Join == /\ link' = FALSE
        /\ IF ~reconnect
           THEN due' = Probe /\ state' = "Down" /\ UNCHANGED <<deadline, joins, radio>>
           ELSE /\ joins' = ~joins
                /\ IF mute THEN state' = "Down" /\ due' = Retry /\ UNCHANGED <<deadline, radio>>
                           ELSE state' = "Joining" /\ due' = JoinPoll /\ deadline' = Budget /\ radio' = "joining"

\* associate.
Associate == /\ link' = TRUE /\ state' = "Up" /\ due' = Probe
             /\ UNCHANGED <<deadline, joins, radio>>

NotYet == UNCHANGED <<watch, radio>>

\* Up: asked only after silence; a no takes the link down and issues a join.
WhenUp == /\ state = "Up" /\ due = 0
          /\ IF quiet' < Silence THEN NotYet
             ELSE IF Probed THEN due' = Probe /\ UNCHANGED <<state, deadline, link, joins, radio>>
             ELSE Join

\* Mutant: a join past its deadline is waited for all the same.
WhenJoiningForever == /\ state = "Joining" /\ due = 0
                      /\ IF Probed THEN Associate
                         ELSE due' = JoinPoll /\ UNCHANGED <<state, deadline, link, joins, radio>>

WhenJoining == /\ state = "Joining" /\ due = 0
               /\ IF Probed THEN Associate
                  ELSE /\ due' = IF deadline = 0 THEN Retry ELSE JoinPoll
                       /\ state' = IF deadline = 0 THEN "Down" ELSE state
                       /\ UNCHANGED <<deadline, link, joins, radio>>

\* Down: asked before it is told.
WhenDown == state = "Down" /\ due = 0 /\ (IF Probed THEN Associate ELSE Join)

\* run: frames are moved, then the watch takes its step.
Pass == /\ turn = "pass" /\ turn' = "world"
        /\ \E heard \in BOOLEAN : (heard => radio = "on") /\ quiet' = IF heard THEN 0 ELSE quiet
        /\ (due > 0 /\ NotYet) \/ WhenUp \/ WhenJoining \/ WhenDown
        /\ UNCHANGED <<reconnect, net, mute, lost>>

Next == Pass \/ Tick \/ Drops \/ Returns \/ Roams \/ Lands \/ Mutes

\* Time passes and the runner runs; joins that are issued again and again with the access point
\* there land some time.
Fairness == WF_vars(Pass) /\ SF_vars(Tick) /\ SF_vars(Lands)
Spec == Init /\ [][Next]_vars
FairSpec == Spec /\ Fairness

-----------------------------------------------------------------------------
(* Properties *)

TypeOK == /\ reconnect \in BOOLEAN /\ turn \in {"pass", "world"} /\ state \in {"Up", "Joining", "Down"}
          /\ due \in 0..Silence + Retry + JoinPoll /\ deadline \in 0..Budget /\ quiet \in 0..Silence
          /\ link \in BOOLEAN /\ joins \in BOOLEAN /\ net \in BOOLEAN /\ mute \in BOOLEAN
          /\ radio \in {"on", "joining", "off"} /\ lost \in 0..Silence + 1

\* A lost association is noticed once the silence has lasted, whenever in the probes' turn it begins.
NoticedInTime == link /\ radio # "on" => lost <= Silence

\* A join, which takes an association down, is issued over none, unless the chip does not answer.
JoinsOverNothing == [][joins' # joins /\ ~mute => radio # "on"]_vars

\* The stack is told of a link only when the radio is on a network, never of a join that is only issued.
UpMeansOn == [][~link /\ link' => radio = "on"]_vars

\* With reconnecting on, the access point there, the chip answering and no association lost any more, the link comes
\* back, whatever join failed before or is still outstanding.
ComesBack == reconnect /\ <>[](net /\ ~mute) /\ <>[][radio = "on" => radio' = "on"]_vars => []<>link
=============================================================================
