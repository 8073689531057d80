------------------------------ MODULE NvmeQueue ------------------------------
(***************************************************************************)
(* The NVMe driver (hal/src/nvme.rs): transfers split into commands, one in *)
(* flight at a time, a submission and a completion ring, the phase bit that *)
(* marks a new completion, and a command given up before its completion     *)
(* comes.  The controller is external: it fetches, completes in any order,  *)
(* fails commands, and is as late as it likes.                              *)
(***************************************************************************)
EXTENDS Integers, FiniteSets

CONSTANTS Slots,     \* entries of the submission ring (64)
          Entries,   \* entries of the completion ring (256)
          Ids,       \* command identifiers (65536)
          MaxChunks  \* bound: commands of a transfer

VARIABLES job,       \* "idle", "submit" (between commands), "wait", or how the last one ended: "ok", "error"
          left,      \* commands of the transfer still to issue
          id, nextId,        \* the command's identifier, QueueState::next_id
          sqTail, cqHead, phase,
          sq,        \* submission entries: an identifier, and whether its transfer has been given up
          sqDoor, cqDoor,    \* the two doorbells
          sqHead, cqTail, cqPhase,   \* the controller's places
          work,      \* commands fetched and not completed
          cq,        \* completion entries
          late,      \* history: a command has timed out
          wrong      \* history: a result that was not the command's own has been returned as "ok" or "error"

driver == <<job, left, id, nextId, sqTail, cqHead, phase, sq, sqDoor, cqDoor>>
controller == <<sqHead, cqTail, cqPhase, work, cq>>
vars == <<driver, controller, late, wrong>>

Stale(c) == [c EXCEPT !.own = FALSE]
NoCommand == [id |-> Ids, own |-> FALSE]
Command == [id: 0..Ids, own: BOOLEAN]

Init == /\ job = "idle" /\ left = 0 /\ id = 0 /\ nextId = 0
        /\ sqTail = 0 /\ cqHead = 0 /\ phase = TRUE
        /\ sq = [i \in 0..Slots - 1 |-> NoCommand] /\ sqDoor = 0 /\ cqDoor = 0
        /\ sqHead = 0 /\ cqTail = 0 /\ cqPhase = TRUE /\ work = {}
        /\ cq = [i \in 0..Entries - 1 |-> [id |-> Ids, own |-> FALSE, phase |-> FALSE, ok |-> FALSE]]
        /\ late = FALSE /\ wrong = {}

-----------------------------------------------------------------------------
(* The controller *)

Fetch == /\ sqHead # sqDoor
         /\ work' = work \cup {sq[sqHead]} /\ sqHead' = (sqHead + 1) % Slots
         /\ UNCHANGED <<driver, cqTail, cqPhase, cq, late, wrong>>

\* A completion is written while the ring has room by the driver's doorbell; one entry stays free.
Complete == /\ (cqTail + 1) % Entries # cqDoor
            /\ \E c \in work, ok \in BOOLEAN :
                 /\ work' = work \ {c}
                 /\ cq' = [cq EXCEPT ![cqTail] = [id |-> c.id, own |-> c.own, phase |-> cqPhase, ok |-> ok]]
            /\ cqTail' = (cqTail + 1) % Entries
            /\ cqPhase' = IF cqTail + 1 = Entries THEN ~cqPhase ELSE cqPhase
            /\ UNCHANGED <<driver, sqHead, late, wrong>>

-----------------------------------------------------------------------------
(* The driver *)

\* Commands written and not yet taken back.
InFlight == Cardinality(work) + ((sqDoor + Slots - sqHead) % Slots) + ((cqTail + Entries - cqHead) % Entries)

Identifiers == {c.id : c \in work} \cup {sq[(sqHead + k) % Slots].id : k \in 0..((sqDoor + Slots - sqHead) % Slots) - 1}
               \cup {cq[(cqHead + k) % Entries].id : k \in 0..((cqTail + Entries - cqHead) % Entries) - 1}

\* transfer, of any length; nothing is kept of an earlier one.
Start == /\ job \in {"idle", "ok", "error"}
         /\ \E n \in 1..MaxChunks : left' = n
         /\ job' = "submit"
         /\ UNCHANGED <<id, nextId, sqTail, cqHead, phase, sq, sqDoor, cqDoor, controller, late, wrong>>

\* submit: the next entry written, then the doorbell rung.  The bound: fewer in flight than the
\* ring has room for, and none in flight for as long as the identifiers take to come round.
Submit == /\ job = "submit" /\ left > 0
          /\ InFlight < Slots - 1 /\ nextId \notin Identifiers
          /\ id' = nextId /\ nextId' = (nextId + 1) % Ids
          /\ sq' = [sq EXCEPT ![sqTail] = [id |-> nextId, own |-> TRUE]]
          /\ sqTail' = (sqTail + 1) % Slots /\ sqDoor' = sqTail'
          /\ job' = "wait"
          /\ UNCHANGED <<left, cqHead, phase, cqDoor, controller, late, wrong>>

Advance == /\ cqHead' = (cqHead + 1) % Entries /\ cqDoor' = cqHead'
           /\ phase' = IF cqHead + 1 = Entries THEN ~phase ELSE phase

\* All that is in flight belongs, from now on, to a transfer that has returned.
GivesUp == /\ sq' = [i \in DOMAIN sq |-> Stale(sq[i])]
           /\ work' = {Stale(c) : c \in work}
           /\ cq' = [i \in DOMAIN cq |-> Stale(cq[i])]

\* Mutant: the completion found is the command's.
TakeAny == /\ job = "wait" /\ cq[cqHead].phase = phase
           /\ Advance
           /\ LET c == cq[cqHead]
                  good == c.ok
              IN /\ left' = IF good THEN left - 1 ELSE left
                 /\ job' = IF ~good THEN "error" ELSE IF left = 1 THEN "ok" ELSE "submit"
                 /\ wrong' = IF c.own THEN wrong ELSE wrong \cup {IF good THEN "ok" ELSE "error"}
                 /\ IF good THEN UNCHANGED <<sq, work, cq>> ELSE GivesUp
           /\ UNCHANGED <<id, nextId, sqTail, sqDoor, sqHead, cqTail, cqPhase, late>>

\* submit, a completion found: the head and its doorbell move on; a status of failure or another
\* command's identifier ends the transfer with an error.
Take == /\ job = "wait" /\ cq[cqHead].phase = phase
        /\ Advance
        /\ LET c == cq[cqHead]
               good == c.ok /\ c.id = id
           IN /\ left' = IF good THEN left - 1 ELSE left
              /\ job' = IF ~good THEN "error" ELSE IF left = 1 THEN "ok" ELSE "submit"
              /\ wrong' = IF c.own THEN wrong ELSE wrong \cup {IF good THEN "ok" ELSE "error"}
              /\ IF good THEN UNCHANGED <<sq, work, cq>> ELSE GivesUp
        /\ UNCHANGED <<id, nextId, sqTail, sqDoor, sqHead, cqTail, cqPhase, late>>

\* submit, ten seconds without one: the command stays where it is.
TimesOut == /\ job = "wait" /\ cq[cqHead].phase # phase
            /\ job' = "error" /\ late' = TRUE /\ GivesUp
            /\ UNCHANGED <<left, id, nextId, sqTail, cqHead, phase, sqDoor, cqDoor, sqHead, cqTail, cqPhase, wrong>>

Next == Fetch \/ Complete \/ Start \/ Submit \/ Take \/ TimesOut
Spec == Init /\ [][Next]_vars

-----------------------------------------------------------------------------
(* Properties *)

TypeOK == /\ job \in {"idle", "submit", "wait", "ok", "error"} /\ left \in 0..MaxChunks
          /\ id \in 0..Ids - 1 /\ nextId \in 0..Ids - 1
          /\ {sqTail, sqDoor, sqHead} \subseteq 0..Slots - 1 /\ {cqHead, cqDoor, cqTail} \subseteq 0..Entries - 1
          /\ {phase, cqPhase, late} \subseteq BOOLEAN /\ wrong \subseteq {"ok", "error"}
          /\ sq \in [0..Slots - 1 -> Command] /\ work \subseteq Command
          /\ cq \in [0..Entries - 1 -> [id: 0..Ids, own: BOOLEAN, phase: BOOLEAN, ok: BOOLEAN]]

\* Success is the command's own: a completion that comes after its command was given up ends no
\* later one well, whatever order completions come in and however often the rings wrap.
OkIsOwn == "ok" \notin wrong

\* And before a command has timed out no completion is taken for another's at all, nor twice.
OwnUnlessLate == wrong = {} \/ late
=============================================================================
