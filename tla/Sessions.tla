------------------------------ MODULE Sessions -------------------------------
(***************************************************************************)
(* kickstart/src/auth.rs, the logins of a board: a table of N sessions,    *)
(* each good for Lifetime, opened by whoever has the password.  Every      *)
(* operation holds the table's mutex from its first look to its last       *)
(* write, so an operation is one step.                                     *)
(*                                                                         *)
(* Tokens are drawn at random, 32 bytes each, and never meet again; here a *)
(* token is the number of its login.  That number is also the serial the   *)
(* code keeps beside it, until the u32 counter comes round.                *)
(***************************************************************************)
EXTENDS Integers, FiniteSets

CONSTANTS N,         \* Sessions<N>: slots in the table
          Lifetime,  \* how long a session is accepted for
          Serials,   \* bound: logins before the serial wraps (2^32)
          Horizon,   \* bound: how far time goes
          Free       \* None: an empty slot

VARIABLES table,       \* the slots
          next_serial, \* logins so far
          now,         \* Instant::now()
          due,         \* history: when each login's session ends
          ended        \* history: logins closed

vars == <<table, next_serial, now, due, ended>>

Slot == 1..N
Token == 0..Serials - 1
Session == [token: Token, expires: Nat]
Issued == 0..next_serial - 1

Init == /\ table = [s \in Slot |-> Free]
        /\ next_serial = 0 /\ now = 0
        /\ due = [t \in Token |-> 0] /\ ended = {}

-----------------------------------------------------------------------------
(* Operations *)

\* An expired entry is a free slot.
Vacant == {s \in Slot : table[s] = Free \/ table[s].expires <= now}

\* Mutant: a full table gives up its first slot, whoever is in it.
PlaceFirst(s) == IF Vacant # {} THEN s \in Vacant /\ \A o \in Vacant : s <= o ELSE s = 1

\* The first vacant slot; the oldest login's, when every slot is live.
Place(s) == IF Vacant # {} THEN s \in Vacant /\ \A o \in Vacant : s <= o
                           ELSE \A o \in Slot : table[s].token <= table[o].token

Record == [token |-> next_serial, expires |-> now + Lifetime]

\* open, the password verified.
Open(s) == /\ next_serial < Serials
           /\ Place(s)
           /\ table' = [table EXCEPT ![s] = Record]
           /\ due' = [due EXCEPT ![next_serial] = now + Lifetime]
           /\ next_serial' = next_serial + 1
           /\ UNCHANGED <<now, ended>>

\* What accepts answers of a token.
Accepts(t) == \E s \in Slot : table[s] # Free /\ table[s].token = t /\ now < table[s].expires

\* accepts: an expired session is dropped as it is found.
Look(t) == /\ table' = [s \in Slot |-> IF table[s] # Free /\ table[s].token = t /\ table[s].expires <= now
                                       THEN Free ELSE table[s]]
           /\ UNCHANGED <<next_serial, now, due, ended>>

Close(t) == /\ table' = [s \in Slot |-> IF table[s] # Free /\ table[s].token = t THEN Free ELSE table[s]]
            /\ ended' = ended \cup {t}
            /\ UNCHANGED <<next_serial, now, due>>

CloseAll == /\ table' = [s \in Slot |-> Free]
            /\ ended' = Issued
            /\ UNCHANGED <<next_serial, now, due>>

Pass == now < Horizon /\ now' = now + 1 /\ UNCHANGED <<table, next_serial, due, ended>>

Next == \/ \E s \in Slot : Open(s)
        \/ \E t \in Issued : Look(t) \/ Close(t)
        \/ CloseAll \/ Pass
Spec == Init /\ [][Next]_vars

-----------------------------------------------------------------------------
(* Properties *)

TypeOK == /\ table \in [Slot -> Session \cup {Free}]
          /\ next_serial \in 0..Serials /\ now \in Nat
          /\ due \in [Token -> Nat] /\ ended \subseteq Issued

\* A session that was closed, or whose time is up, is never accepted again, whatever slots were
\* reused and however the table was swept since.
NeverRevived == \A t \in Token : Accepts(t) => t < next_serial /\ t \notin ended /\ now < due[t]

\* "Once it is full the oldest login is evicted": a session neither closed nor out of time is
\* accepted until N later logins have come, no matter which of those were closed or ran out.
KeptUnlessOutdone == \A t \in Issued : t \notin ended /\ now < due[t] /\ ~Accepts(t) => next_serial - 1 - t >= N

\* A session is worth what it was opened for: not a moment longer, and no shorter than the table
\* must make it.
SessionsKept == NeverRevived /\ KeptUnlessOutdone
=============================================================================
