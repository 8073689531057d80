--------------------------- MODULE KickstartProofs ---------------------------
(***************************************************************************)
(* The safety of kickstart.  First of MCKickstart's parts, for any table   *)
(* and number of logins, any settings and number of faults, any time-outs  *)
(* and waits.                                                              *)
(*                                                                         *)
(* Sessions.  A slot holds what its login was given (Held), and no login   *)
(* is in two slots (Apart).  With these a full table of live sessions      *)
(* holds N logins, all different, and the one evicted is the least of      *)
(* them: so at least N later ones have come.                               *)
(*                                                                         *)
(* The settings file.  What the volume shows under the name stays among    *)
(* what the card may show (SaveKnown), and the rename finds a copy that is *)
(* whole in both (SaveStaged), because the sync and the comparison come    *)
(* before it.                                                              *)
(*                                                                         *)
(* The clock.  An answer that echoes the request is no older than it       *)
(* (SntpOwn), so what it says is off by its way here alone.                *)
(*                                                                         *)
(* The update, of OtaUpdate, whose behaviours are its own.  For any        *)
(* uploads, bundles and files and any number of faults and restarts its    *)
(* variables keep their types, the kernel is the last thing an install     *)
(* writes, and an upload answered with a 200 is on the card.  The last two *)
(* need that no bundle names one file by two paths, which Bundle::parse    *)
(* checks only up to letter case.                                          *)
(***************************************************************************)
EXTENDS OtaUpdate, MCKickstart, FiniteSetTheorems, TLAPS

(* ------------------------------ sessions -------------------------------- *)

\* What a slot holds is what its login was given, and is not of a login that was closed.
Held == \A s \in Web!Slot : w_table[s] # Free =>
           /\ w_table[s].token \in Web!Issued \ w_ended
           /\ w_table[s].expires = w_due[w_table[s].token]

\* A login is in one slot at most.
Apart == \A r, s \in Web!Slot : w_table[r] # Free /\ w_table[s] # Free /\ w_table[r].token = w_table[s].token => r = s

\* A login that is neither closed nor out of time is in the table, or N later ones have come.
Kept == \A t \in Web!Issued : t \notin w_ended /\ w_now < w_due[t] =>
           (\E s \in Web!Slot : w_table[s] # Free /\ w_table[s].token = t) \/ w_next_serial - 1 - t >= N

TableInv == Web!TypeOK /\ Held /\ Apart /\ Kept

USE KickstartAssumption

\* A session is a token and a time, and Free is none.
LEMMA Records ==
  /\ Free \notin Web!Session
  /\ \A x \in Web!Session : x.token \in Web!Token /\ x.expires \in Nat /\ x # Free
  /\ \A t \in Web!Token, e \in Nat : /\ [token |-> t, expires |-> e] \in Web!Session
                                 /\ [token |-> t, expires |-> e].token = t
                                 /\ [token |-> t, expires |-> e].expires = e
<1>1. Web!Token \subseteq Nat
  BY DEF Web!Token
<1>2. Web!Session \subseteq [token: Nat, expires: Nat]
  BY <1>1 DEF Web!Session
<1> QED
  BY <1>2 DEF Web!Session

LEMMA TableInit == Web!Init => TableInv
<1> SUFFICES ASSUME Web!Init PROVE TableInv
  OBVIOUS
<1>1. Web!TypeOK
  BY DEF Web!Init, Web!TypeOK, Web!Issued
<1>2. Held /\ Apart /\ Kept
  BY DEF Web!Init, Held, Apart, Kept, Web!Issued
<1> QED
  BY <1>1, <1>2 DEF TableInv

\* A function from 1..n into an interval that names nothing twice finds n members there.
LEMMA Pigeons ==
  ASSUME NEW n \in Nat, NEW lo \in Int, NEW hi \in Int, NEW f \in [1..n -> lo..hi],
         \A r, s \in 1..n : f[r] = f[s] => r = s, n > 0
  PROVE  hi - lo + 1 >= n
<1>1. IsFiniteSet(lo..hi) /\ Cardinality(lo..hi) = IF lo > hi THEN 0 ELSE hi - lo + 1
  BY FS_Interval
<1>2. IsFiniteSet(1..n) /\ Cardinality(1..n) = n
  BY FS_Interval
<1>3. f \in Injection(1..n, lo..hi)
  BY DEF Injection, IsInjective
<1>4. Cardinality(1..n) <= Cardinality(lo..hi)
  BY <1>1, <1>2, <1>3, FS_Injection
<1> QED
  BY <1>1, <1>2, <1>4

LEMMA TableOpen == ASSUME NEW s \in Web!Slot, TableInv, Web!Open(s) PROVE TableInv'
<1>1. /\ w_next_serial \in Web!Token /\ w_next_serial \in Nat /\ Web!Place(s)
      /\ w_table' = [w_table EXCEPT ![s] = Web!Record]
      /\ w_due' = [w_due EXCEPT ![w_next_serial] = w_now + Lifetime]
      /\ w_next_serial' = w_next_serial + 1 /\ UNCHANGED <<w_now, w_ended>>
  BY DEF Web!Open, TableInv, Web!TypeOK, Web!Token
<1>2. Web!Record \in Web!Session /\ Web!Record.token = w_next_serial /\ Web!Record.expires = w_now + Lifetime /\ Web!Record # Free
  BY <1>1, Records DEF Web!Record, TableInv, Web!TypeOK
<1>3. Web!TypeOK'
  <2>1. w_table' \in [Web!Slot -> Web!Session \cup {Free}]
    BY <1>1, <1>2 DEF TableInv, Web!TypeOK
  <2>2. w_next_serial' \in 0..Serials
    BY <1>1 DEF Web!Token, TableInv, Web!TypeOK
  <2>3. w_due' \in [Web!Token -> Nat] /\ w_now' \in Nat
    BY <1>1 DEF TableInv, Web!TypeOK
  <2>4. w_ended' \subseteq Web!Issued'
    BY <1>1 DEF TableInv, Web!TypeOK, Web!Issued
  <2> QED
    BY <2>1, <2>2, <2>3, <2>4 DEF Web!TypeOK
<1>4. w_table'[s] = Web!Record /\ \A r \in Web!Slot \ {s} : w_table'[r] = w_table[r]
  BY <1>1 DEF TableInv, Web!TypeOK
<1>5. \A t \in Web!Issued : t \in Web!Token /\ w_due'[t] = w_due[t] /\ t \in Web!Issued' /\ t # w_next_serial
  BY <1>1 DEF Web!Issued, Web!Token, TableInv, Web!TypeOK
<1>6. w_due'[w_next_serial] = w_now + Lifetime /\ w_next_serial \notin Web!Issued /\ w_next_serial \notin w_ended /\ w_next_serial \in Web!Issued'
  BY <1>1 DEF Web!Issued, TableInv, Web!TypeOK
<1>7. Held'
  BY <1>1, <1>2, <1>4, <1>5, <1>6 DEF TableInv, Held
<1>8. Apart'
  BY <1>1, <1>2, <1>4, <1>6 DEF TableInv, Held, Apart
<1>9. Kept'
  <2> SUFFICES ASSUME NEW t \in Web!Issued', t \notin w_ended', w_now' < w_due'[t],
                      ~\E r \in Web!Slot : w_table'[r] # Free /\ w_table'[r].token = t
               PROVE  w_next_serial' - 1 - t >= N
    BY DEF Kept
  <2>1. t \in Web!Issued /\ t \in Int /\ w_now < w_due[t] /\ t \notin w_ended
    <3>1. t # w_next_serial
      BY <1>2, <1>4
    <3> QED
      BY <1>1, <1>5, <3>1 DEF Web!Issued
  <2>2. CASE w_next_serial - 1 - t >= N
    BY <2>2, <2>1, <1>1
  <2>3. CASE \E r \in Web!Slot : w_table[r] # Free /\ w_table[r].token = t
    <3>1. w_table[s] # Free /\ w_table[s].token = t
      BY <2>3, <1>4
    <3>2. s \notin Web!Vacant
      BY <3>1, <2>1, Records DEF Web!Vacant, TableInv, Held, Web!TypeOK
    <3>3. Web!Vacant = {} /\ \A r \in Web!Slot : w_table[r] # Free /\ w_table[s].token <= w_table[r].token
      BY <1>1, <3>2 DEF Web!Place, Web!Vacant
    <3> DEFINE f == [r \in 1..N |-> w_table[r].token]
    <3>4. f \in [1..N -> t..w_next_serial - 1]
      <4> SUFFICES ASSUME NEW r \in 1..N PROVE w_table[r].token \in t..w_next_serial - 1
        OBVIOUS
      <4>1. w_table[r].token \in Web!Issued /\ t <= w_table[r].token
        BY <3>1, <3>3 DEF Web!Slot, TableInv, Held
      <4> QED
        BY <4>1, <2>1 DEF Web!Issued
    <3>5. \A q, r \in 1..N : f[q] = f[r] => q = r
      BY <3>3 DEF TableInv, Apart, Web!Slot
    <3>6. (w_next_serial - 1) - t + 1 >= N
      <4> DEFINE last == w_next_serial - 1
      <4>1. N \in Nat /\ N > 0 /\ t \in Int /\ last \in Int
        BY <2>1, <1>1
      <4>2. f \in [1..N -> t..last]
        BY <3>4
      <4> HIDE DEF f, last
      <4>3. last - t + 1 >= N
        BY <3>5, <4>1, <4>2, Pigeons
      <4> QED
        BY <4>3 DEF last
    <3> QED
      BY <3>6, <1>1, <2>1
  <2> QED
    BY <2>1, <2>2, <2>3 DEF TableInv, Kept
<1> QED
  BY <1>3, <1>7, <1>8, <1>9 DEF TableInv

\* The steps that only take sessions out of the table: what is left is as it was.
LEMMA Shrinks ==
  ASSUME TableInv, NEW S \in SUBSET Web!Slot, w_table' = [s \in Web!Slot |-> IF s \in S THEN Free ELSE w_table[s]],
         UNCHANGED <<w_next_serial, w_now, w_due>>, w_ended \subseteq w_ended', w_ended' \subseteq Web!Issued,
         \A s \in Web!Slot : w_table[s] # Free /\ w_table[s].token \in w_ended' => s \in S,
         \A s \in S : w_table[s] # Free => w_table[s].token \in w_ended' \/ w_table[s].expires <= w_now
  PROVE  TableInv'
<1>1. Web!Issued' = Web!Issued
  BY DEF Web!Issued
<1>2. Web!TypeOK'
  BY <1>1 DEF TableInv, Web!TypeOK
<1>3. Held'
  BY <1>1 DEF TableInv, Web!TypeOK, Held
<1>4. Apart'
  BY DEF TableInv, Web!TypeOK, Apart
<1>5. Kept'
  <2> SUFFICES ASSUME NEW t \in Web!Issued, t \notin w_ended', w_now < w_due[t]
               PROVE  (\E s \in Web!Slot : w_table'[s] # Free /\ w_table'[s].token = t) \/ w_next_serial - 1 - t >= N
    BY <1>1 DEF Kept
  <2>1. CASE w_next_serial - 1 - t >= N
    BY <2>1
  <2>2. CASE \E s \in Web!Slot : w_table[s] # Free /\ w_table[s].token = t
    <3>1. PICK s \in Web!Slot : w_table[s] # Free /\ w_table[s].token = t
      BY <2>2
    <3>2. s \notin S
      <4>1. w_table[s].expires = w_due[t] /\ w_due[t] \in Nat /\ w_now \in Nat
        BY <3>1, Records DEF TableInv, Held, Web!TypeOK
      <4> QED
        BY <3>1, <4>1
    <3> QED
      BY <3>1, <3>2
  <2> QED
    BY <2>1, <2>2 DEF TableInv, Kept
<1> QED
  BY <1>2, <1>3, <1>4, <1>5 DEF TableInv

LEMMA TableLook == ASSUME NEW t \in Web!Issued, TableInv, Web!Look(t) PROVE TableInv'
<1> DEFINE S == {s \in Web!Slot : w_table[s] # Free /\ w_table[s].token = t /\ w_table[s].expires <= w_now}
<1>1. w_table' = [s \in Web!Slot |-> IF s \in S THEN Free ELSE w_table[s]]
  BY DEF Web!Look
<1>2. UNCHANGED <<w_next_serial, w_now, w_due, w_ended>> /\ w_ended \subseteq Web!Issued
  BY DEF Web!Look, TableInv, Web!TypeOK
<1>3. \A s \in Web!Slot : w_table[s] # Free => w_table[s].token \notin w_ended
  BY DEF TableInv, Held
<1>4. \A s \in S : w_table[s].expires <= w_now
  OBVIOUS
<1>5. S \in SUBSET Web!Slot
  OBVIOUS
<1> HIDE DEF S
<1> QED
  BY <1>1, <1>2, <1>3, <1>4, <1>5, Shrinks

LEMMA TableClose == ASSUME NEW t \in Web!Issued, TableInv, Web!Close(t) PROVE TableInv'
<1> DEFINE S == {s \in Web!Slot : w_table[s] # Free /\ w_table[s].token = t}
<1>1. w_table' = [s \in Web!Slot |-> IF s \in S THEN Free ELSE w_table[s]]
  BY DEF Web!Close
<1>2. UNCHANGED <<w_next_serial, w_now, w_due>> /\ w_ended' = w_ended \cup {t} /\ w_ended' \subseteq Web!Issued /\ w_ended \subseteq w_ended'
  BY DEF Web!Close, TableInv, Web!TypeOK
<1>3. \A s \in Web!Slot : w_table[s] # Free /\ w_table[s].token \in w_ended' => s \in S
  BY <1>2 DEF TableInv, Held
<1>4. \A s \in S : w_table[s].token \in w_ended'
  BY <1>2
<1>5. S \in SUBSET Web!Slot
  OBVIOUS
<1> HIDE DEF S
<1> QED
  BY <1>1, <1>2, <1>3, <1>4, <1>5, Shrinks

LEMMA TableCloseAll == TableInv /\ Web!CloseAll => TableInv'
<1> SUFFICES ASSUME TableInv, Web!CloseAll PROVE TableInv'
  OBVIOUS
<1>1. w_table' = [s \in Web!Slot |-> IF s \in Web!Slot THEN Free ELSE w_table[s]]
  BY DEF Web!CloseAll
<1>2. UNCHANGED <<w_next_serial, w_now, w_due>> /\ w_ended' = Web!Issued /\ w_ended \subseteq w_ended'
  BY DEF Web!CloseAll, TableInv, Web!TypeOK
<1>3. \A s \in Web!Slot : w_table[s] # Free => w_table[s].token \in w_ended'
  BY <1>2 DEF TableInv, Held
<1> QED
  BY <1>1, <1>2, <1>3, Shrinks

LEMMA TablePass == TableInv /\ Web!Pass => TableInv'
<1> SUFFICES ASSUME TableInv, Web!Pass PROVE TableInv'
  OBVIOUS
<1>1. w_now' = w_now + 1 /\ w_now \in Nat /\ UNCHANGED <<w_table, w_next_serial, w_due, w_ended>> /\ Web!Issued' = Web!Issued
  BY DEF Web!Pass, TableInv, Web!TypeOK, Web!Issued
<1>2. Web!TypeOK'
  BY <1>1 DEF TableInv, Web!TypeOK
<1>3. (Held /\ Apart)'
  BY <1>1 DEF TableInv, Held, Apart
<1>4. Kept'
  <2>1. \A t \in Web!Issued : w_now' < w_due'[t] => w_now < w_due[t]
    BY <1>1 DEF TableInv, Web!TypeOK, Web!Issued, Web!Token
  <2> QED
    BY <1>1, <2>1 DEF TableInv, Kept
<1> QED
  BY <1>2, <1>3, <1>4 DEF TableInv

LEMMA TableNext == TableInv /\ [Web!Next]_webVars => TableInv'
<1> SUFFICES ASSUME TableInv, [Web!Next]_webVars PROVE TableInv'
  OBVIOUS
<1>1. CASE Web!Next
  BY <1>1, TableOpen, TableLook, TableClose, TableCloseAll, TablePass DEF Web!Next
<1>2. CASE UNCHANGED webVars
  <2>1. UNCHANGED <<w_table, w_next_serial, w_now, w_due, w_ended>> /\ Web!Issued' = Web!Issued
    BY <1>2 DEF webVars, Web!Issued
  <2> QED
    BY <2>1 DEF TableInv, Web!TypeOK, Held, Apart, Kept
<1> QED
  BY <1>1, <1>2

LEMMA TableKept == TableInv => Web!SessionsKept
<1> SUFFICES ASSUME TableInv PROVE Web!SessionsKept
  OBVIOUS
<1>1. Web!NeverRevived
  <2> SUFFICES ASSUME NEW t \in Web!Token, Web!Accepts(t)
               PROVE  t < w_next_serial /\ t \notin w_ended /\ w_now < w_due[t]
    BY DEF Web!NeverRevived
  <2>1. PICK s \in Web!Slot : w_table[s] # Free /\ w_table[s].token = t /\ w_now < w_table[s].expires
    BY DEF Web!Accepts
  <2>2. t \in Web!Issued \ w_ended /\ w_table[s].expires = w_due[t]
    BY <2>1 DEF TableInv, Held
  <2> QED
    BY <2>1, <2>2 DEF Web!Issued, TableInv, Web!TypeOK
<1>2. Web!KeptUnlessOutdone
  <2> SUFFICES ASSUME NEW t \in Web!Issued, t \notin w_ended, w_now < w_due[t], ~Web!Accepts(t)
               PROVE  w_next_serial - 1 - t >= N
    BY DEF Web!KeptUnlessOutdone
  <2>1. \A s \in Web!Slot : w_table[s] # Free /\ w_table[s].token = t => Web!Accepts(t)
    BY DEF TableInv, Held, Web!Accepts
  <2> QED
    BY <2>1 DEF TableInv, Kept
<1> QED
  BY <1>1, <1>2 DEF Web!SessionsKept

(* -------------------------- the settings file --------------------------- *)

\* What the file may be.
SaveAllowed == s_before \cup (IF s_step = "settle" THEN {s_wanted} ELSE {})

\* Neither the card nor the volume shows anything else under the name.
SaveKnown == s_card.path \in SaveAllowed /\ s_volume.path \in SaveAllowed

\* From the sync on the card is what the volume is, until the rename; from the comparison on the
\* copy is the settings wanted, and after the rename so is the file.
SaveStaged == /\ s_step # "idle" => s_wanted \in Settings
              /\ s_step \in {"check", "rename"} => s_card = s_volume
              /\ s_step = "rename" => s_volume.staging = s_wanted
              /\ s_step = "settle" => s_volume.path = s_wanted

SaveInv == Save!TypeOK /\ SaveKnown /\ SaveStaged


\* What a record of the two files is made of.
LEMMA SavePlaces ==
  /\ \A x \in Save!Place : x.path \in Save!Text /\ x.staging \in Save!Text
  /\ \A p, s \in Save!Text : /\ Save!Both(p, s) \in Save!Place
                             /\ Save!Both(p, s).path = p /\ Save!Both(p, s).staging = s
BY DEF Save!Place, Save!Both

LEMMA SaveInit == Save!Init => SaveInv
<1> SUFFICES ASSUME Save!Init PROVE SaveInv
  OBVIOUS
<1> USE KickstartAssumption
<1>1. PICK f \in Settings \cup {NoFile} : s_volume = Save!Both(f, NoFile)
  BY DEF Save!Init
<1>2. s_volume \in Save!Place /\ s_volume.path = f
  BY <1>1, SavePlaces DEF Save!Text
<1> QED
  BY <1>1, <1>2 DEF Save!Init, SaveInv, Save!TypeOK, SaveKnown, SaveAllowed, SaveStaged, Save!Load

LEMMA SaveNext == SaveInv /\ [Save!Next]_saveVars => SaveInv'
<1> SUFFICES ASSUME SaveInv, [Save!Next]_saveVars PROVE SaveInv'
  OBVIOUS
<1> USE KickstartAssumption
<1> USE SavePlaces DEF SaveInv
<1>1. ASSUME NEW c \in Settings, Save!Save(c) PROVE SaveInv'
  BY <1>1 DEF Save!Save, Save!files, Save!TypeOK, SaveKnown, SaveAllowed, SaveStaged
<1>2. CASE Save!Refuse
  BY <1>2 DEF Save!Refuse, Save!files, Save!TypeOK, SaveKnown, SaveAllowed, SaveStaged
<1>3. CASE Save!Write
  <2>1. s_volume'.path = s_volume.path /\ s_volume' \in Save!Place /\ s_card'.path = s_card.path /\ s_card' \in Save!Place
    BY <1>3 DEF Save!Write, Save!TypeOK, SaveStaged, Save!Text
  <2>2. s_step' \in {"sync", "idle"} /\ UNCHANGED <<s_wanted, s_running, s_before>> /\ s_faults' \in 0..SaveFaults
        /\ s_result' \in {s_result, "write"}
    BY <1>3 DEF Save!Write, Save!Goto, Save!Return, Save!Fault, Save!Steady, Save!TypeOK
  <2> QED
    BY <1>3, <2>1, <2>2 DEF Save!Write, Save!TypeOK, SaveKnown, SaveAllowed, SaveStaged
<1>4. CASE Save!Sync
  <2>1. UNCHANGED <<s_volume, s_wanted, s_running, s_before>> /\ s_faults' \in 0..SaveFaults
        /\ s_result' \in {s_result, "sync"}
    BY <1>4 DEF Save!Sync, Save!Goto, Save!Return, Save!Fault, Save!Steady, Save!TypeOK
  <2>2. s_card' \in Save!Place /\ s_card'.path \in {s_card.path, s_volume.path}
        /\ \/ s_step' = "check" /\ s_card' = s_volume
           \/ s_step' = "idle"
    <3>1. \A p \in {s_card.path, s_volume.path}, s \in Save!Some(s_card.staging, s_volume.staging) : p \in Save!Text /\ s \in Save!Text
      BY DEF Save!TypeOK, Save!Some, Save!Text
    <3>2. CASE Save!Goto("check") /\ s_card' = s_volume
      BY <3>2 DEF Save!Goto, Save!TypeOK
    <3>3. CASE Save!Return("sync")
      <4>1. PICK p \in {s_card.path, s_volume.path}, s \in Save!Some(s_card.staging, s_volume.staging) : s_card' = Save!Both(p, s)
        BY <1>4, <3>3 DEF Save!Sync, Save!Goto, Save!Return
      <4> QED
        BY <3>1, <3>3, <4>1 DEF Save!Return
    <3> QED
      BY <1>4, <3>2, <3>3 DEF Save!Sync
  <2> QED
    BY <1>4, <2>1, <2>2 DEF Save!Sync, Save!TypeOK, SaveKnown, SaveAllowed, SaveStaged
<1>5. CASE Save!Check
  <2>1. UNCHANGED <<s_volume, s_card, s_wanted, s_running, s_before>> /\ s_faults' \in 0..SaveFaults
        /\ s_result' \in {s_result, "mismatch", "readback"}
        /\ \/ s_step' = "rename" /\ s_volume.staging = s_wanted
           \/ s_step' = "idle"
    BY <1>5 DEF Save!Check, Save!files, Save!Goto, Save!Return, Save!Fault, Save!Steady, Save!TypeOK
  <2> QED
    BY <1>5, <2>1 DEF Save!Check, Save!TypeOK, SaveKnown, SaveAllowed, SaveStaged
<1>6. CASE Save!Rename
  <2>1. s_volume.staging = s_wanted /\ s_card.staging = s_wanted /\ s_wanted \in Settings /\ s_step = "rename"
    BY <1>6 DEF Save!Rename, SaveStaged
  <2>2. s_card' \in Save!Place /\ s_card'.path \in {s_card.path, s_wanted}
    BY <1>6, <2>1 DEF Save!Rename, Save!TypeOK, Save!Text
  <2>3. s_volume' \in Save!Place /\ s_volume'.path \in {s_volume.path, s_wanted}
    BY <1>6, <2>1 DEF Save!Rename, Save!TypeOK, Save!Text
  <2>4. UNCHANGED <<s_wanted, s_running>> /\ s_faults' \in 0..SaveFaults /\ s_result' \in {s_result, "rename"}
        /\ (\/ s_step' = "settle" /\ s_volume'.path = s_wanted /\ s_before' = s_before
            \/ s_step' = "idle" /\ s_before' = s_before \cup {s_wanted})
    BY <1>6, <2>1
    DEF Save!Rename, Save!Goto, Save!Return, Save!Fault, Save!Steady, Save!TypeOK, Save!Text
  <2> QED
    BY <2>1, <2>2, <2>3, <2>4 DEF Save!TypeOK, SaveKnown, SaveAllowed, SaveStaged
<1>7. CASE Save!Settle
  <2>1. UNCHANGED <<s_volume, s_wanted, s_running>> /\ s_faults' \in 0..SaveFaults /\ s_step' = "idle"
        /\ s_result' \in {"ok", "settle"} /\ s_wanted \in Settings /\ s_volume.path = s_wanted
    BY <1>7 DEF Save!Settle, Save!Return, Save!Fault, Save!Steady, Save!TypeOK, SaveStaged
  <2>2. CASE s_before' = {s_wanted} /\ s_card' = s_volume
    BY <2>1, <2>2 DEF Save!TypeOK, SaveKnown, SaveAllowed, SaveStaged
  <2>3. CASE s_before' = s_before \cup {s_wanted}
             /\ \E p \in {s_card.path, s_volume.path}, s \in {s_card.staging, s_volume.staging} : s_card' = Save!Both(p, s)
    <3>1. PICK p \in {s_card.path, s_volume.path}, s \in {s_card.staging, s_volume.staging} : s_card' = Save!Both(p, s)
      BY <2>3
    <3>2. p \in Save!Text /\ s \in Save!Text
      BY DEF Save!TypeOK
    <3>3. s_card' \in Save!Place /\ s_card'.path \in {s_card.path, s_volume.path}
      BY <3>1, <3>2, SavePlaces
    <3> QED
      BY <2>1, <2>3, <3>3 DEF Save!TypeOK, SaveKnown, SaveAllowed, SaveStaged
  <2> QED
    BY <1>7, <2>2, <2>3 DEF Save!Settle
<1>8. CASE Save!Reset
  <2>1. s_card.path \in Settings \cup {NoFile}
    BY DEF Save!TypeOK, SaveKnown, SaveAllowed, SaveStaged
  <2> QED
    BY <1>8, <2>1 DEF Save!Reset, Save!Load, Save!Fault, Save!TypeOK, SaveKnown, SaveAllowed, SaveStaged
<1>9. CASE UNCHANGED saveVars
  BY <1>9 DEF saveVars, Save!TypeOK, SaveKnown, SaveAllowed, SaveStaged
<1> QED
  BY <1>1, <1>2, <1>3, <1>4, <1>5, <1>6, <1>7, <1>8, <1>9 DEF Save!Next

LEMMA SaveFailure ==
  SaveInv /\ [Save!Next]_saveVars
    => [s_result' \in {"write", "sync", "readback", "mismatch"} /\ s_result = "none" /\ s_step # "idle"
          => s_volume'.path = s_volume.path /\ s_card'.path \in s_before]_saveVars
<1> SUFFICES ASSUME SaveInv, Save!Next, s_result' \in {"write", "sync", "readback", "mismatch"},
                    s_result = "none", s_step # "idle"
             PROVE  s_volume'.path = s_volume.path /\ s_card'.path \in s_before
  OBVIOUS
<1>1. s_step # "settle" => s_card.path \in s_before /\ s_volume.path \in s_before
  BY DEF SaveInv, SaveKnown, SaveAllowed
<1>2. CASE Save!Write
  <2>1. s_step = "write" /\ s_volume'.path = s_volume.path /\ s_card'.path = s_card.path
    BY <1>2 DEF Save!Write, Save!Both
  <2> QED
    BY <1>1, <2>1
<1>3. CASE Save!Sync
  <2>1. s_step = "sync" /\ s_volume' = s_volume /\ Save!Return("sync")
    BY <1>3 DEF Save!Sync, Save!Goto
  <2>2. PICK p \in {s_card.path, s_volume.path}, s \in Save!Some(s_card.staging, s_volume.staging) :
          s_card' = Save!Both(p, s)
    BY <1>3 DEF Save!Sync, Save!Goto
  <2>3. s_card'.path = p
    BY <2>2 DEF Save!Both
  <2> QED
    BY <1>1, <2>1, <2>2, <2>3
<1>4. CASE Save!Check
  <2>1. s_step = "check" /\ s_volume' = s_volume /\ s_card' = s_card
    BY <1>4 DEF Save!Check, Save!files
  <2> QED
    BY <1>1, <2>1
<1>5. Save!Write \/ Save!Sync \/ Save!Check
  BY DEF Save!Next, Save!Save, Save!Refuse, Save!Rename, Save!Settle, Save!Reset, Save!Goto, Save!Return
<1> QED
  BY <1>2, <1>3, <1>4, <1>5

(* ------------------------------ the clock ------------------------------- *)

\* Answers to the exchange under way are no older than its request; between exchanges there are none.
SntpOwn == /\ t_step = "await" => \A a \in t_way : a.own => a.age <= t_asked
           /\ t_step # "await" => TRUE \notin t_asks /\ \A a \in t_way : ~a.own
SntpInv == Sntp!TypeOK /\ SntpOwn /\ Sntp!WithinHalfTrip

LEMMA SntpInit == Sntp!Init => SntpInv
<1> SUFFICES ASSUME Sntp!Init PROVE SntpInv
  OBVIOUS
<1>1. t_up \in BOOLEAN /\ t_asks \subseteq BOOLEAN
  BY DEF Sntp!Init
<1>2. Sntp!Retry1 \in Sntp!Retry1..RetryMax /\ 0 \in 0..Sntp!Oldest
  BY KickstartAssumption DEF Sntp!Retry1, Sntp!Least, Sntp!Oldest
<1>3. Sntp!TypeOK
  BY <1>1, <1>2 DEF Sntp!Init, Sntp!TypeOK
<1> QED
  BY <1>3 DEF Sntp!Init, SntpInv, SntpOwn, Sntp!WithinHalfTrip

\* The waits after a failure stay between the first and the longest.
LEMMA SntpWaits == Sntp!TypeOK /\ Sntp!Fail => t_timer' \in Nat /\ t_retry' \in Sntp!Retry1..RetryMax
BY KickstartAssumption DEF Sntp!TypeOK, Sntp!Fail, Sntp!Retry1, Sntp!Least

\* An exchange that is over owns nothing on the way.
LEMMA SntpOver == Sntp!TypeOK /\ Sntp!Over =>
                    /\ t_asks' \subseteq BOOLEAN /\ TRUE \notin t_asks'
                    /\ t_way' \subseteq Sntp!Answers /\ \A a \in t_way' : ~a.own
<1> SUFFICES ASSUME Sntp!TypeOK, Sntp!Over
             PROVE  /\ t_asks' \subseteq BOOLEAN /\ TRUE \notin t_asks'
                    /\ t_way' \subseteq Sntp!Answers /\ \A a \in t_way' : ~a.own
  OBVIOUS
<1>1. t_asks' \subseteq {FALSE}
  BY DEF Sntp!Over
<1>2. \A a \in Sntp!Answers : [a EXCEPT !.own = FALSE] \in Sntp!Answers /\ [a EXCEPT !.own = FALSE].own = FALSE
  BY DEF Sntp!Answers
<1>3. ASSUME NEW b \in t_way' PROVE b \in Sntp!Answers /\ ~b.own
  <2>1. PICK a \in t_way : b = [a EXCEPT !.own = FALSE]
    BY DEF Sntp!Over
  <2>2. a \in Sntp!Answers
    BY DEF Sntp!TypeOK
  <2> QED
    BY <1>2, <2>1, <2>2
<1> QED
  BY <1>1, <1>3

LEMMA SntpNext == SntpInv /\ [Sntp!Next]_sntpVars => SntpInv'
<1> SUFFICES ASSUME SntpInv, [Sntp!Next]_sntpVars PROVE SntpInv'
  OBVIOUS
<1> USE KickstartAssumption DEF SntpInv, Sntp!task, Sntp!network, Sntp!Oldest
<1>1. CASE Sntp!WaitConfigUp \/ Sntp!Wake \/ Sntp!Lease
  BY <1>1 DEF Sntp!WaitConfigUp, Sntp!Wake, Sntp!Lease, Sntp!TypeOK, SntpOwn, Sntp!WithinHalfTrip
<1>2. CASE Sntp!Ask
  <2>1. t_asks' \subseteq BOOLEAN /\ t_asked' = 0 /\ t_way' = t_way
    BY <1>2 DEF Sntp!Ask, Sntp!TypeOK
  <2>2. t_up' \in BOOLEAN /\ t_timer' \in Nat /\ t_asked' \in 0..Sntp!Oldest
    BY <1>2, <2>1 DEF Sntp!Ask, Sntp!TypeOK
  <2>3. Sntp!TypeOK'
    BY <1>2, <2>1, <2>2 DEF Sntp!Ask, Sntp!TypeOK
  <2> QED
    BY <1>2, <2>3 DEF Sntp!Ask, SntpOwn, Sntp!WithinHalfTrip
<1>3. CASE Sntp!FailsEarly
  BY <1>3, SntpWaits DEF Sntp!FailsEarly, Sntp!Fail, Sntp!TypeOK, SntpOwn, Sntp!WithinHalfTrip
<1>4. CASE Sntp!TimesOut
  BY <1>4, SntpWaits, SntpOver DEF Sntp!TimesOut, Sntp!Fail, Sntp!TypeOK, SntpOwn, Sntp!WithinHalfTrip
<1>5. CASE Sntp!Ignore
  <2>1. t_way' \subseteq t_way
    BY <1>5 DEF Sntp!Ignore
  <2> QED
    BY <1>5, <2>1 DEF Sntp!Ignore, Sntp!TypeOK, SntpOwn, Sntp!WithinHalfTrip
<1>6. CASE Sntp!Set
  <2>1. PICK a \in t_way : Sntp!Usable(a) /\ t_clock' = [off |-> Sntp!Corrected(a), trip |-> t_asked]
    BY <1>6 DEF Sntp!Set
  <2>2. a.age \in 0..t_asked /\ t_asked \in 0..Sntp!Oldest
    BY <1>6, <2>1 DEF Sntp!Set, Sntp!Usable, SntpOwn, Sntp!TypeOK, Sntp!Answers
  <2> DEFINE half == t_asked \div 2
  <2>3. half \in Nat /\ 2 * half <= t_asked /\ 2 * half >= t_asked - 1
    BY <2>2
  <2>4. t_clock'.off = half - a.age /\ t_clock'.trip = t_asked
    BY <2>1 DEF Sntp!Corrected
  <2> HIDE DEF half
  <2>5. 2 * (half - a.age) <= t_asked /\ 2 * (half - a.age) >= -t_asked - 1
    BY <2>2, <2>3
  <2>6. half - a.age \in -Sntp!Oldest..Sntp!Oldest
    BY <2>2, <2>3
  <2>7. t_clock' \in [off: -Sntp!Oldest..Sntp!Oldest, trip: 0..Sntp!Oldest]
    BY <2>1, <2>2, <2>4, <2>6
  <2>8. Sntp!Retry1 \in Sntp!Retry1..RetryMax
    BY DEF Sntp!Retry1, Sntp!Least
  <2>9. Sntp!TypeOK'
    BY <1>6, <2>7, <2>8, SntpOver DEF Sntp!Set, Sntp!TypeOK
  <2>10. SntpOwn'
    BY <1>6, SntpOver DEF Sntp!Set, SntpOwn
  <2>11. Sntp!WithinHalfTrip'
    BY <2>4, <2>5 DEF Sntp!WithinHalfTrip
  <2> QED
    BY <2>9, <2>10, <2>11
<1>7. CASE Sntp!Answer
  <2>1. PICK own \in t_asks, good \in BOOLEAN : t_way' = t_way \cup {[own |-> own, good |-> good, age |-> 0]}
    BY <1>7 DEF Sntp!Answer
  <2>2. t_asks' \subseteq t_asks /\ UNCHANGED <<Sntp!task, t_up>>
    BY <1>7 DEF Sntp!Answer
  <2>3. t_way' \subseteq Sntp!Answers
    BY <2>1 DEF Sntp!TypeOK, Sntp!Answers
  <2>4. Sntp!TypeOK'
    BY <2>2, <2>3 DEF Sntp!TypeOK
  <2> DEFINE latest == [own |-> own, good |-> good, age |-> 0]
  <2>5. latest.own = own /\ latest.age = 0 /\ (t_step # "await" => ~latest.own)
    BY DEF SntpOwn, Sntp!TypeOK
  <2>6. 0 <= t_asked
    BY DEF Sntp!TypeOK
  <2> HIDE DEF latest
  <2>7. \A a \in t_way' : a \in t_way \/ a = latest
    BY <2>1 DEF latest
  <2>8. SntpOwn'
    BY <2>2, <2>5, <2>6, <2>7 DEF SntpOwn
  <2> QED
    BY <2>2, <2>4, <2>8 DEF Sntp!WithinHalfTrip
<1>8. CASE Sntp!Lose
  <2>1. t_way' \subseteq t_way /\ t_asks' \subseteq t_asks /\ UNCHANGED <<Sntp!task, t_up>>
    BY <1>8 DEF Sntp!Lose
  <2> QED
    BY <2>1 DEF Sntp!TypeOK, SntpOwn, Sntp!WithinHalfTrip
<1>9. CASE Sntp!Tick
  <2>1. \A b \in t_way' : b \in Sntp!Answers /\ \E a \in t_way : b.own = a.own /\ b.age = a.age + 1
    BY <1>9 DEF Sntp!Tick, Sntp!TypeOK, Sntp!Answers
  <2>2. t_timer' \in Nat /\ t_asked' \in 0..Sntp!Oldest
    BY <1>9 DEF Sntp!Tick, Sntp!TypeOK, Sntp!Least
  <2>3. Sntp!TypeOK'
    BY <1>9, <2>1, <2>2 DEF Sntp!Tick, Sntp!TypeOK
  <2>4. CASE t_step # "await"
    BY <1>9, <2>1, <2>3, <2>4 DEF Sntp!Tick, SntpOwn, Sntp!WithinHalfTrip
  <2>5. CASE t_step = "await"
    <3>1. t_asked' = IF t_asked + 1 <= Sntp!Oldest THEN t_asked + 1 ELSE Sntp!Oldest
      BY <1>9, <2>5 DEF Sntp!Tick, Sntp!Least, Sntp!TypeOK
    <3>2. \A b \in t_way' : b.own => b.age <= t_asked'
      BY <2>1, <2>5, <3>1 DEF SntpOwn, Sntp!TypeOK, Sntp!Answers
    <3> QED
      BY <1>9, <2>3, <2>5, <3>2 DEF Sntp!Tick, SntpOwn, Sntp!WithinHalfTrip
  <2> QED
    BY <2>4, <2>5
<1>10. CASE UNCHANGED sntpVars
  BY <1>10 DEF sntpVars, Sntp!TypeOK, SntpOwn, Sntp!WithinHalfTrip
<1> QED
  BY <1>1, <1>2, <1>3, <1>4, <1>5, <1>6, <1>7, <1>8, <1>9, <1>10 DEF Sntp!Next, Sntp!Task

(* --------------------------- the composition ---------------------------- *)

KickstartInv == TableInv /\ SaveInv /\ SntpInv

LEMMA KickstartStart == MCInit => KickstartInv
BY TableInit, SaveInit, SntpInit DEF MCInit, KickstartInv

\* A step is of one part, and a stutter of the others.
LEMMA OneMoves == [MCNext]_allVars => [Web!Next]_webVars /\ [Save!Next]_saveVars /\ [Sntp!Next]_sntpVars
BY DEF MCNext, allVars

LEMMA KickstartStep == KickstartInv /\ [MCNext]_allVars => KickstartInv'
BY OneMoves, TableNext, SaveNext, SntpNext DEF KickstartInv

LEMMA KickstartAlways == MCSpec => []KickstartInv
BY KickstartStart, KickstartStep, PTL DEF MCSpec

\* Every part keeps its types.
THEOREM KickstartTypes == MCSpec => []TypesOK
<1>1. KickstartInv => TypesOK
  BY DEF KickstartInv, TypesOK, TableInv, SaveInv, SntpInv
<1> QED
  BY <1>1, KickstartAlways, PTL

\* auth.rs: a session is accepted for its time, unless it is closed or as many logins as there are
\* slots come after it, and no longer.  sntp.rs: the clock is within half the round trip it was set
\* by, whatever answers to earlier exchanges come beside its own.
THEOREM KickstartTimes == MCSpec => []TimesKept
<1>1. KickstartInv => TimesKept
  BY TableKept DEF KickstartInv, TimesKept, SntpInv
<1> QED
  BY <1>1, KickstartAlways, PTL

\* config.rs: a boot finds the settings as they were or, once their rename has begun, the new ones,
\* and a save that fails before it leaves the file what it was: for any settings, and however often
\* the card fails and the power goes.
THEOREM SettingsWhole == MCSpec => SavedWhole
<1> DEFINE Failing == s_result' \in {"write", "sync", "readback", "mismatch"} /\ s_result = "none" /\ s_step # "idle"
           Left == s_volume'.path = s_volume.path /\ s_card'.path \in s_before
<1>1. KickstartInv /\ [MCNext]_allVars => [Save!OldOrNew']_saveVars
  BY KickstartStep DEF KickstartInv, SaveInv, SaveKnown, SaveAllowed, Save!OldOrNew
<1>2. KickstartInv /\ [MCNext]_allVars => [Failing => Left]_saveVars
  BY OneMoves, SaveFailure DEF KickstartInv
<1>3. MCSpec => [][Save!OldOrNew']_saveVars /\ [][Failing => Left]_saveVars
  BY KickstartAlways, <1>1, <1>2, PTL DEF MCSpec
<1> QED
  BY <1>3 DEF SavedWhole, Save!FailureLeavesOld, saveVars, Save!vars, Save!files

(* ----------------------------- the update ------------------------------- *)

HIDE KickstartAssumption

DistinctFiles == \A b \in Bundles : \A e, f \in b : FatFile(e.path) = FatFile(f.path) => e.path = f.path

-----------------------------------------------------------------------------
(* The inductive invariant *)

\* Before its install an upload has no outcome and has written nothing.
Fresh(u) == pc[u] \in {"idle", "receive", "wait"} => status[u] = 0 /\ wrote[u] = {} /\ current[u] = {}

\* Only the upload that has the volume installs.
Alone(u) == pc[u] \in Applying => card = u /\ \A v \in Upload : pc[v] \in Applying => v = u

\* What is installed is an accepted bundle, and each step of apply is at its entry.
AtEntry(u) == /\ pc[u] \in Applying => Accepts(bundle[u]) /\ bundle[u] \in Bundles /\ status[u] \in {0, 500}
              /\ pc[u] = "look" => current[u] = {}
              /\ pc[u] \in {"write", "verify"} => \E e \in bundle[u] \ left[u] : current[u] = {e}
              /\ pc[u] \in {"look", "write", "verify"} => status[u] = 0
              /\ pc[u] = "sync" => left[u] = {} /\ current[u] = {}

\* As long as nothing failed, what the install has passed is on the card.
Passed(u) == pc[u] \in Applying /\ status[u] = 0 => \A e \in bundle[u] \ (left[u] \cup current[u]) : OnCard(e)

\* The kernel is passed last.
Ordered(u) == pc[u] \in Applying => \A k \in bundle[u] \ left[u] : k.role = "Kernel" => left[u] = {}

\* The kernel is written last.
Commit(u) == pc[u] \in Applying =>
               \A k \in bundle[u] : k.role = "Kernel" /\ FatFile(k.path) \in wrote[u] =>
                 left[u] = {} /\ current[u] \subseteq {k} /\ OthersOnCard(u, k)

UploadInv(u) == Fresh(u) /\ Alone(u) /\ AtEntry(u) /\ Passed(u) /\ Ordered(u) /\ Commit(u)

-----------------------------------------------------------------------------
(* Type correctness.  That an install's entries are its bundle's needs one more  *)
(* fact to be inductive: an idle upload has no bundle yet.                       *)

TypeInv == TypeOK /\ \A u \in Upload : pc[u] = "idle" => bundle[u] = {}

IInv == TypeInv /\ \A u \in Upload : UploadInv(u)

LEMMA HandleType ==
  ASSUME TypeInv, NEW u \in Upload, Handle(u) \/ \E b \in Bundles : Arrive(u, b)
  PROVE  TypeInv'
<1> USE OtaAssumption DEF TypeInv, TypeOK, Status, uploadVars, rebootVars
<1>1. ASSUME NEW b \in Bundles, Arrive(u, b) PROVE TypeInv'
  BY <1>1 DEF Arrive, Goto, Answer, Awake
<1>2. CASE Receive(u)
  BY <1>2 DEF Receive, Goto, Answer, Awake
<1>3. CASE NoCard(u)
  BY <1>3 DEF NoCard, Goto, Answer, Awake
<1>4. CASE Reject(u)
  BY <1>4 DEF Reject, Goto, Answer, Awake
<1>5. CASE Begin(u)
  BY <1>5 DEF Begin, Goto, Awake, Applying
<1>6. CASE Finalize(u)
  BY <1>6 DEF Finalize, Goto, Awake
<1>7. CASE AnswerLeaves(u)
  BY <1>7 DEF AnswerLeaves, Goto, Awake
<1> QED
  BY <1>1, <1>2, <1>3, <1>4, <1>5, <1>6, <1>7 DEF Handle

LEMMA InstallType ==
  ASSUME TypeInv, NEW u \in Upload, Install(u)
  PROVE  TypeInv'
<1> USE OtaAssumption DEF TypeInv, TypeOK, Status, uploadVars, rebootVars
<1>0. \A e \in bundle[u] : FatFile(e.path) \in File /\ e.data \in Content
  BY DEF TypeInv, TypeOK
<1>1. ASSUME NEW e \in left[u], Look(u, e) PROVE TypeInv'
  BY <1>1 DEF Look, Goto, Abandon, Fault, Applying, OnCard
<1>2. ASSUME NEW e \in current[u], Write(u, e) PROVE TypeInv'
  <2>1. FatFile(e.path) \in File /\ e.data \in Content
    BY <1>0
  <2> QED
    BY <1>2, <2>1 DEF Write, Goto, Abandon, Fault, Applying
<1>3. ASSUME NEW e \in current[u], Verify(u, e) PROVE TypeInv'
  BY <1>3 DEF Verify, Goto, Abandon, Fault, Applying
<1>4. CASE InstallDone(u)
  BY <1>4 DEF InstallDone, Goto, Applying
<1>5. CASE Sync(u)
  BY <1>5 DEF Sync, Goto, Answer, Fault
<1> QED
  BY <1>1, <1>2, <1>3, <1>4, <1>5 DEF Install

LEMMA RestartType ==
  ASSUME TypeInv, Restart, faults' \in 0..MaxFaults
  PROVE  TypeInv'
BY OtaAssumption DEF TypeInv, TypeOK, Restart, Status

LEMMA NextType == TypeInv /\ [Next]_vars => TypeInv'
<1> SUFFICES ASSUME TypeInv, [Next]_vars PROVE TypeInv'
  OBVIOUS
<1>1. CASE \E u \in Upload : Handle(u) \/ Install(u) \/ \E b \in Bundles : Arrive(u, b)
  BY <1>1, HandleType, InstallType
<1>2. CASE TakeReport
  BY <1>2 DEF TypeInv, TypeOK, TakeReport, uploadVars
<1>3. CASE Reboot
  BY <1>3, RestartType DEF Reboot, TypeInv, TypeOK
<1>4. CASE PowerCut
  <2>1. faults' \in 0..MaxFaults
    BY <1>4, OtaAssumption DEF PowerCut, Fault, TypeInv, TypeOK
  <2> QED
    BY <1>4, <2>1, RestartType DEF PowerCut
<1>5. CASE UNCHANGED vars
  BY <1>5 DEF vars, uploadVars, rebootVars, TypeInv, TypeOK
<1> QED
  BY <1>1, <1>2, <1>3, <1>4, <1>5 DEF Next, RebootTask

LEMMA InitType == Init => TypeInv
BY OtaAssumption DEF Init, TypeInv, TypeOK, Status

\* The variables of the update keep their types: an install's entries are its bundle's,
\* and every path it writes is a file of the volume.
THEOREM TypeCorrect == Spec => []TypeOK
<1>1. TypeInv => TypeOK
  BY DEF TypeInv
<1> QED
  BY <1>1, InitType, NextType, PTL DEF Spec

-----------------------------------------------------------------------------
(* The invariant of an install *)

LEMMA AppliedBundle ==
  ASSUME IInv, NEW u \in Upload, pc[u] \in Applying
  PROVE  /\ bundle[u] \in Bundles
         /\ Unique(bundle[u])
         /\ \A e, f \in bundle[u] : e.role = "Kernel" /\ f.role = "Kernel" => e = f
BY DEF IInv, UploadInv, AtEntry, Accepts, OneAtMost

\* Outside an install every upload satisfies what the invariant says of installs.
LEMMA AwakeInv ==
  ASSUME \A u \in Upload : pc[u] \notin Applying /\ Fresh(u)
  PROVE  \A u \in Upload : UploadInv(u)
BY DEF UploadInv, Alone, AtEntry, Passed, Ordered, Commit, Applying

LEMMA AwakeInvNext == (\A u \in Upload : pc[u] \notin Applying /\ Fresh(u))' => (\A u \in Upload : UploadInv(u))'
BY AwakeInv, PTL

LEMMA HandleInv ==
  ASSUME IInv, NEW u \in Upload, Handle(u) \/ \E b \in Bundles : Arrive(u, b)
  PROVE  \A v \in Upload : UploadInv(v)'
<1> USE DEF IInv, TypeInv, TypeOK
<1>1. \A v \in Upload : pc[v] \notin Applying /\ Fresh(v)
  BY DEF Handle, Arrive, Receive, NoCard, Reject, Begin, Finalize, AnswerLeaves, Awake, UploadInv
<1>2. CASE Begin(u)
  <2>1. /\ pc' = [pc EXCEPT ![u] = "look"] /\ left' = [left EXCEPT ![u] = bundle[u]] /\ card' = u
        /\ UNCHANGED <<files, bundle, current, wrote, status>>
        /\ pc[u] = "wait" /\ Accepts(bundle[u])
    BY <1>2 DEF Begin, Goto
  <2>2. \A v \in Upload \ {u} : pc'[v] \notin Applying
    BY <1>1, <2>1
  <2>3. pc'[u] = "look" /\ status'[u] = 0 /\ wrote'[u] = {} /\ current'[u] = {} /\ left'[u] = bundle'[u]
    BY <1>1, <2>1 DEF Fresh
  <2>4. bundle[u] \in Bundles
    BY <2>1 DEF Accepts
  <2>5. UploadInv(u)'
    <3>1. Fresh(u)'
      BY <2>3 DEF Fresh
    <3>2. Alone(u)'
      BY <2>1, <2>2 DEF Alone
    <3>3. AtEntry(u)'
      BY <2>1, <2>3, <2>4 DEF AtEntry, Accepts, Applying, Unique, Paired, OneAtMost
    <3>4. Passed(u)' /\ Ordered(u)'
      BY <2>3 DEF Passed, Ordered
    <3>5. Commit(u)'
      BY <2>3 DEF Commit
    <3> QED
      BY <3>1, <3>2, <3>3, <3>4, <3>5 DEF UploadInv
  <2>6. ASSUME NEW v \in Upload \ {u} PROVE UploadInv(v)'
    <3>1. Fresh(v)'
      BY <1>1, <2>1 DEF Fresh
    <3> QED
      BY <2>2, <3>1 DEF UploadInv, Alone, AtEntry, Passed, Ordered, Commit, Applying
  <2> QED
    BY <2>5, <2>6
<1>3. CASE ~Begin(u)
  <2>1. ASSUME NEW b \in Bundles, Arrive(u, b) PROVE \A v \in Upload : pc'[v] \notin Applying /\ Fresh(v)'
    BY <1>1, <2>1 DEF Arrive, Goto, Answer, Fresh, Applying
  <2>2. Handle(u) => \A v \in Upload : pc'[v] \notin Applying /\ Fresh(v)'
    BY <1>1, <1>3 DEF Handle, Receive, NoCard, Reject, Finalize, AnswerLeaves, Goto, Answer, Fresh, Applying
  <2> QED
    BY <2>1, <2>2, AwakeInvNext
<1> QED
  BY <1>2, <1>3

\* An install step of u leaves the other uploads as they are, none of them installing.
LEMMA OthersInv ==
  ASSUME IInv, NEW u \in Upload, pc[u] \in Applying,
         NEW v \in Upload \ {u}, UNCHANGED <<pc[v], status[v], wrote[v], current[v]>>
  PROVE  UploadInv(v)'
<1>1. pc[v] \notin Applying /\ Fresh(v)
  BY DEF IInv, UploadInv, Alone
<1>2. pc'[v] \notin Applying /\ Fresh(v)'
  BY <1>1 DEF Fresh
<1> QED
  BY <1>2 DEF UploadInv, Alone, AtEntry, Passed, Ordered, Commit, Applying

\* A step that goes to sync after an error, having changed no file but perhaps e's.
LEMMA AbandonInv ==
  ASSUME IInv, NEW u \in Upload, pc[u] \in Applying, Abandon(u),
         UNCHANGED <<bundle, card>>,
         Commit(u)'
  PROVE  UploadInv(u)'
<1> USE DEF IInv, TypeInv, TypeOK
<1>1. /\ pc' = [pc EXCEPT ![u] = "sync"] /\ pc'[u] = "sync" /\ status'[u] = 500
      /\ left'[u] = {} /\ current'[u] = {}
  BY DEF Abandon, Goto
<1>2. Fresh(u)'
  BY <1>1 DEF Fresh
<1>3. Alone(u)'
  BY <1>1 DEF UploadInv, Alone
<1>4. AtEntry(u)'
  BY <1>1, AppliedBundle DEF UploadInv, AtEntry
<1>5. Passed(u)' /\ Ordered(u)'
  BY <1>1 DEF Passed, Ordered
<1> QED
  BY <1>2, <1>3, <1>4, <1>5 DEF UploadInv

LEMMA LookInv ==
  ASSUME IInv, NEW u \in Upload, NEW e \in left[u], Look(u, e)
  PROVE  \A v \in Upload : UploadInv(v)'
<1> USE DEF IInv, TypeInv, TypeOK
<1>1. /\ pc[u] = "look" /\ pc[u] \in Applying /\ status[u] = 0 /\ current[u] = {}
      /\ UNCHANGED <<files, bundle, card, wrote>> /\ e \in bundle[u] /\ e \in NextUp(left[u])
  BY DEF Look, Applying, UploadInv, AtEntry
<1>2. Accepts(bundle[u]) /\ bundle[u] \in Bundles
  BY <1>1 DEF UploadInv, AtEntry
<1>3. e.role = "Kernel" => left[u] = {e}
  <2> SUFFICES ASSUME e.role = "Kernel", NEW f \in left[u] PROVE f = e
    OBVIOUS
  <2>1. f \in bundle[u] /\ f.role \in {"File", "Firmware", "Config", "Kernel"}
    BY <1>2, OtaAssumption
  <2>2. f.role = "Kernel"
    BY <1>1, <2>1 DEF NextUp, Rank
  <2> QED
    BY <1>1, <2>1, <2>2, AppliedBundle
<1>4. \A k \in bundle[u] : k.role = "Kernel" /\ FatFile(k.path) \in wrote[u] => FALSE
  BY <1>1 DEF UploadInv, Commit
<1>5. ASSUME NEW v \in Upload \ {u} PROVE UploadInv(v)'
  <2>1. UNCHANGED <<pc[v], status[v], wrote[v], current[v]>>
    BY DEF Look, Abandon, Goto
  <2> QED
    BY <1>1, <2>1, OthersInv
<1>6. Commit(u)'
  BY <1>1, <1>4 DEF Commit
<1>7. CASE Abandon(u)
  BY <1>1, <1>5, <1>6, <1>7, AbandonInv
<1>8. ASSUME left' = [left EXCEPT ![u] = @ \ {e}], UNCHANGED status,
             \/ OnCard(e) /\ UNCHANGED <<pc, current>>
             \/ pc' = [pc EXCEPT ![u] = "write"] /\ current' = [current EXCEPT ![u] = {e}]
      PROVE  UploadInv(u)'
  <2>1. /\ left'[u] = left[u] \ {e} /\ status'[u] = 0
        /\ \/ OnCard(e) /\ pc'[u] = "look" /\ current'[u] = {}
           \/ pc'[u] = "write" /\ current'[u] = {e}
        /\ \A v \in Upload \ {u} : pc'[v] = pc[v]
    BY <1>1, <1>8
  <2>2. Fresh(u)'
    BY <2>1 DEF Fresh
  <2>3. Alone(u)'
    BY <1>1, <2>1 DEF UploadInv, Alone
  <2>4. AtEntry(u)'
    <3>1. Accepts(bundle[u])'
      BY <1>1, <1>2 DEF Accepts, Unique, Paired, OneAtMost
    <3> QED
      BY <1>1, <1>2, <2>1, <3>1 DEF AtEntry
  <2>5. Passed(u)'
    BY <1>1, <2>1 DEF UploadInv, Passed, OnCard
  <2>6. Ordered(u)'
    BY <1>1, <1>3, <2>1 DEF UploadInv, Ordered
  <2> QED
    BY <1>6, <2>2, <2>3, <2>4, <2>5, <2>6 DEF UploadInv
<1> QED
  BY <1>5, <1>7, <1>8 DEF Look, Goto

\* What a write of entry e can change: e's own file, which is no other entry's.
LEMMA WriteInv ==
  ASSUME DistinctFiles, IInv, NEW u \in Upload, NEW e \in current[u], Write(u, e)
  PROVE  \A v \in Upload : UploadInv(v)'
<1> USE DEF IInv, TypeInv, TypeOK
<1> DEFINE f == FatFile(e.path)
<1>1. /\ pc[u] = "write" /\ pc[u] \in Applying /\ status[u] = 0 /\ current[u] = {e}
      /\ UNCHANGED <<bundle, card>> /\ wrote'[u] = wrote[u] \cup {f}
      /\ e \in bundle[u] \ left[u]
  <2>1. pc[u] = "write" /\ wrote' = [wrote EXCEPT ![u] = @ \cup {f}] /\ UNCHANGED <<bundle, card>>
    BY DEF Write
  <2>2. status[u] = 0 /\ current[u] = {e} /\ e \in bundle[u] \ left[u]
    BY <2>1 DEF UploadInv, AtEntry
  <2> QED
    BY <2>1, <2>2 DEF Applying
<1>2. \A o \in bundle[u] \ {e} : FatFile(o.path) # f
  BY <1>1, AppliedBundle DEF DistinctFiles, Unique
<1>3. \A g \in File \ {f} : files'[g] = files[g]
  BY DEF Write
<1>4. \A o \in bundle[u] \ {e} : OnCard(o) => OnCard(o)'
  <2> SUFFICES ASSUME NEW o \in bundle[u] \ {e}, OnCard(o) PROVE OnCard(o)'
    OBVIOUS
  <2>1. FatFile(o.path) \in File \ {f}
    BY <1>1, <1>2, AppliedBundle, OtaAssumption
  <2> QED
    BY <1>3, <2>1 DEF OnCard
<1>5. \A k \in bundle[u] : k.role = "Kernel" /\ FatFile(k.path) \in wrote'[u] => k = e /\ left[u] = {}
  <2> SUFFICES ASSUME NEW k \in bundle[u], k.role = "Kernel", FatFile(k.path) \in wrote'[u]
               PROVE  k = e /\ left[u] = {}
    OBVIOUS
  <2>1. CASE FatFile(k.path) = f
    <3>1. Ordered(u)
      BY DEF UploadInv
    <3>2. k = e
      BY <1>2, <2>1
    <3> QED
      BY <1>1, <3>1, <3>2 DEF Ordered
  <2>2. CASE FatFile(k.path) \in wrote[u]
    <3>1. Commit(u)
      BY DEF UploadInv
    <3>2. left[u] = {} /\ current[u] \subseteq {k}
      BY <1>1, <2>2, <3>1 DEF Commit
    <3> QED
      BY <1>1, <3>2
  <2>3. FatFile(k.path) \in wrote[u] \cup {f}
    BY <1>1
  <2> QED
    BY <2>1, <2>2, <2>3
<1>6. left[u] = {} => \A o \in bundle[u] \ {e} : OnCard(o)'
  <2> SUFFICES ASSUME left[u] = {}, NEW o \in bundle[u] \ {e} PROVE OnCard(o)
    BY <1>4
  <2> QED
    BY <1>1 DEF UploadInv, Passed
<1>7. ASSUME NEW v \in Upload \ {u} PROVE UploadInv(v)'
  <2>1. UNCHANGED <<pc[v], status[v], wrote[v], current[v]>>
    BY DEF Write, Abandon, Goto
  <2> QED
    BY <1>1, <2>1, OthersInv
<1>8. left'[u] \subseteq left[u] /\ current'[u] \subseteq {e}
  BY <1>1 DEF Write, Abandon
<1>9. Commit(u)'
  BY <1>1, <1>5, <1>6, <1>8 DEF Commit, OthersOnCard
<1>10. CASE Abandon(u)
  BY <1>1, <1>7, <1>9, <1>10, AbandonInv
<1>11. ASSUME Goto(u, "verify"), UNCHANGED <<left, current, status>> PROVE UploadInv(u)'
  <2>1. pc'[u] = "verify" /\ \A v \in Upload \ {u} : pc'[v] = pc[v]
    BY <1>11 DEF Goto
  <2>2. Fresh(u)' /\ Alone(u)'
    BY <1>1, <2>1 DEF UploadInv, Fresh, Alone
  <2>3. AtEntry(u)'
    <3>1. Accepts(bundle[u]) /\ bundle[u] \in Bundles
      BY <1>1 DEF UploadInv, AtEntry
    <3>2. Accepts(bundle[u])' /\ bundle'[u] \in Bundles
      BY <1>1, <3>1 DEF Accepts, Unique, Paired, OneAtMost
    <3> QED
      BY <1>1, <1>11, <2>1, <3>2 DEF AtEntry
  <2>4. Passed(u)'
    <3> SUFFICES ASSUME NEW o \in bundle[u] \ (left[u] \cup {e}) PROVE OnCard(o)'
      BY <1>1, <1>11 DEF Passed
    <3> QED
      BY <1>1, <1>4 DEF UploadInv, Passed
  <2>5. Ordered(u)'
    BY <1>1, <1>11 DEF UploadInv, Ordered
  <2> QED
    BY <1>9, <2>2, <2>3, <2>4, <2>5 DEF UploadInv
<1> QED
  BY <1>7, <1>10, <1>11 DEF Write

LEMMA VerifyInv ==
  ASSUME IInv, NEW u \in Upload, NEW e \in current[u], Verify(u, e)
  PROVE  \A v \in Upload : UploadInv(v)'
<1> USE DEF IInv, TypeInv, TypeOK
<1>1. /\ pc[u] = "verify" /\ pc[u] \in Applying /\ status[u] = 0 /\ current[u] = {e}
      /\ UNCHANGED <<files, bundle, card, wrote>> /\ e \in bundle[u] \ left[u]
  <2>1. pc[u] = "verify" /\ UNCHANGED <<files, bundle, card, wrote>>
    BY DEF Verify
  <2>2. status[u] = 0 /\ current[u] = {e} /\ e \in bundle[u] \ left[u]
    BY <2>1 DEF UploadInv, AtEntry
  <2> QED
    BY <2>1, <2>2 DEF Applying
<1>2. ASSUME NEW v \in Upload \ {u} PROVE UploadInv(v)'
  <2>1. UNCHANGED <<pc[v], status[v], wrote[v], current[v]>>
    BY DEF Verify, Abandon, Goto
  <2> QED
    BY <1>1, <2>1, OthersInv
<1>3. left'[u] \subseteq left[u] /\ current'[u] = {}
  BY <1>1 DEF Verify, Abandon
<1>4. Commit(u)'
  BY <1>1, <1>3 DEF UploadInv, Commit, OthersOnCard, OnCard
<1>5. CASE Abandon(u)
  BY <1>1, <1>2, <1>4, <1>5, AbandonInv
<1>6. ASSUME OnCard(e), Goto(u, "look"), UNCHANGED <<left, status>> PROVE UploadInv(u)'
  <2>1. pc'[u] = "look" /\ \A v \in Upload \ {u} : pc'[v] = pc[v]
    BY <1>6 DEF Goto
  <2>2. Fresh(u)' /\ Alone(u)'
    BY <1>1, <2>1 DEF UploadInv, Fresh, Alone
  <2>3. AtEntry(u)'
    <3>1. Accepts(bundle[u]) /\ bundle[u] \in Bundles
      BY <1>1 DEF UploadInv, AtEntry
    <3>2. Accepts(bundle[u])' /\ bundle'[u] \in Bundles
      BY <1>1, <3>1 DEF Accepts, Unique, Paired, OneAtMost
    <3> QED
      BY <1>1, <1>3, <1>6, <2>1, <3>2 DEF AtEntry
  <2>4. Passed(u)'
    BY <1>1, <1>3, <1>6 DEF UploadInv, Passed, OnCard
  <2>5. Ordered(u)'
    BY <1>1, <1>6 DEF UploadInv, Ordered
  <2> QED
    BY <1>4, <2>2, <2>3, <2>4, <2>5 DEF UploadInv
<1> QED
  BY <1>2, <1>5, <1>6 DEF Verify

LEMMA InstallDoneInv ==
  ASSUME IInv, NEW u \in Upload, InstallDone(u)
  PROVE  \A v \in Upload : UploadInv(v)'
<1> USE DEF IInv, TypeInv, TypeOK
<1>1. /\ pc[u] = "look" /\ pc[u] \in Applying /\ left[u] = {} /\ current[u] = {} /\ status[u] = 0
      /\ UNCHANGED <<files, bundle, left, current, wrote, status, card>>
      /\ pc'[u] = "sync" /\ \A v \in Upload \ {u} : pc'[v] = pc[v]
  BY DEF InstallDone, Goto, Applying, UploadInv, AtEntry
<1>2. ASSUME NEW v \in Upload \ {u} PROVE UploadInv(v)'
  BY <1>1, OthersInv
<1>3. Fresh(u)' /\ Alone(u)'
  BY <1>1 DEF UploadInv, Fresh, Alone
<1>4. AtEntry(u)'
  <2>1. Accepts(bundle[u]) /\ bundle[u] \in Bundles
    BY <1>1 DEF UploadInv, AtEntry
  <2>2. Accepts(bundle[u])' /\ bundle'[u] \in Bundles
    BY <1>1, <2>1 DEF Accepts, Unique, Paired, OneAtMost
  <2> QED
    BY <1>1, <2>2 DEF AtEntry
<1>5. Passed(u)' /\ Ordered(u)'
  BY <1>1 DEF UploadInv, Passed, Ordered, OnCard
<1>6. Commit(u)'
  BY <1>1 DEF UploadInv, Commit, OthersOnCard, OnCard
<1> QED
  BY <1>2, <1>3, <1>4, <1>5, <1>6 DEF UploadInv

LEMMA SyncInv ==
  ASSUME IInv, NEW u \in Upload, Sync(u)
  PROVE  \A v \in Upload : UploadInv(v)'
<1> USE DEF IInv, TypeInv, TypeOK
<1>1. pc[u] = "sync" /\ pc'[u] = "finalize" /\ UNCHANGED <<wrote, current>>
      /\ \A v \in Upload \ {u} : pc'[v] = pc[v] /\ status'[v] = status[v]
  BY DEF Sync, Answer, Goto
<1>2. \A v \in Upload : pc'[v] \notin Applying
  BY <1>1 DEF UploadInv, Alone, Applying
<1>3. \A v \in Upload : Fresh(v)'
  BY <1>1 DEF UploadInv, Fresh
<1> QED
  BY <1>2, <1>3, AwakeInvNext

LEMMA NextInv == DistinctFiles /\ IInv /\ [Next]_vars => IInv'
<1> SUFFICES ASSUME DistinctFiles, IInv, [Next]_vars PROVE IInv'
  OBVIOUS
<1>1. TypeInv'
  BY NextType DEF IInv
<1>2. CASE \E u \in Upload : Handle(u) \/ \E b \in Bundles : Arrive(u, b)
  BY <1>1, <1>2, HandleInv DEF IInv
<1>3. CASE \E u \in Upload : Install(u)
  BY <1>1, <1>3, LookInv, WriteInv, VerifyInv, InstallDoneInv, SyncInv DEF Install, IInv
<1>4. CASE TakeReport
  <2>1. \A v \in Upload : pc[v] \notin Applying /\ Fresh(v)
    BY <1>4 DEF TakeReport, Awake, IInv, UploadInv
  <2>2. \A v \in Upload : pc'[v] \notin Applying /\ Fresh(v)'
    BY <1>4, <2>1 DEF TakeReport, uploadVars, Fresh
  <2> QED
    BY <1>1, <2>2, AwakeInvNext DEF IInv
<1>5. CASE Restart
  <2>1. \A v \in Upload : pc'[v] \notin Applying /\ Fresh(v)'
    BY <1>5 DEF Restart, Fresh, Applying
  <2> QED
    BY <1>1, <2>1, AwakeInvNext DEF IInv
<1>6. CASE UNCHANGED vars
  BY <1>1, <1>6 DEF vars, uploadVars, IInv, UploadInv, Fresh, Alone, AtEntry, Passed, Ordered, Commit,
                    OthersOnCard, OnCard, Accepts, Unique, Paired, OneAtMost
<1> QED
  BY <1>2, <1>3, <1>4, <1>5, <1>6 DEF Next, RebootTask, Reboot, PowerCut

LEMMA InitInv == Init => IInv
<1> SUFFICES ASSUME Init PROVE IInv
  OBVIOUS
<1>1. \A u \in Upload : pc[u] \notin Applying /\ Fresh(u)
  BY DEF Init, Fresh, Applying
<1> QED
  BY <1>1, InitType, AwakeInv DEF IInv

-----------------------------------------------------------------------------
(* What the invariant gives *)

\* The kernel is the commit: when no bundle names one file by two paths, an install that
\* has begun to write the kernel has everything else of its bundle on the card.
THEOREM KernelIsTheCommit ==
  ASSUME DistinctFiles
  PROVE  Spec => []CommitLast
<1>1. IInv => CommitLast
  BY DEF IInv, UploadInv, Commit, CommitLast
<1> QED
  BY <1>1, InitInv, NextInv, PTL DEF Spec

\* Only a sync that worked, after an install that did, gives a 200.
LEMMA OkStep ==
  ASSUME IInv, NEW u \in Upload, [Next]_vars, status[u] # 200, status'[u] = 200
  PROVE  Sync(u) /\ status[u] = 0 /\ disk' = files
<1> USE DEF IInv, TypeInv, TypeOK
<1>1. ASSUME NEW v \in Upload, Handle(v) \/ \E b \in Bundles : Arrive(v, b) PROVE FALSE
  BY <1>1 DEF Handle, Arrive, Receive, NoCard, Reject, Begin, Finalize, AnswerLeaves, Answer
<1>2. ASSUME NEW v \in Upload, NEW e \in left[v], Look(v, e) PROVE FALSE
  BY <1>2 DEF Look, Abandon
<1>3. ASSUME NEW v \in Upload, NEW e \in current[v], Write(v, e) \/ Verify(v, e) PROVE FALSE
  BY <1>3 DEF Write, Verify, Abandon
<1>4. ASSUME NEW v \in Upload, InstallDone(v) PROVE FALSE
  BY <1>4 DEF InstallDone
<1>5. ASSUME NEW v \in Upload, Sync(v) PROVE Sync(u) /\ status[u] = 0 /\ disk' = files
  <2>1. v = u
    BY <1>5 DEF Sync, Answer
  <2>2. status[u] \in {0, 500}
    BY <1>5, <2>1 DEF Sync, UploadInv, AtEntry, Applying
  <2> QED
    BY <1>5, <2>1, <2>2 DEF Sync, Answer
<1>6. ASSUME Restart \/ TakeReport \/ UNCHANGED vars PROVE FALSE
  BY <1>6 DEF Restart, TakeReport, vars, uploadVars
<1> QED
  BY <1>1, <1>2, <1>3, <1>4, <1>5, <1>6 DEF Next, Install, RebootTask, Reboot, PowerCut

\* ok in the answer means installed: when no bundle names one file by two paths, an upload
\* is given a 200 only when the card holds every entry of its bundle, synced.
THEOREM OkIsInstalled ==
  ASSUME DistinctFiles
  PROVE  Spec => OkMeansInstalled
<1>1. ASSUME IInv, [Next]_vars,
             NEW u \in Upload, status[u] # 200, status'[u] = 200, NEW e \in bundle[u]
      PROVE  files'[FatFile(e.path)] = e.data /\ disk'[FatFile(e.path)] = e.data
  <2>1. Sync(u) /\ status[u] = 0 /\ disk' = files /\ files' = files
    BY <1>1, OkStep DEF Sync
  <2>2. left[u] = {} /\ current[u] = {} /\ pc[u] \in Applying
    BY <1>1, <2>1 DEF Sync, IInv, UploadInv, AtEntry, Applying
  <2>3. OnCard(e)
    BY <1>1, <2>1, <2>2 DEF IInv, UploadInv, Passed
  <2> QED
    BY <2>1, <2>3 DEF OnCard
<1>2. IInv /\ [Next]_vars =>
        [\A u \in Upload : status[u] # 200 /\ status'[u] = 200 =>
           \A e \in bundle[u] : files'[FatFile(e.path)] = e.data /\ disk'[FatFile(e.path)] = e.data]_vars
  BY <1>1
<1> QED
  BY <1>2, InitInv, NextInv, PTL DEF Spec, OkMeansInstalled

\* The two files of a firmware release go together: when every bundle packs partners of
\* one release and names each file by one path, an upload of a firmware file that is
\* answered with a 200 leaves its partner of the same release on the card.
THEOREM FirmwareTogether ==
  ASSUME DistinctFiles,
         \A b \in Bundles : \A e, g \in b : g.path \in Partner(e.path) => e.data = g.data
  PROVE  Spec => FirmwareInPairs
<1>1. ASSUME IInv, [Next]_vars,
             NEW u \in Upload, status[u] # 200, status'[u] = 200,
             NEW e \in bundle[u], e.role = "Firmware", Partner(e.path) # {}
      PROVE  \E p \in Partner(e.path) : files'[FatFile(p)] = e.data
  <2>1. Sync(u) /\ status[u] = 0 /\ files' = files
    BY <1>1, OkStep DEF Sync
  <2>2. left[u] = {} /\ current[u] = {} /\ pc[u] \in Applying /\ Accepts(bundle[u]) /\ bundle[u] \in Bundles
    BY <1>1, <2>1 DEF Sync, IInv, UploadInv, AtEntry, Applying
  <2>3. PICK g \in bundle[u] : g.role = "Firmware" /\ g.path \in Partner(e.path)
    BY <1>1, <2>2 DEF Accepts, Paired
  <2>4. OnCard(g)
    BY <1>1, <2>1, <2>2 DEF IInv, UploadInv, Passed
  <2>5. g.data = e.data
    BY <2>2, <2>3
  <2> QED
    BY <2>1, <2>3, <2>4, <2>5 DEF OnCard
<1>2. IInv /\ [Next]_vars =>
        [\A u \in Upload : status[u] # 200 /\ status'[u] = 200 =>
           \A e \in bundle[u] : e.role = "Firmware" /\ Partner(e.path) # {} =>
             \E p \in Partner(e.path) : files'[FatFile(p)] = e.data]_vars
  BY <1>1
<1> QED
  BY <1>2, InitInv, NextInv, PTL DEF Spec, FirmwareInPairs
=============================================================================
