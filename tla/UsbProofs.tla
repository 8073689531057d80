------------------------------- MODULE UsbProofs -------------------------------
(***************************************************************************)
(* The safety of MCUsb's parts, for any number of channels, ports, hubs    *)
(* and addresses, any devices and any number of reports.                   *)
(*                                                                         *)
(* The bus.  Address by address, the bitmap is what stands on the ports of *)
(* the hubs in the table (BusUsed); a hub in it hangs on a port of the     *)
(* root hub, and is there still if it answers (BusHubs); what answers to   *)
(* an address is where the address stands or on a port given up, behind a  *)
(* hub that answers (BusAnswers).  That an address is left for whatever    *)
(* arrives is a count: the port it is on shows none, and the table's ports *)
(* are fewer than the addresses.                                           *)
(*                                                                         *)
(* The split poll.  A complete-split is due at most five microframes after *)
(* the start-split (PollWindow); the books of what the device sent, the    *)
(* hub holds and the host handed on tell which toggle each is at           *)
(* (PollBooks).                                                            *)
(*                                                                         *)
(* The channels.  What the handler, the futures and the drops hand to each *)
(* other is a relation between a channel's owner, its slot and its         *)
(* registers (SlotsOwned), and between the two toggles and what has halted *)
(* but is not yet taken (SlotsCounted).  The start-of-frame mask needs     *)
(* nothing but itself.                                                     *)
(***************************************************************************)
EXTENDS MCUsb, Sequences, TLAPS, FiniteSetTheorems, SequenceTheorems, WellFoundedInduction

(* --------------------------------- the bus -------------------------------- *)

HubRecord == [dev: {Root} \cup Hub, address: 1..MaxAddress,
              ports: [Bus!Port -> {Failed} \cup 0..MaxAddress]]
Step == [hub: Bus!Index, port: 1..Ports + 1]
\* A pass is in a sweep, or in the walk of a hub the sweep of the root hub came upon.
Pass(s) == s \in Seq(Step) /\ Len(s) <= 2 /\ (Len(s) = 2 => s[1].hub = 1 /\ s[2].hub # 1)

Site(i, p) == [on |-> b_hubs[i].dev, port |-> p]
\* An address stands on a port of a hub in the table.
Stands(i, p) == Bus!Tracked(i) /\ b_hubs[i].ports[p] \notin {0, Failed}

BusTypes ==
  /\ b_loc \in [Bus!Device -> [on: {Off, Root} \cup Hub, port: 0..Ports]]
  /\ b_at \in [Bus!Device \cup {Root} -> {Off} \cup 0..MaxAddress] /\ \A d \in Bus!Device : b_at[d] # 1
  /\ DOMAIN b_hubs = Bus!Index /\ \A i \in Bus!Index : Bus!Tracked(i) => b_hubs[i] \in HubRecord
  /\ b_used \subseteq 1..MaxAddress
BusPass == Pass(b_stack) /\ \A k \in 1..Len(b_stack) : Bus!Tracked(b_stack[k].hub)
\* Devices are plugged in one to a port, and hubs into the root hub.
BusPlugs ==
  /\ \A d \in Bus!Device : b_loc[d] # Bus!Nowhere =>
       b_loc[d].port \in Bus!Port /\ b_loc[d].on # Off /\ (d \in Hub => b_loc[d].on = Root)
  /\ \A d, e \in Bus!Device : b_loc[d] # Bus!Nowhere /\ b_loc[d] = b_loc[e] => d = e
\* The root hub is in the table if any is, and its address in use.
BusPorts ==
  /\ \A i \in Bus!Index : Bus!Tracked(i) => Bus!Tracked(1)
  /\ Bus!Tracked(1) => b_hubs[1].dev = Root /\ b_hubs[1].address = 1 /\ 1 \in b_used
  /\ \A i \in Bus!Index, p \in Bus!Port : Stands(i, p) => b_hubs[i].ports[p] \in 2..MaxAddress
\* The rest of the bitmap is what stands on the ports, each address on one.
BusUsed ==
  /\ \A a \in 2..MaxAddress :
       a \in b_used <=> \E i \in Bus!Index, p \in Bus!Port : Stands(i, p) /\ b_hubs[i].ports[p] = a
  /\ b_reported = b_used \ {1}
  /\ \A i, j \in Bus!Index, p, q \in Bus!Port :
       Stands(i, p) /\ Stands(j, q) /\ b_hubs[i].ports[p] = b_hubs[j].ports[q] => i = j /\ p = q
\* The port of the root hub that a hub in the table hangs on, and is on still if it answers.
Hangs(i, p) == /\ Stands(1, p) /\ b_hubs[1].ports[p] = b_hubs[i].address
               /\ b_at[b_hubs[i].dev] = b_hubs[i].address => b_loc[b_hubs[i].dev] = Site(1, p)
BusHubs ==
  /\ \A i \in Bus!Index \ {1} : Bus!Tracked(i) => b_hubs[i].dev \in Hub /\ \E p \in Bus!Port : Hangs(i, p)
  /\ \A i, j \in Bus!Index : Bus!Tracked(i) /\ Bus!Tracked(j) /\ i # j => b_hubs[i].address # b_hubs[j].address
\* What answers is behind a hub that answers, on the port its address stands on or on one given up.
Holds(d, i, p) == /\ Bus!Tracked(i) /\ Bus!Answers(i) /\ b_loc[d] = Site(i, p)
                  /\ b_hubs[i].ports[p] = Failed \/ (b_hubs[i].ports[p] = b_at[d] /\ Stands(i, p))
BusAnswers == \A d \in Bus!Device : b_at[d] # Off => \E i \in Bus!Index, p \in Bus!Port : Holds(d, i, p)
BusInv == BusTypes /\ BusPass /\ BusPlugs /\ BusPorts /\ BusUsed /\ BusHubs /\ BusAnswers

-----------------------------------------------------------------------------
LEMMA BusNumbers ==
  /\ Ports \in Nat \ {0} /\ MaxHubs \in Nat \ {0} /\ MaxAddress \in Nat /\ MaxAddress >= 2
  /\ Root \notin Function \cup Hub /\ Function \cap Hub = {}
  /\ Off \notin {Root, Failed} \cup Hub \cup 0..MaxAddress /\ Failed \notin 0..MaxAddress
<1>1. Ports >= 1 /\ MaxHubs >= 1 /\ MaxHubs * Ports < MaxAddress /\ Ports \in Nat /\ MaxHubs \in Nat /\ MaxAddress \in Nat
  BY UsbAssumption DEF UsbAssumption
<1>2. MaxHubs * Ports >= 1
  BY <1>1
<1> QED
  BY <1>1, <1>2, UsbAssumption DEF UsbAssumption

\* A record is not the mark of a vacant place, and a new hub's has nothing on its ports.
LEMMA BusRecords ==
  /\ \A r \in HubRecord : r # Bus!Nowhere
  /\ \A d \in {Root} \cup Hub, a \in 1..MaxAddress :
       /\ Bus!Fresh(d, a) \in HubRecord /\ Bus!Fresh(d, a).dev = d /\ Bus!Fresh(d, a).address = a
       /\ \A p \in Bus!Port : Bus!Fresh(d, a).ports[p] = 0
<1>1. \A r \in HubRecord : r # Bus!Nowhere
  <2> SUFFICES ASSUME NEW r \in HubRecord, r = Bus!Nowhere PROVE FALSE
    OBVIOUS
  <2>1. "dev" \in DOMAIN r
    BY DEF HubRecord
  <2>2. DOMAIN Bus!Nowhere = {"on", "port"}
    BY DEF Bus!Nowhere
  <2> QED
    BY <2>1, <2>2
<1>2. ASSUME NEW d \in {Root} \cup Hub, NEW a \in 1..MaxAddress
      PROVE  /\ Bus!Fresh(d, a) \in HubRecord /\ Bus!Fresh(d, a).dev = d /\ Bus!Fresh(d, a).address = a
             /\ \A p \in Bus!Port : Bus!Fresh(d, a).ports[p] = 0
  BY BusNumbers DEF Bus!Fresh, HubRecord
<1> QED
  BY <1>1, <1>2

LEMMA BusLowest == ASSUME NEW S, S \subseteq Nat, S # {} PROVE Bus!Lowest(S) \in S
<1>1. \E x \in S : \A y \in S : ~(<<y, x>> \in OpToRel(<, Nat))
  BY NatLessThanWellFounded, WFMin, Zenon
<1>2. PICK x \in S : \A y \in S : ~(<<y, x>> \in OpToRel(<, Nat))
  BY <1>1, Zenon
<1>3. \A y \in S : ~(y < x)
  BY <1>2, Zenon DEF OpToRel
<1>4. \A y \in S : x <= y
  BY <1>3
<1> QED
  BY <1>4 DEF Bus!Lowest

\* A table with nothing in it.
LEMMA BusVacant ==
  ASSUME b_hubs = Bus!Vacant, b_used \in {{}, {1}}, b_reported = {}, b_stack = <<>>,
         b_at \in [Bus!Device \cup {Root} -> {Off} \cup 0..MaxAddress], \A d \in Bus!Device : b_at[d] = Off,
         b_loc \in [Bus!Device -> [on: {Off, Root} \cup Hub, port: 0..Ports]], BusPlugs
  PROVE  BusInv
<1> USE BusNumbers
<1>1. DOMAIN b_hubs = Bus!Index /\ \A i \in Bus!Index : ~Bus!Tracked(i)
  BY DEF Bus!Vacant, Bus!Tracked
<1>2. \A i \in Bus!Index, p \in Bus!Port : ~Stands(i, p)
  BY <1>1 DEF Stands
<1>3. 1 \in Bus!Index
  BY DEF Bus!Index
<1>4. BusTypes
  BY <1>1 DEF BusTypes
<1>5. BusPass
  BY DEF BusPass, Pass
<1>6. BusPorts /\ BusUsed
  BY <1>1, <1>2, <1>3 DEF BusPorts, BusUsed
<1>7. BusHubs
  BY <1>1 DEF BusHubs
<1>8. BusAnswers
  BY DEF BusAnswers
<1> QED
  BY <1>4, <1>5, <1>6, <1>7, <1>8 DEF BusInv

LEMMA BusInit == Bus!Init => BusInv
<1> SUFFICES ASSUME Bus!Init PROVE BusInv
  OBVIOUS
<1> USE BusNumbers DEF Bus!Init
<1>1. b_loc \in [Bus!Device -> [on: {Off, Root} \cup Hub, port: 0..Ports]] /\ BusPlugs
  BY DEF BusPlugs, Bus!Nowhere
<1>2. b_at \in [Bus!Device \cup {Root} -> {Off} \cup 0..MaxAddress] /\ \A d \in Bus!Device : b_at[d] = Off
  OBVIOUS
<1> QED
  BY <1>1, <1>2, BusVacant

-----------------------------------------------------------------------------
\* Every path of a pass, from where it stands.
LEMMA BusHere ==
  ASSUME BusInv, b_stack # <<>>
  PROVE  /\ Bus!Here.hub \in Bus!Index /\ Bus!Here.port \in 1..Ports + 1 /\ Bus!Tracked(Bus!Here.hub)
         /\ Len(b_stack) \in {1, 2} /\ (Bus!Here.hub = 1 => Len(b_stack) = 1)
         /\ Pass(Bus!Below) /\ \A k \in 1..Len(Bus!Below) : Bus!Tracked(Bus!Below[k].hub)
<1> USE DEF BusInv, BusPass, Pass, Bus!Here
<1>0. b_stack \in Seq(Step) /\ Len(b_stack) <= 2
  OBVIOUS
<1>1. Len(b_stack) \in {1, 2} /\ b_stack \in Seq(Step)
  <2>1. Len(b_stack) \in Nat /\ Len(b_stack) # 0
    BY <1>0, EmptySeq
  <2>2. \A n \in Nat : n <= 2 /\ n # 0 => n \in {1, 2}
    OBVIOUS
  <2> QED
    BY <1>0, <2>1, <2>2
<1>2. b_stack[Len(b_stack)] \in Step
  BY <1>1
<1>3. Bus!Here.hub \in Bus!Index /\ Bus!Here.port \in 1..Ports + 1 /\ Bus!Tracked(Bus!Here.hub)
  BY <1>1, <1>2 DEF Step
<1>4. Bus!Here.hub = 1 => Len(b_stack) = 1
  BY <1>1
<1>5. Bus!Below \in Seq(Step) /\ Len(Bus!Below) = Len(b_stack) - 1 /\ \A k \in 1..Len(Bus!Below) : Bus!Below[k] = b_stack[k]
  BY <1>1 DEF Bus!Below
<1> QED
  BY <1>1, <1>3, <1>4, <1>5

\* The pass moves on to the next port, or down to the walk of a new hub.
LEMMA BusAdvance ==
  ASSUME BusInv, Bus!Visiting
  PROVE  /\ Pass(Bus!Advance) /\ Len(Bus!Advance) = Len(b_stack)
         /\ \A k \in 1..Len(Bus!Advance) : Bus!Advance[k].hub = b_stack[k].hub
         /\ \A k \in 1..Len(b_stack) : b_stack[k].hub \in {1, Bus!Here.hub}
<1> USE BusNumbers
<1>1. b_stack # <<>> /\ Bus!Here.port \in 1..Ports
  BY DEF Bus!Visiting, Bus!Port
<1>2. Len(b_stack) \in {1, 2} /\ b_stack \in Seq(Step) /\ (Len(b_stack) = 2 => b_stack[1].hub = 1 /\ b_stack[2].hub # 1)
  BY <1>1, BusHere DEF BusInv, BusPass, Pass
<1>3. Bus!Below \in Seq(Step) /\ Len(Bus!Below) = Len(b_stack) - 1 /\ \A k \in 1..Len(Bus!Below) : Bus!Below[k] = b_stack[k]
  BY <1>2 DEF Bus!Below
<1>4. Bus!Frame(Bus!Here.hub, Bus!Here.port + 1) \in Step /\ Bus!Frame(Bus!Here.hub, Bus!Here.port + 1).hub = Bus!Here.hub
  BY <1>1, BusHere DEF Bus!Frame, Step
<1>5. Bus!Advance \in Seq(Step) /\ Len(Bus!Advance) = Len(b_stack)
      /\ \A k \in 1..Len(Bus!Advance) : Bus!Advance[k] = IF k = Len(b_stack) THEN Bus!Frame(Bus!Here.hub, Bus!Here.port + 1)
                                                         ELSE b_stack[k]
  BY <1>2, <1>3, <1>4 DEF Bus!Advance
<1>6. \A k \in 1..Len(Bus!Advance) : Bus!Advance[k].hub = b_stack[k].hub
  BY <1>4, <1>5 DEF Bus!Here
<1>7. \A k \in 1..Len(b_stack) : b_stack[k].hub \in {1, Bus!Here.hub}
  BY <1>2 DEF Bus!Here
<1> QED
  BY <1>2, <1>5, <1>6, <1>7 DEF Pass

LEMMA BusAdvanced ==
  ASSUME BusInv, Bus!Visiting
  PROVE  Pass(Bus!Advance) /\ \A k \in 1..Len(Bus!Advance) : Bus!Tracked(Bus!Advance[k].hub)
<1>1. \A k \in 1..Len(b_stack) : Bus!Tracked(b_stack[k].hub)
  BY DEF BusInv, BusPass
<1> QED
  BY <1>1, BusAdvance

\* A pass wherever it has got to, with the hubs of its path still in the table.
LEMMA BusPassed ==
  ASSUME NEW STATE s, b_stack' = s, Pass(s),
         \A k \in 1..Len(s) : Bus!Tracked(s[k].hub), \A i \in Bus!Index : Bus!Tracked(i) => Bus!Tracked(i)'
  PROVE  BusPass'
<1>1. Pass(b_stack)'
  BY DEF Pass, Step
<1>2. ASSUME NEW k \in 1..Len(s) PROVE Bus!Tracked(s[k].hub) /\ s[k].hub \in Bus!Index
  <2>1. s[k] \in Step
    BY <1>2 DEF Pass
  <2> QED
    BY <1>2, <2>1 DEF Step
<1>3. \A k \in 1..Len(b_stack') : Bus!Tracked(b_stack[k].hub)'
  BY <1>2 DEF Bus!Tracked
<1> QED
  BY <1>1, <1>3 DEF BusPass

\* A step that leaves the table's records, and what stands on their ports, as they were.
SameRecords == /\ DOMAIN b_hubs' = Bus!Index
               /\ \A i \in Bus!Index : /\ Bus!Tracked(i)' <=> Bus!Tracked(i)
                                       /\ Bus!Tracked(i) => /\ b_hubs'[i] \in HubRecord
                                                            /\ b_hubs'[i].dev = b_hubs[i].dev
                                                            /\ b_hubs'[i].address = b_hubs[i].address
SameStands == \A i \in Bus!Index, p \in Bus!Port :
                 /\ Stands(i, p)' <=> Stands(i, p)
                 /\ Stands(i, p) => b_hubs'[i].ports[p] = b_hubs[i].ports[p]

LEMMA BusFrame ==
  ASSUME BusInv, SameRecords, SameStands, UNCHANGED <<b_loc, b_used, b_reported>>,
         b_at' \in [Bus!Device \cup {Root} -> {Off} \cup 0..MaxAddress], \A d \in Bus!Device : b_at'[d] # 1,
         \A i \in Bus!Index \ {1} : Bus!Tracked(i) /\ b_at'[b_hubs[i].dev] = b_hubs[i].address
                                     => b_at[b_hubs[i].dev] = b_hubs[i].address
  PROVE  BusTypes' /\ BusPlugs' /\ BusPorts' /\ BusUsed' /\ BusHubs'
<1> USE BusNumbers DEF BusInv
<1>0. 1 \in Bus!Index
  BY DEF Bus!Index
<1>1. BusTypes'
  BY DEF BusTypes, SameRecords
<1>2. BusPlugs'
  BY DEF BusPlugs
<1>3. BusPorts'
  BY <1>0 DEF BusPorts, SameRecords, SameStands
<1>4. BusUsed'
  BY DEF BusUsed, SameStands
<1>5. \A i \in Bus!Index, p \in Bus!Port : Bus!Tracked(i) => Site(i, p)' = Site(i, p)
  BY DEF Site, SameRecords
<1>6. BusHubs'
  <2>1. ASSUME NEW i \in Bus!Index \ {1}, Bus!Tracked(i)'
        PROVE  b_hubs'[i].dev \in Hub /\ \E p \in Bus!Port : Hangs(i, p)'
    <3>1. Bus!Tracked(i) /\ b_hubs'[i].dev = b_hubs[i].dev /\ b_hubs'[i].address = b_hubs[i].address
      BY <2>1 DEF SameRecords
    <3>2. PICK p \in Bus!Port : Hangs(i, p)
      BY <3>1 DEF BusHubs
    <3>3. Stands(1, p)' /\ b_hubs'[1].ports[p] = b_hubs[1].ports[p] /\ Site(1, p)' = Site(1, p)
      BY <1>0, <1>5, <3>2 DEF SameStands, Hangs, Stands
    <3>4. b_at'[b_hubs[i].dev] = b_hubs[i].address => b_at[b_hubs[i].dev] = b_hubs[i].address
      BY <3>1
    <3> QED
      BY <3>1, <3>2, <3>3, <3>4 DEF BusHubs, Hangs
  <2>2. \A i, j \in Bus!Index : Bus!Tracked(i)' /\ Bus!Tracked(j)' /\ i # j => b_hubs'[i].address # b_hubs'[j].address
    BY DEF SameRecords, BusHubs
  <2> QED
    BY <2>1, <2>2 DEF BusHubs
<1> QED
  BY <1>1, <1>2, <1>3, <1>4, <1>6

\* What answered before, and is where it was, is held as it was.
LEMMA BusHeld ==
  ASSUME BusInv, SameRecords, NEW d \in Bus!Device, NEW i \in Bus!Index, NEW p \in Bus!Port, Holds(d, i, p),
         b_loc'[d] = b_loc[d], b_at'[d] = b_at[d] \/ b_hubs[i].ports[p] = Failed,
         b_at'[b_hubs[i].dev] = b_at[b_hubs[i].dev], b_hubs'[i].ports[p] = b_hubs[i].ports[p]
  PROVE  Holds(d, i, p)'
<1>1. /\ Bus!Tracked(i) /\ Bus!Answers(i) /\ b_loc[d] = Site(i, p)
      /\ b_hubs[i].ports[p] = Failed \/ (b_hubs[i].ports[p] = b_at[d] /\ Stands(i, p))
  BY DEF Holds
<1>2. Bus!Tracked(i)' /\ b_hubs'[i].dev = b_hubs[i].dev /\ b_hubs'[i].address = b_hubs[i].address
  BY <1>1 DEF SameRecords
<1>3. Bus!Answers(i)' /\ Site(i, p)' = Site(i, p)
  BY <1>1, <1>2 DEF Bus!Answers, Site
<1>4. Stands(i, p) => Stands(i, p)'
  BY <1>2 DEF Stands
<1> QED
  BY <1>1, <1>2, <1>3, <1>4 DEF Holds

\* What an entry of a hub's port becomes, and nothing else of the table.
LEMMA BusSetPort ==
  ASSUME BusInv, Bus!Visiting, NEW v \in {Failed} \cup 0..MaxAddress
  PROVE  LET G == Bus!SetPort(Bus!Here.hub, Bus!Here.port, v)
         IN /\ DOMAIN G = Bus!Index /\ \A i \in Bus!Index \ {Bus!Here.hub} : G[i] = b_hubs[i]
            /\ G[Bus!Here.hub] \in HubRecord /\ G[Bus!Here.hub].dev = b_hubs[Bus!Here.hub].dev
            /\ G[Bus!Here.hub].address = b_hubs[Bus!Here.hub].address
            /\ G[Bus!Here.hub].ports[Bus!Here.port] = v
            /\ \A p \in Bus!Port \ {Bus!Here.port} : G[Bus!Here.hub].ports[p] = b_hubs[Bus!Here.hub].ports[p]
<1> DEFINE h == Bus!Here.hub
           q == Bus!Here.port
<1>1. h \in Bus!Index /\ q \in Bus!Port /\ b_hubs[h] \in HubRecord /\ DOMAIN b_hubs = Bus!Index
  BY BusHere DEF Bus!Visiting, BusInv, BusTypes
<1> HIDE DEF h, q
<1>2. Bus!SetPort(h, q, v) = [b_hubs EXCEPT ![h] = [b_hubs[h] EXCEPT !.ports = [b_hubs[h].ports EXCEPT ![q] = v]]]
  BY DEF Bus!SetPort
<1>3. b_hubs[h].ports \in [Bus!Port -> {Failed} \cup 0..MaxAddress]
  BY <1>1 DEF HubRecord
<1>4. [b_hubs[h].ports EXCEPT ![q] = v] \in [Bus!Port -> {Failed} \cup 0..MaxAddress]
  BY <1>1, <1>3
<1>5. [b_hubs[h] EXCEPT !.ports = [b_hubs[h].ports EXCEPT ![q] = v]] \in HubRecord
  BY <1>1, <1>4 DEF HubRecord
<1>6. Bus!SetPort(h, q, v)[h] = [b_hubs[h] EXCEPT !.ports = [b_hubs[h].ports EXCEPT ![q] = v]]
  BY <1>1, <1>2
<1>7. /\ Bus!SetPort(h, q, v)[h].dev = b_hubs[h].dev /\ Bus!SetPort(h, q, v)[h].address = b_hubs[h].address
      /\ Bus!SetPort(h, q, v)[h].ports = [b_hubs[h].ports EXCEPT ![q] = v]
  BY <1>1, <1>6 DEF HubRecord
<1>8. DOMAIN Bus!SetPort(h, q, v) = Bus!Index /\ \A i \in Bus!Index \ {h} : Bus!SetPort(h, q, v)[i] = b_hubs[i]
  BY <1>1, <1>2
<1>9. /\ Bus!SetPort(h, q, v)[h].ports[q] = v
      /\ \A p \in Bus!Port \ {q} : Bus!SetPort(h, q, v)[h].ports[p] = b_hubs[h].ports[p]
  BY <1>1, <1>3, <1>7
<1> QED
  BY <1>5, <1>6, <1>7, <1>8, <1>9 DEF h, q

\* A port that shows no address goes from vacant to failed or back.
LEMMA BusMark ==
  ASSUME BusInv, Bus!Visiting, NEW v \in {0, Failed}, Bus!Seen \in {0, Failed},
         b_hubs' = Bus!SetPort(Bus!Here.hub, Bus!Here.port, v)
  PROVE  SameRecords /\ SameStands
<1> DEFINE h == Bus!Here.hub
           q == Bus!Here.port
<1>0. v \in {Failed} \cup 0..MaxAddress /\ h \in Bus!Index /\ q \in Bus!Port /\ Bus!Tracked(h) /\ b_hubs[h].ports[q] \in {0, Failed}
  BY BusHere, BusNumbers DEF Bus!Visiting, Bus!Seen
<1>1. /\ DOMAIN b_hubs' = Bus!Index /\ \A i \in Bus!Index \ {h} : b_hubs'[i] = b_hubs[i]
      /\ b_hubs'[h] \in HubRecord /\ b_hubs'[h].dev = b_hubs[h].dev /\ b_hubs'[h].address = b_hubs[h].address
      /\ b_hubs'[h].ports[q] = v /\ \A p \in Bus!Port \ {q} : b_hubs'[h].ports[p] = b_hubs[h].ports[p]
  BY <1>0, BusSetPort
<1> HIDE DEF h, q
<1>2. b_hubs'[h] # Bus!Nowhere
  BY <1>1, BusRecords
<1>3. SameRecords
  BY <1>0, <1>1, <1>2 DEF SameRecords, Bus!Tracked, BusInv, BusTypes
<1>4. ASSUME NEW i \in Bus!Index, NEW p \in Bus!Port
      PROVE  (Stands(i, p)' <=> Stands(i, p)) /\ (Stands(i, p) => b_hubs'[i].ports[p] = b_hubs[i].ports[p])
  <2>1. CASE i = h /\ p = q
    BY <1>0, <1>1, <2>1 DEF Stands
  <2>2. CASE i = h /\ p # q
    BY <1>0, <1>1, <1>2, <2>2 DEF Stands, Bus!Tracked
  <2>3. CASE i # h
    BY <1>1, <2>3 DEF Stands, Bus!Tracked
  <2> QED
    BY <2>1, <2>2, <2>3
<1> QED
  BY <1>3, <1>4 DEF SameStands

\* A hub that answers is in the table once, so a device is held by one entry.
LEMMA BusOneSite ==
  ASSUME BusInv, NEW i \in Bus!Index, NEW j \in Bus!Index, NEW p, NEW q, Bus!Tracked(i), Bus!Tracked(j),
         Bus!Answers(i), Bus!Answers(j), Site(i, p) = Site(j, q)
  PROVE  i = j /\ p = q
<1>1. Site(i, p).on = Site(j, q).on /\ Site(i, p).port = Site(j, q).port
  OBVIOUS
<1>2. b_hubs[i].dev = b_hubs[j].dev /\ p = q
  BY <1>1 DEF Site
<1>3. b_hubs[i].address = b_hubs[j].address
  BY <1>2 DEF Bus!Answers
<1> QED
  BY <1>2, <1>3 DEF BusInv, BusHubs

\* What has just arrived on a port answers to nothing, and no record that answers is its.
LEMMA BusArrived ==
  ASSUME BusInv, NEW d \in Bus!Device, Bus!Arrived(d)
  PROVE  /\ b_at[d] = Off /\ b_loc[d] = Site(Bus!Here.hub, Bus!Here.port)
         /\ Bus!Tracked(Bus!Here.hub) /\ Bus!Answers(Bus!Here.hub)
         /\ \A i \in Bus!Index : Bus!Tracked(i) /\ Bus!Answers(i) => b_hubs[i].dev # d
         /\ d \in Hub => Bus!Here.hub = 1
<1> DEFINE h == Bus!Here.hub
           q == Bus!Here.port
<1>0. /\ h \in Bus!Index /\ q \in Bus!Port /\ Bus!Tracked(h) /\ b_hubs[h].ports[q] = 0 /\ b_loc[d] = Site(h, q)
      /\ Bus!Visiting /\ Bus!Answers(h)
  BY BusHere DEF Bus!Arrived, Bus!Visiting, Bus!Seen, Bus!OnPort, Site
<1> HIDE DEF h, q
<1> USE BusNumbers DEF BusInv
<1>3. b_at[d] = Off
  <2> SUFFICES ASSUME b_at[d] # Off PROVE FALSE
    OBVIOUS
  <2>1. PICK i \in Bus!Index, p \in Bus!Port : Holds(d, i, p)
    BY DEF BusAnswers
  <2>2. i = h /\ p = q
    BY <1>0, <2>1, BusOneSite DEF Holds
  <2> QED
    BY <1>0, <2>1, <2>2 DEF Holds, Stands
<1>4. b_loc[d] # Bus!Nowhere /\ b_loc[d].on = b_hubs[h].dev
  <2>1. Site(h, q).on = b_hubs[h].dev /\ Bus!Nowhere.on = Off
    BY DEF Site, Bus!Nowhere
  <2>2. b_hubs[h].dev \in {Root} \cup Hub
    BY <1>0 DEF BusTypes, HubRecord
  <2> QED
    BY <1>0, <2>1, <2>2
<1>5. ASSUME NEW i \in Bus!Index, Bus!Tracked(i), Bus!Answers(i), b_hubs[i].dev = d PROVE FALSE
  <2>1. b_hubs[i].address # Off
    BY <1>5 DEF BusTypes, HubRecord
  <2> QED
    BY <1>3, <1>5, <2>1 DEF Bus!Answers
<1>6. d \in Hub => h = 1
  <2>1. d \in Hub => b_hubs[h].dev = Root
    BY <1>4 DEF BusPlugs
  <2>2. h # 1 => b_hubs[h].dev \in Hub
    BY <1>0 DEF BusHubs
  <2> QED
    BY <2>1, <2>2
<1> QED
  BY <1>0, <1>3, <1>5, <1>6 DEF h, q

-----------------------------------------------------------------------------
\* Hands and cables.
LEMMA BusPlug == ASSUME BusInv, NEW d \in Bus!Device, Bus!Plug(d) PROVE BusInv'
<1> USE BusNumbers DEF BusInv
<1>1. PICK h \in {Root} \cup (IF d \in Function THEN Hub ELSE {}), p \in Bus!Port :
        /\ \A x \in Bus!Device : b_loc[x] # [on |-> h, port |-> p]
        /\ b_loc' = [b_loc EXCEPT ![d] = [on |-> h, port |-> p]]
  BY DEF Bus!Plug
<1>2. b_loc[d] = Bus!Nowhere /\ UNCHANGED <<b_at, b_hubs, b_used, b_reported, b_stack>>
  BY DEF Bus!Plug, Bus!table
<1>3. h \in {Root} \cup Hub /\ (d \in Hub => h = Root) /\ h # Off
  BY <1>1 DEF Bus!Device
<1>4. [on |-> h, port |-> p] \in [on: {Off, Root} \cup Hub, port: 0..Ports]
  BY <1>3 DEF Bus!Port
<1>5. [on |-> h, port |-> p] # Bus!Nowhere
  BY <1>3 DEF Bus!Nowhere
<1>6. b_loc'[d] = [on |-> h, port |-> p] /\ \A x \in Bus!Device \ {d} : b_loc'[x] = b_loc[x]
  BY <1>1 DEF BusTypes
<1>7. b_at[d] = Off
  <2> SUFFICES ASSUME b_at[d] # Off PROVE FALSE
    OBVIOUS
  <2>2. PICK j \in Bus!Index, r \in Bus!Port : Bus!Tracked(j) /\ b_loc[d] = Site(j, r)
    BY DEF BusAnswers, Holds
  <2>3. b_hubs[j].dev = Off
    BY <1>2, <2>2 DEF Site, Bus!Nowhere
  <2>4. b_hubs[j].dev \in {Root} \cup Hub
    BY <2>2 DEF BusTypes, HubRecord
  <2> QED
    BY <2>3, <2>4
<1>8. BusTypes'
  BY <1>1, <1>2, <1>4 DEF BusTypes, Bus!Tracked
<1>9. BusPlugs'
  <2>1. ASSUME NEW x \in Bus!Device, b_loc'[x] # Bus!Nowhere
        PROVE  b_loc'[x].port \in Bus!Port /\ b_loc'[x].on # Off /\ (x \in Hub => b_loc'[x].on = Root)
    BY <1>3, <1>6, <2>1 DEF BusPlugs
  <2>2. ASSUME NEW x \in Bus!Device, NEW y \in Bus!Device, b_loc'[x] # Bus!Nowhere, b_loc'[x] = b_loc'[y]
        PROVE  x = y
    BY <1>1, <1>6, <2>2 DEF BusPlugs
  <2> QED
    BY <2>1, <2>2 DEF BusPlugs
<1>10. BusPass' /\ BusPorts' /\ BusUsed'
  BY <1>2 DEF BusPass, BusPorts, BusUsed, Stands, Bus!Tracked
<1>r. \A i \in Bus!Index, r \in Bus!Port :
         (Bus!Tracked(i)' <=> Bus!Tracked(i)) /\ (Stands(i, r)' <=> Stands(i, r)) /\ Site(i, r)' = Site(i, r)
  BY <1>2 DEF Stands, Site, Bus!Tracked
<1>11. BusHubs'
  <2>1. ASSUME NEW i \in Bus!Index \ {1}, Bus!Tracked(i), b_at[b_hubs[i].dev] = b_hubs[i].address
        PROVE  b_loc'[b_hubs[i].dev] = b_loc[b_hubs[i].dev]
    <3>1. b_hubs[i].dev \in Bus!Device /\ b_hubs[i].address # Off
      BY <2>1 DEF BusHubs, Bus!Device, BusTypes, HubRecord
    <3>2. b_hubs[i].dev # d
      BY <1>7, <2>1, <3>1
    <3> QED
      BY <1>6, <3>1, <3>2
  <2>2. ASSUME NEW i \in Bus!Index \ {1}, NEW r \in Bus!Port, Bus!Tracked(i), Hangs(i, r) PROVE Hangs(i, r)'
    BY <1>2, <2>1, <2>2 DEF Hangs, Stands, Site, Bus!Tracked
  <2>3. \A i \in Bus!Index \ {1} : Bus!Tracked(i)' => b_hubs'[i].dev \in Hub /\ \E r \in Bus!Port : Hangs(i, r)'
    BY <1>2, <1>r, <2>2 DEF BusHubs
  <2>4. \A i, j \in Bus!Index : Bus!Tracked(i)' /\ Bus!Tracked(j)' /\ i # j => b_hubs'[i].address # b_hubs'[j].address
    BY <1>2, <1>r DEF BusHubs
  <2> QED
    BY <2>3, <2>4 DEF BusHubs
<1>12. BusAnswers'
  <2> SUFFICES ASSUME NEW x \in Bus!Device, b_at[x] # Off
               PROVE  \E i \in Bus!Index, q \in Bus!Port : Holds(x, i, q)'
    BY <1>2 DEF BusAnswers
  <2>1. b_loc'[x] = b_loc[x]
    BY <1>6, <1>7
  <2>2. PICK i \in Bus!Index, q \in Bus!Port : Holds(x, i, q)
    BY DEF BusAnswers
  <2>3. Holds(x, i, q)'
    BY <1>2, <2>1, <2>2 DEF Holds, Stands, Site, Bus!Tracked, Bus!Answers
  <2> QED
    BY <2>3
<1> QED
  BY <1>8, <1>9, <1>10, <1>11, <1>12

\* What is behind a hub answers to nothing once it is out.
LEMMA BusUnplug == ASSUME BusInv, NEW d \in Bus!Device, Bus!Unplug(d) PROVE BusInv'
<1> USE BusNumbers DEF BusInv
<1>1. UNCHANGED <<b_hubs, b_used, b_reported, b_stack>>
  BY DEF Bus!Unplug, Bus!table
<1>2. b_loc'[d] = Bus!Nowhere /\ \A x \in Bus!Device \ {d} : b_loc'[x] = b_loc[x]
  BY DEF Bus!Unplug, BusTypes
<1>0. d # Root /\ d \in Bus!Device \cup {Root} /\ Root \notin Bus!Device
  BY DEF Bus!Device
<1>3. b_at' = [x \in Bus!Device \cup {Root} |-> IF x \in Bus!Behind(d) THEN Off ELSE b_at[x]]
  BY DEF Bus!Unplug
<1>a. \A x \in Bus!Device : b_at'[x] = IF x = d \/ b_loc[x].on = d THEN Off ELSE b_at[x]
  BY <1>3 DEF Bus!Behind
<1>b. b_at'[Root] = b_at[Root]
  BY <1>0, <1>3 DEF Bus!Behind
<1>4. BusTypes'
  <2>1. b_loc' \in [Bus!Device -> [on: {Off, Root} \cup Hub, port: 0..Ports]]
    BY DEF Bus!Unplug, BusTypes, Bus!Nowhere
  <2>2. b_at' \in [Bus!Device \cup {Root} -> {Off} \cup 0..MaxAddress]
    BY <1>3 DEF BusTypes
  <2>3. \A x \in Bus!Device : b_at'[x] # 1
    BY <1>a DEF BusTypes
  <2> QED
    BY <1>1, <2>1, <2>2, <2>3 DEF BusTypes, Bus!Tracked
<1>5. BusPlugs'
  BY <1>2 DEF BusPlugs
<1>6. BusPass' /\ BusPorts' /\ BusUsed'
  BY <1>1 DEF BusPass, BusPorts, BusUsed, Stands, Bus!Tracked
<1>7. \A i \in Bus!Index, p \in Bus!Port : Site(i, p).on = b_hubs[i].dev
  BY DEF Site
<1>r. \A i \in Bus!Index, p \in Bus!Port :
         (Bus!Tracked(i)' <=> Bus!Tracked(i)) /\ (Stands(i, p)' <=> Stands(i, p)) /\ Site(i, p)' = Site(i, p)
  BY <1>1 DEF Stands, Site, Bus!Tracked
<1>8. BusHubs'
  <2>1. ASSUME NEW i \in Bus!Index \ {1}, Bus!Tracked(i), b_at'[b_hubs[i].dev] = b_hubs[i].address
        PROVE  b_at[b_hubs[i].dev] = b_hubs[i].address /\ b_loc'[b_hubs[i].dev] = b_loc[b_hubs[i].dev]
    <3>1. b_hubs[i].dev \in Bus!Device /\ b_hubs[i].address # Off
      BY <2>1 DEF BusHubs, Bus!Device, BusTypes, HubRecord
    <3>2. b_hubs[i].dev # d
      BY <1>a, <2>1, <3>1
    <3> QED
      BY <1>2, <1>a, <2>1, <3>1, <3>2
  <2>2. ASSUME NEW i \in Bus!Index \ {1}, NEW r \in Bus!Port, Bus!Tracked(i), Hangs(i, r) PROVE Hangs(i, r)'
    BY <1>1, <2>1, <2>2 DEF Hangs, Stands, Site, Bus!Tracked
  <2>0. b_hubs' = b_hubs /\ \A i \in Bus!Index : Bus!Tracked(i)' <=> Bus!Tracked(i)
    BY <1>1 DEF Bus!Tracked
  <2>3. \A i \in Bus!Index \ {1} : Bus!Tracked(i)' => b_hubs'[i].dev \in Hub /\ \E r \in Bus!Port : Hangs(i, r)'
    BY <2>0, <2>2 DEF BusHubs
  <2>4. \A i, j \in Bus!Index : Bus!Tracked(i)' /\ Bus!Tracked(j)' /\ i # j => b_hubs'[i].address # b_hubs'[j].address
    BY <2>0 DEF BusHubs
  <2> QED
    BY <2>3, <2>4 DEF BusHubs
<1>9. BusAnswers'
  <2> SUFFICES ASSUME NEW x \in Bus!Device, b_at'[x] # Off
               PROVE  \E i \in Bus!Index, p \in Bus!Port : Holds(x, i, p)'
    BY DEF BusAnswers
  <2>1. x # d /\ b_loc[x].on # d /\ b_at'[x] = b_at[x] /\ b_loc'[x] = b_loc[x]
    BY <1>2, <1>a
  <2>2. PICK i \in Bus!Index, p \in Bus!Port : Holds(x, i, p)
    BY <2>1 DEF BusAnswers
  <2>3. Bus!Tracked(i) /\ Bus!Answers(i) /\ b_hubs[i].dev # d
    BY <1>7, <2>1, <2>2 DEF Holds
  <2>4. b_at'[b_hubs[i].dev] = b_at[b_hubs[i].dev]
    <3>1. CASE b_hubs[i].dev = Root
      BY <1>b, <3>1
    <3>2. CASE b_hubs[i].dev # Root
      <4>1. b_hubs[i].dev \in Hub /\ b_hubs[i].dev \in Bus!Device
        BY <2>3, <3>2 DEF BusTypes, HubRecord, Bus!Device
      <4>2. b_loc[b_hubs[i].dev].on # d
        <5> SUFFICES ASSUME b_loc[b_hubs[i].dev].on = d PROVE FALSE
          OBVIOUS
        <5>1. b_at[b_hubs[i].dev] # Off
          BY <2>3 DEF BusTypes, HubRecord, Bus!Answers
        <5>2. PICK j \in Bus!Index, q \in Bus!Port : Bus!Tracked(j) /\ b_loc[b_hubs[i].dev] = Site(j, q)
          BY <4>1, <5>1 DEF BusAnswers, Holds
        <5>3. b_loc[b_hubs[i].dev].on = b_hubs[j].dev /\ b_hubs[j].dev \in {Root} \cup Hub
          BY <1>7, <5>2 DEF BusTypes, HubRecord
        <5>4. b_loc[b_hubs[i].dev] # Bus!Nowhere
          BY <5>3 DEF Bus!Nowhere
        <5> QED
          BY <1>0, <4>1, <5>4 DEF BusPlugs
      <4> QED
        BY <1>a, <2>3, <4>1, <4>2
    <3> QED
      BY <3>1, <3>2
  <2>5. Holds(x, i, p)'
    BY <1>1, <2>1, <2>2, <2>4 DEF Holds, Stands, Site, Bus!Tracked, Bus!Answers
  <2> QED
    BY <2>5
<1> QED
  BY <1>4, <1>5, <1>6, <1>8, <1>9

-----------------------------------------------------------------------------
\* The pass over ports that show what is known of them.
LEMMA BusQuiet == BusInv /\ (Bus!Poll \/ Bus!Leave \/ Bus!Same) => BusInv'
<1> SUFFICES ASSUME BusInv, Bus!Poll \/ Bus!Leave \/ Bus!Same PROVE BusInv'
  OBVIOUS
<1>1. UNCHANGED <<b_loc, b_at, b_hubs, b_used, b_reported>>
  BY DEF Bus!Poll, Bus!Leave, Bus!Same, Bus!table
<1>2. SameRecords /\ SameStands
  BY <1>1 DEF SameRecords, SameStands, Stands, Bus!Tracked, BusInv, BusTypes
<1>3. BusTypes' /\ BusPlugs' /\ BusPorts' /\ BusUsed' /\ BusHubs'
  BY <1>1, <1>2, BusFrame DEF BusInv, BusTypes
<1>9. BusAnswers'
  BY <1>1 DEF BusInv, BusAnswers, Holds, Bus!Tracked, Bus!Answers, Site, Stands
<1>8. \A i \in Bus!Index : Bus!Tracked(i) => Bus!Tracked(i)'
  BY <1>1 DEF Bus!Tracked
<1>4. ASSUME NEW i \in Bus!Index, Bus!Tracked(i), b_stack' = <<Bus!Frame(i, 1)>> PROVE BusPass'
  <2>1. Bus!Frame(i, 1) \in Step /\ Bus!Frame(i, 1).hub = i
    BY BusNumbers DEF Bus!Frame, Step
  <2> DEFINE s == <<Bus!Frame(i, 1)>>
  <2>2. Pass(s) /\ \A k \in 1..Len(s) : s[k].hub = i
    BY <2>1 DEF Pass
  <2> QED
    BY <1>4, <1>8, <2>2, BusPassed
<1>5. ASSUME Bus!Poll PROVE BusPass'
  <2>1. 1 \in Bus!Index /\ Bus!Tracked(1) /\ b_stack' = <<Bus!Frame(1, 1)>>
    BY <1>5, BusNumbers DEF Bus!Poll, Bus!Index
  <2> QED
    BY <1>4, <2>1
<1>6. ASSUME Bus!Leave PROVE BusPass'
  <2>1. b_stack # <<>>
    BY <1>6 DEF Bus!Leave
  <2>2. CASE Len(b_stack) > 1
    <3>1. b_stack' = Bus!Below
      BY <1>6, <2>2 DEF Bus!Leave
    <3> QED
      BY <1>8, <2>1, <3>1, BusHere, BusPassed
  <2>3. CASE ~(Len(b_stack) > 1) /\ Bus!NextHub(Bus!Here.hub) = {}
    <3>1. b_stack' = <<>>
      BY <1>6, <2>3 DEF Bus!Leave
    <3> QED
      BY <3>1 DEF BusPass, Pass
  <2>4. CASE ~(Len(b_stack) > 1) /\ Bus!NextHub(Bus!Here.hub) # {}
    <3>1. Bus!NextHub(Bus!Here.hub) \subseteq Nat
      BY DEF Bus!NextHub, Bus!Index
    <3>2. Bus!Lowest(Bus!NextHub(Bus!Here.hub)) \in Bus!NextHub(Bus!Here.hub)
      BY <2>4, <3>1, BusLowest
    <3>3. b_stack' = <<Bus!Frame(Bus!Lowest(Bus!NextHub(Bus!Here.hub)), 1)>>
      BY <1>6, <2>4 DEF Bus!Leave
    <3> HIDE DEF Bus!Lowest
    <3>4. \A i \in Bus!NextHub(Bus!Here.hub) : i \in Bus!Index /\ Bus!Tracked(i)
      BY DEF Bus!NextHub
    <3> QED
      BY <1>4, <3>2, <3>3, <3>4
  <2> QED
    BY <2>2, <2>3, <2>4
<1>7. ASSUME Bus!Same PROVE BusPass'
  <2>1. b_stack' = Bus!Advance /\ Bus!Visiting
    BY <1>7 DEF Bus!Same
  <2> QED
    BY <1>8, <2>1, BusAdvanced, BusPassed
<1> QED
  BY <1>3, <1>5, <1>6, <1>7, <1>9 DEF BusInv

\* A port found empty again: what was given up there is gone.
LEMMA BusForget == BusInv /\ Bus!Forget => BusInv'
<1> SUFFICES ASSUME BusInv, Bus!Forget PROVE BusInv'
  OBVIOUS
<1>h. PICK h \in Bus!Index, q \in Bus!Port : h = Bus!Here.hub /\ q = Bus!Here.port
  BY BusHere DEF Bus!Forget, Bus!Visiting
<1>1. /\ UNCHANGED <<b_loc, b_at, b_used, b_reported>> /\ Bus!Visiting /\ Bus!Seen \in {0, Failed}
      /\ b_stack' = Bus!Advance /\ b_hubs' = Bus!SetPort(h, q, 0)
  BY <1>h DEF Bus!Forget
<1>2. SameRecords /\ SameStands
  BY <1>h, <1>1, BusMark
<1>3. BusTypes' /\ BusPlugs' /\ BusPorts' /\ BusUsed' /\ BusHubs'
  BY <1>1, <1>2, BusFrame DEF BusInv, BusTypes
<1>4. BusPass'
  BY <1>1, <1>2, BusAdvanced, BusPassed DEF SameRecords
<1>5. \A d \in Bus!Device : b_loc[d] # Site(h, q)
  BY <1>h DEF Bus!Forget, Bus!OnPort, Site
<1>6. \A i \in Bus!Index, p \in Bus!Port : Bus!Tracked(i) /\ ~(i = h /\ p = q) => b_hubs'[i].ports[p] = b_hubs[i].ports[p]
  BY <1>h, <1>1, BusSetPort, BusNumbers
<1>7. BusAnswers'
  <2> SUFFICES ASSUME NEW d \in Bus!Device, b_at[d] # Off
               PROVE  \E i \in Bus!Index, p \in Bus!Port : Holds(d, i, p)'
    BY <1>1 DEF BusAnswers
  <2>1. PICK i \in Bus!Index, p \in Bus!Port : Holds(d, i, p)
    BY DEF BusInv, BusAnswers
  <2>2. ~(i = h /\ p = q) /\ Bus!Tracked(i)
    BY <1>5, <2>1 DEF Holds
  <2>3. Holds(d, i, p)'
    BY <1>1, <1>2, <1>6, <2>1, <2>2, BusHeld
  <2> QED
    BY <2>3
<1> QED
  BY <1>3, <1>4, <1>7 DEF BusInv

\* What is on a port given up: at no address, at 0, or at one that nothing else has, with all at 0.
LEMMA BusGivenUp == ASSUME BusInv, NEW d \in Bus!Device, Bus!ResetFails(d) \/ Bus!ProbeFails(d) PROVE BusInv'
<1> USE BusNumbers DEF BusInv
<1>h. PICK h \in Bus!Index, q \in Bus!Port : h = Bus!Here.hub /\ q = Bus!Here.port
  BY BusHere DEF Bus!ResetFails, Bus!ProbeFails, Bus!Arrived, Bus!Visiting
<1>1. /\ UNCHANGED <<b_loc, b_used, b_reported>> /\ Bus!Visiting /\ Bus!Seen \in {0, Failed} /\ Bus!Arrived(d)
      /\ b_stack' = Bus!Advance /\ b_hubs' = Bus!SetPort(h, q, Failed)
  BY <1>h DEF Bus!ResetFails, Bus!ProbeFails, Bus!Arrived
<1>2. SameRecords /\ SameStands
  BY <1>h, <1>1, BusMark
<1>3. /\ b_at[d] = Off /\ b_loc[d] = Site(h, q) /\ Bus!Tracked(h) /\ Bus!Answers(h)
      /\ \A i \in Bus!Index : Bus!Tracked(i) /\ Bus!Answers(i) => b_hubs[i].dev # d
  BY <1>h, <1>1, BusArrived
<1>4. \/ b_at' = [b_at EXCEPT ![d] = Off]
      \/ \E a \in 2..MaxAddress \ b_used : b_at' \in {[b_at EXCEPT ![d] = Off], [b_at EXCEPT ![d] = 0], Bus!Addressed(d, a)}
  <2>1. CASE Bus!ResetFails(d)
    BY <2>1 DEF Bus!ResetFails
  <2>2. CASE Bus!ProbeFails(d)
    <3>1. Bus!FreeAddresses # {} /\ Bus!FreeAddresses \subseteq Nat
      BY <2>2 DEF Bus!ProbeFails, Bus!FreeAddresses
    <3>2. PICK a : a = Bus!Lowest(Bus!FreeAddresses)
      OBVIOUS
    <3>3. a \in Bus!FreeAddresses
      BY <3>1, <3>2, BusLowest
    <3>4. 1 \in b_used
      BY <1>3 DEF BusPorts
    <3>5. a \in 2..MaxAddress \ b_used
      BY <3>3, <3>4 DEF Bus!FreeAddresses
    <3>6. b_at' \in {[b_at EXCEPT ![d] = Off], [b_at EXCEPT ![d] = 0], Bus!Addressed(d, a)}
      BY <2>2, <3>2 DEF Bus!ProbeFails
    <3> QED
      BY <3>5, <3>6
  <2> QED
    BY <2>1, <2>2
\* At an address it was not at, only what was at none or at 0.
<1>5. PICK a \in 2..MaxAddress \cup {Off} :
        /\ a \notin b_used
        /\ b_at' \in [Bus!Device \cup {Root} -> {Off} \cup 0..MaxAddress]
        /\ \A x \in Bus!Device \cup {Root} : b_at'[x] = b_at[x] \/ ((x = d \/ b_at[x] = 0) /\ b_at'[x] \in {Off, 0, a})
  <2>1. Off \notin b_used /\ b_at \in [Bus!Device \cup {Root} -> {Off} \cup 0..MaxAddress]
    <3>1. b_used \subseteq 0..MaxAddress /\ b_at \in [Bus!Device \cup {Root} -> {Off} \cup 0..MaxAddress]
      BY DEF BusTypes
    <3> QED
      BY <3>1
  <2>2. CASE b_at' = [b_at EXCEPT ![d] = Off]
    <3>1. b_at' \in [Bus!Device \cup {Root} -> {Off} \cup 0..MaxAddress]
      BY <2>1, <2>2
    <3>3. \A x \in Bus!Device \cup {Root} : b_at'[x] = b_at[x] \/ (x = d /\ b_at'[x] = Off)
      BY <2>1, <2>2
    <3>2. Off \in 2..MaxAddress \cup {Off}
      OBVIOUS
    <3> QED
      BY <2>1, <3>1, <3>2, <3>3
  <2>3. CASE b_at' # [b_at EXCEPT ![d] = Off]
    <3>1. PICK a \in 2..MaxAddress \ b_used : b_at' \in {[b_at EXCEPT ![d] = 0], Bus!Addressed(d, a)}
      BY <1>4, <2>3
    <3>2. b_at' \in [Bus!Device \cup {Root} -> {Off} \cup 0..MaxAddress]
      BY <3>1 DEF BusTypes, Bus!Addressed
    <3>3. \A x \in Bus!Device \cup {Root} : b_at'[x] = b_at[x] \/ ((x = d \/ b_at[x] = 0) /\ b_at'[x] \in {Off, 0, a})
      BY <3>1 DEF BusTypes, Bus!Addressed
    <3> QED
      BY <3>1, <3>2, <3>3
  <2> QED
    BY <2>2, <2>3
<1>6. \A x \in Bus!Device : b_at'[x] # 1
  BY <1>5 DEF BusTypes, Bus!Device
<1>7. ASSUME NEW i \in Bus!Index, Bus!Tracked(i)
      PROVE  /\ b_hubs[i].dev \in Bus!Device \cup {Root} /\ b_hubs[i].address \notin {Off, 0, a}
             /\ b_at'[b_hubs[i].dev] = b_hubs[i].address <=> Bus!Answers(i)
  <2>1. b_hubs[i].dev \in Bus!Device \cup {Root} /\ b_hubs[i].address \in 1..MaxAddress
    BY <1>7 DEF BusTypes, HubRecord, Bus!Device
  <2>2. b_hubs[i].address \in b_used
    <3>1. CASE i = 1
      BY <1>7, <3>1 DEF BusPorts
    <3>2. CASE i # 1
      <4>1. PICK p \in Bus!Port : Stands(1, p) /\ b_hubs[1].ports[p] = b_hubs[i].address
        BY <1>7, <3>2 DEF BusHubs, Hangs
      <4>2. b_hubs[i].address \in 2..MaxAddress /\ 1 \in Bus!Index
        BY <4>1 DEF BusPorts, Bus!Index
      <4> QED
        BY <4>1, <4>2 DEF BusUsed
    <3> QED
      BY <3>1, <3>2
  <2>3. b_hubs[i].address \notin {Off, 0, a}
    BY <1>5, <2>1, <2>2
  <2>4. b_at'[b_hubs[i].dev] = b_hubs[i].address => b_at[b_hubs[i].dev] = b_hubs[i].address
    BY <1>5, <2>1, <2>3
  <2>5. Bus!Answers(i) => b_hubs[i].dev # d /\ b_at[b_hubs[i].dev] # 0
    BY <1>3, <1>7, <2>3 DEF Bus!Answers
  <2>6. Bus!Answers(i) => b_at'[b_hubs[i].dev] = b_hubs[i].address
    BY <1>5, <2>1, <2>5 DEF Bus!Answers
  <2> QED
    BY <2>1, <2>3, <2>4, <2>6 DEF Bus!Answers
<1>8. BusTypes' /\ BusPlugs' /\ BusPorts' /\ BusUsed' /\ BusHubs'
  BY <1>1, <1>2, <1>5, <1>6, <1>7, BusFrame DEF Bus!Answers
<1>9. BusPass'
  BY <1>1, <1>2, BusAdvanced, BusPassed DEF SameRecords
<1>10. /\ b_hubs'[h].ports[q] = Failed
       /\ \A i \in Bus!Index, p \in Bus!Port : Bus!Tracked(i) /\ ~(i = h /\ p = q) => b_hubs'[i].ports[p] = b_hubs[i].ports[p]
  BY <1>h, <1>1, BusSetPort
<1>11. Holds(d, h, q)'
  <2>1. Bus!Tracked(h)' /\ b_hubs'[h].dev = b_hubs[h].dev /\ b_hubs'[h].address = b_hubs[h].address
    BY <1>2, <1>3 DEF SameRecords
  <2>2. Bus!Answers(h)' /\ Site(h, q)' = Site(h, q)
    BY <1>3, <1>7, <2>1 DEF Bus!Answers, Site
  <2> QED
    BY <1>1, <1>3, <1>10, <2>1, <2>2 DEF Holds
<1>12. BusAnswers'
  <2> SUFFICES ASSUME NEW x \in Bus!Device, b_at'[x] # Off, x # d
               PROVE  \E i \in Bus!Index, p \in Bus!Port : Holds(x, i, p)'
    BY <1>11 DEF BusAnswers
  <2>1. b_at[x] # Off /\ (b_at'[x] = b_at[x] \/ b_at[x] = 0)
    BY <1>5
  <2>2. PICK i \in Bus!Index, p \in Bus!Port : Holds(x, i, p)
    BY <2>1 DEF BusAnswers
  <2>3. Bus!Tracked(i) /\ Bus!Answers(i) /\ b_loc[x] = Site(i, p)
        /\ (b_hubs[i].ports[p] = Failed \/ (b_hubs[i].ports[p] = b_at[x] /\ b_hubs[i].ports[p] # 0))
    BY <2>2 DEF Holds, Stands
  <2>4. ~(i = h /\ p = q)
    <3>1. Site(h, q) # Bus!Nowhere
      <4>1. Site(h, q).port = q /\ Bus!Nowhere.port = 0 /\ q # 0
        BY DEF Site, Bus!Nowhere, Bus!Port
      <4> QED
        BY <4>1
    <3> QED
      BY <1>3, <2>3, <3>1 DEF BusPlugs
  <2>5. b_at'[x] = b_at[x] \/ b_hubs[i].ports[p] = Failed
    BY <2>1, <2>3
  <2>6. b_at'[b_hubs[i].dev] = b_at[b_hubs[i].dev]
    BY <1>7, <2>3 DEF Bus!Answers
  <2>7. Holds(x, i, p)'
    BY <1>1, <1>2, <1>10, <2>2, <2>3, <2>4, <2>5, <2>6, BusHeld
  <2> QED
    BY <2>7
<1> QED
  BY <1>8, <1>9, <1>12

\* The root port reset: the root hub alone in the table, or nothing, or what was there and answers no more.
LEMMA BusEnumerate == BusInv /\ Bus!Enumerate => BusInv'
<1> SUFFICES ASSUME BusInv, Bus!Enumerate PROVE BusInv'
  OBVIOUS
<1> USE BusNumbers DEF Bus!Enumerate
<1>1. 1 \in Bus!Index /\ Bus!Fresh(Root, 1) \in HubRecord /\ Bus!Fresh(Root, 1) # Bus!Nowhere
      /\ Bus!Fresh(Root, 1).dev = Root /\ Bus!Fresh(Root, 1).address = 1
      /\ \A p \in Bus!Port : Bus!Fresh(Root, 1).ports[p] = 0
  BY BusRecords DEF Bus!Index
<1>2. /\ DOMAIN b_hubs' = Bus!Index /\ b_hubs'[1] = Bus!Fresh(Root, 1)
      /\ \A i \in Bus!Index \ {1} : b_hubs'[i] = Bus!Nowhere
  BY <1>1 DEF Bus!Vacant
<1>3. \A i \in Bus!Index, p \in Bus!Port : ~Stands(i, p)'
  BY <1>1, <1>2 DEF Stands, Bus!Tracked
<1>a. /\ b_at' \in [Bus!Device \cup {Root} -> {Off} \cup 0..MaxAddress]
      /\ \A d \in Bus!Device : b_at'[d] = Off
  BY DEF Bus!Device
<1>4. BusTypes' /\ BusPlugs'
  BY <1>1, <1>2, <1>a DEF BusInv, BusTypes, BusPlugs, Bus!Tracked
<1>5. BusPass'
  BY <1>1, <1>2 DEF BusPass, Pass, Bus!Frame, Step, Bus!Tracked
<1>6. BusPorts' /\ BusUsed'
  BY <1>1, <1>2, <1>3 DEF BusPorts, BusUsed, Bus!Tracked
<1>7. BusHubs' /\ BusAnswers'
  BY <1>2, <1>3, <1>a DEF BusHubs, BusAnswers, Bus!Tracked
<1> QED
  BY <1>4, <1>5, <1>6, <1>7 DEF BusInv

LEMMA BusEnumerateFails == BusInv /\ Bus!EnumerateFails => BusInv'
<1> SUFFICES ASSUME BusInv, Bus!EnumerateFails PROVE BusInv'
  OBVIOUS
<1> USE BusNumbers
<1>1. /\ b_at' \in [Bus!Device \cup {Root} -> {Off} \cup 0..MaxAddress]
      /\ \A d \in Bus!Device : b_at'[d] = Off
  BY DEF Bus!EnumerateFails, Bus!Device
<1>2. UNCHANGED <<b_loc, b_stack>> /\ b_stack = <<>>
  BY DEF Bus!EnumerateFails
<1>3. BusPlugs'
  BY <1>2 DEF BusInv, BusPlugs
<1>4. CASE UNCHANGED <<b_hubs, b_used, b_reported>>
  <2>1. SameRecords /\ SameStands
    BY <1>4 DEF SameRecords, SameStands, Stands, Bus!Tracked, BusInv, BusTypes
  <2>2. \A i \in Bus!Index \ {1} : Bus!Tracked(i) => b_at'[b_hubs[i].dev] # b_hubs[i].address
    BY <1>1 DEF BusInv, BusHubs, BusTypes, HubRecord, Bus!Device
  <2>3. BusTypes' /\ BusPlugs' /\ BusPorts' /\ BusUsed' /\ BusHubs'
    BY <1>1, <1>2, <1>4, <2>1, <2>2, BusFrame
  <2>4. BusPass'
    BY <1>2 DEF BusPass, Pass
  <2>5. BusAnswers'
    BY <1>1 DEF BusAnswers
  <2> QED
    BY <2>3, <2>4, <2>5 DEF BusInv
<1>5. CASE b_hubs' = Bus!Vacant /\ b_used' \in {{}, {1}} /\ b_reported' = {}
  <2>1. DOMAIN b_hubs' = Bus!Index /\ \A i \in Bus!Index : b_hubs'[i] = Bus!Nowhere
    BY <1>5 DEF Bus!Vacant
  <2>2. \A i \in Bus!Index : ~Bus!Tracked(i)'
    BY <2>1 DEF Bus!Tracked
  <2>3. \A i \in Bus!Index, p \in Bus!Port : ~Stands(i, p)'
    BY <2>2 DEF Stands
  <2>4. BusTypes'
    BY <1>1, <1>2, <1>5, <2>1, <2>2 DEF BusInv, BusTypes
  <2>5. BusPass'
    BY <1>2 DEF BusPass, Pass
  <2>6. 1 \in Bus!Index
    BY DEF Bus!Index
  <2>7. BusPorts' /\ BusUsed'
    BY <1>5, <2>2, <2>3, <2>6 DEF BusPorts, BusUsed
  <2>8. BusHubs' /\ BusAnswers'
    BY <1>1, <2>2 DEF BusHubs, BusAnswers
  <2> QED
    BY <1>3, <2>4, <2>5, <2>7, <2>8 DEF BusInv
<1> QED
  BY <1>4, <1>5 DEF Bus!EnumerateFails, Bus!table

-----------------------------------------------------------------------------
\* The walk of a new hub, above the sweep it was met on.
LEMMA BusAppended ==
  ASSUME NEW S, NEW w \in Seq(S), NEW e \in S
  PROVE  Len(w) = 1 => Append(w, e) \in Seq(S) /\ Len(Append(w, e)) = 2 /\ Append(w, e)[1] = w[1] /\ Append(w, e)[2] = e
<1>1. Append(w, e) \in Seq(S)
  OBVIOUS
<1>2. Len(Append(w, e)) = Len(w) + 1
  OBVIOUS
<1>3. (\A i \in 1..Len(w) : Append(w, e)[i] = w[i]) /\ Append(w, e)[Len(w) + 1] = e
  OBVIOUS
<1> QED
  <2> DEFINE t == Append(w, e)
             n == Len(w)
  <2> HIDE DEF t, n
  <2>1. t \in Seq(S) /\ Len(t) = n + 1 /\ (\A i \in 1..n : t[i] = w[i]) /\ t[n + 1] = e
    BY <1>1, <1>2, <1>3 DEF t, n
  <2>2. n = 1 => Len(t) = 2 /\ t[1] = w[1] /\ t[2] = e
    BY <2>1
  <2> QED
    BY <2>1, <2>2 DEF t, n

\* A device with an address of its own, and its record if it is a hub that is filed.
LEMMA BusAttach == ASSUME BusInv, NEW d \in Bus!Device, Bus!Attach(d) PROVE BusInv'
<1> USE BusNumbers DEF BusInv
<1>0. Bus!Arrived(d) /\ Bus!Visiting /\ Bus!FreeAddresses # {} /\ b_stack # <<>>
  BY DEF Bus!Attach, Bus!Arrived, Bus!Visiting
<1>h. PICK h \in Bus!Index, q \in Bus!Port : h = Bus!Here.hub /\ q = Bus!Here.port
  BY <1>0, BusHere DEF Bus!Visiting
<1>a. PICK a : a = Bus!Lowest(Bus!FreeAddresses)
  OBVIOUS
<1>n. PICK n : n = Bus!Lowest(Bus!FreeIndexes)
  OBVIOUS
<1> DEFINE known == Bus!SetPort(h, q, a)
           filed == d \in Hub /\ Bus!FreeIndexes # {} /\ b_hubs' = [known EXCEPT ![n] = Bus!Fresh(d, a)]
<1>1. /\ b_at' = Bus!Addressed(d, a) /\ b_used' = b_used \cup {a} /\ b_reported' = b_reported \cup {a}
      /\ UNCHANGED b_loc
      /\ \/ b_hubs' = known /\ b_stack' \in {<<>>, Bus!Advance}
         \/ filed /\ b_stack' = Append(Bus!Advance, Bus!Frame(n, 1))
  BY <1>h, <1>a, <1>n DEF Bus!Attach
<1>2. a \in 2..MaxAddress /\ a \notin b_used
  <2>1. a \in Bus!FreeAddresses
    BY <1>0, <1>a, BusLowest DEF Bus!FreeAddresses
  <2>2. 1 \in b_used
    BY <1>0, <1>h, BusArrived DEF BusPorts
  <2> QED
    BY <2>1, <2>2 DEF Bus!FreeAddresses
<1>3. /\ h \in Bus!Index /\ q \in Bus!Port /\ Bus!Tracked(h) /\ b_hubs[h].ports[q] = 0 /\ b_loc[d] = Site(h, q)
      /\ b_at[d] = Off /\ Bus!Answers(h) /\ (\A i \in Bus!Index : Bus!Tracked(i) /\ Bus!Answers(i) => b_hubs[i].dev # d)
      /\ (d \in Hub => h = 1) /\ 1 \in Bus!Index /\ Bus!Tracked(1)
  <2>1. /\ h \in Bus!Index /\ q \in Bus!Port /\ b_hubs[h].ports[q] = 0 /\ 1 \in Bus!Index
    BY <1>0, <1>h, BusHere DEF Bus!Arrived, Bus!Visiting, Bus!Seen, Bus!Index
  <2>2. Bus!Tracked(h) => Bus!Tracked(1)
    BY DEF BusPorts
  <2> QED
    BY <1>0, <1>h, <2>1, <2>2, BusArrived
<1>4. filed => n \in Bus!Index /\ ~Bus!Tracked(n) /\ n # h /\ n # 1
  <2>1. Bus!FreeIndexes \subseteq Nat
    BY DEF Bus!FreeIndexes, Bus!Index
  <2>2. filed => n \in Bus!FreeIndexes
    BY <1>n, <2>1, BusLowest
  <2> QED
    BY <1>3, <2>2 DEF Bus!FreeIndexes, BusPorts
<1>5. /\ DOMAIN known = Bus!Index /\ \A i \in Bus!Index \ {h} : known[i] = b_hubs[i]
      /\ known[h] \in HubRecord /\ known[h].dev = b_hubs[h].dev /\ known[h].address = b_hubs[h].address
      /\ known[h].ports[q] = a /\ \A p \in Bus!Port \ {q} : known[h].ports[p] = b_hubs[h].ports[p]
  <2>1. a \in {Failed} \cup 0..MaxAddress
    BY <1>2
  <2> QED
    BY <1>0, <1>h, <2>1, BusSetPort
<1> HIDE DEF known
<1>6. \/ b_hubs' = known /\ b_stack' \in {<<>>, Bus!Advance}
      \/ filed /\ b_stack' = Append(Bus!Advance, Bus!Frame(n, 1))
  BY <1>1
<1>7. /\ DOMAIN b_hubs' = Bus!Index
      /\ \A i \in Bus!Index \ {h} : ~(filed /\ i = n) => b_hubs'[i] = b_hubs[i]
      /\ b_hubs'[h] = known[h]
      /\ filed => b_hubs'[n] = Bus!Fresh(d, a)
  BY <1>3, <1>4, <1>5, <1>6
<1>8. filed => /\ b_hubs'[n] \in HubRecord /\ b_hubs'[n].dev = d /\ b_hubs'[n].address = a
               /\ \A p \in Bus!Port : b_hubs'[n].ports[p] = 0
  BY <1>2, <1>7, BusRecords
<1> HIDE DEF filed
\* The records, and what stands where, after it.
<1>9. ASSUME NEW i \in Bus!Index
      PROVE  /\ Bus!Tracked(i)' <=> (Bus!Tracked(i) \/ (filed /\ i = n))
             /\ Bus!Tracked(i)' => b_hubs'[i] \in HubRecord
             /\ Bus!Tracked(i) => b_hubs'[i].dev = b_hubs[i].dev /\ b_hubs'[i].address = b_hubs[i].address
  <2>1. CASE i = h
    BY <1>3, <1>4, <1>5, <1>7, <2>1, BusRecords DEF Bus!Tracked
  <2>2. CASE filed /\ i = n
    BY <1>4, <1>8, <2>2, BusRecords DEF Bus!Tracked
  <2>3. CASE i # h /\ ~(filed /\ i = n)
    BY <1>7, <2>3 DEF Bus!Tracked, BusTypes
  <2> QED
    BY <2>1, <2>2, <2>3
<1>10. ASSUME NEW i \in Bus!Index, NEW p \in Bus!Port
       PROVE  /\ Stands(i, p)' <=> (Stands(i, p) \/ (i = h /\ p = q))
              /\ Stands(i, p) => b_hubs'[i].ports[p] = b_hubs[i].ports[p] /\ ~(i = h /\ p = q)
              /\ (i = h /\ p = q) => b_hubs'[i].ports[p] = a
  <2>0. ~Stands(h, q)
    BY <1>3 DEF Stands
  <2>1. CASE i = h /\ p = q
    BY <1>2, <1>3, <1>5, <1>7, <1>9, <2>0, <2>1 DEF Stands
  <2>2. CASE i = h /\ p # q
    BY <1>3, <1>5, <1>7, <1>9, <2>2 DEF Stands
  <2>3. CASE filed /\ i = n
    BY <1>4, <1>8, <2>3 DEF Stands
  <2>4. CASE i # h /\ ~(filed /\ i = n)
    BY <1>7, <1>9, <2>4 DEF Stands
  <2> QED
    BY <2>1, <2>2, <2>3, <2>4
<1>11. \A x \in Bus!Device \cup {Root} : b_at'[x] = IF x = d \/ b_at[x] = 0 THEN a ELSE b_at[x]
  BY <1>1 DEF Bus!Addressed
<1>12. BusTypes'
  <2>1. b_at' \in [Bus!Device \cup {Root} -> {Off} \cup 0..MaxAddress]
    BY <1>1, <1>2 DEF BusTypes, Bus!Addressed
  <2>2. \A x \in Bus!Device : b_at'[x] # 1
    BY <1>2, <1>11 DEF BusTypes, Bus!Device
  <2>3. b_used' \subseteq 1..MaxAddress
    BY <1>1, <1>2 DEF BusTypes
  <2> QED
    BY <1>1, <1>7, <1>9, <2>1, <2>2, <2>3 DEF BusTypes
<1>13. BusPlugs'
  BY <1>1 DEF BusPlugs
<1>14. BusPorts'
  <2>1. \A i \in Bus!Index, p \in Bus!Port : Stands(i, p)' => b_hubs'[i].ports[p] \in 2..MaxAddress
    BY <1>2, <1>10 DEF BusPorts
  <2>2. Bus!Tracked(1)' /\ b_hubs'[1].dev = Root /\ b_hubs'[1].address = 1 /\ 1 \in b_used'
    BY <1>1, <1>3, <1>9 DEF BusPorts
  <2> QED
    BY <2>1, <2>2 DEF BusPorts
<1>15. BusUsed'
  <2>1. ASSUME NEW b \in 2..MaxAddress
        PROVE  b \in b_used' <=> \E i \in Bus!Index, p \in Bus!Port : Stands(i, p)' /\ b_hubs'[i].ports[p] = b
    <3>1. CASE b = a
      BY <1>1, <1>3, <1>10, <3>1
    <3>2. CASE b # a
      BY <1>1, <1>10, <3>2 DEF BusUsed
    <3> QED
      BY <3>1, <3>2
  <2>2. b_reported' = b_used' \ {1}
    BY <1>1, <1>2 DEF BusUsed
  <2>3. \A i \in Bus!Index, p \in Bus!Port : Stands(i, p) => b_hubs[i].ports[p] # a
    BY <1>2 DEF BusUsed, BusPorts
  <2>4. ASSUME NEW i \in Bus!Index, NEW j \in Bus!Index, NEW p \in Bus!Port, NEW r \in Bus!Port,
               Stands(i, p)', Stands(j, r)', b_hubs'[i].ports[p] = b_hubs'[j].ports[r]
        PROVE  i = j /\ p = r
    <3>1. CASE Stands(i, p) /\ Stands(j, r)
      BY <1>10, <2>4, <3>1 DEF BusUsed
    <3>2. CASE ~(Stands(i, p) /\ Stands(j, r))
      BY <1>10, <2>3, <2>4, <3>2
    <3> QED
      BY <3>1, <3>2
  <2> QED
    BY <2>1, <2>2, <2>4 DEF BusUsed
<1>16. \A i \in Bus!Index, p \in Bus!Port : Bus!Tracked(i) => Site(i, p)' = Site(i, p)
  BY <1>9 DEF Site
\* No record has the address; those that answer are left as they were.
<1>b. ASSUME NEW i \in Bus!Index, Bus!Tracked(i)
      PROVE  /\ b_hubs[i].address # a /\ b_hubs[i].address \in 1..MaxAddress /\ b_hubs[i].dev \in Bus!Device \cup {Root}
             /\ b_at'[b_hubs[i].dev] = b_hubs[i].address <=> Bus!Answers(i)
  <2>1. b_hubs[i].dev \in Bus!Device \cup {Root} /\ b_hubs[i].address \in 1..MaxAddress
    BY <1>b DEF BusTypes, HubRecord, Bus!Device
  <2>2. b_hubs[i].address # a
    <3>1. CASE i = 1
      BY <1>2, <1>b, <3>1 DEF BusPorts
    <3>2. CASE i # 1
      <4>1. PICK p \in Bus!Port : Stands(1, p) /\ b_hubs[1].ports[p] = b_hubs[i].address
        BY <1>b, <3>2 DEF BusHubs, Hangs
      <4>2. b_hubs[i].address \in 2..MaxAddress
        BY <1>3, <4>1 DEF BusPorts
      <4> QED
        BY <1>2, <1>3, <4>1, <4>2 DEF BusUsed
    <3> QED
      BY <3>1, <3>2
  <2>3. b_at'[b_hubs[i].dev] = b_hubs[i].address => Bus!Answers(i)
    BY <1>11, <2>1, <2>2 DEF Bus!Answers
  <2>4. Bus!Answers(i) => b_hubs[i].dev # d /\ b_at[b_hubs[i].dev] # 0
    BY <1>3, <1>b, <2>1 DEF Bus!Answers
  <2>5. Bus!Answers(i) => b_at'[b_hubs[i].dev] = b_hubs[i].address
    BY <1>11, <2>1, <2>4 DEF Bus!Answers
  <2> QED
    BY <2>1, <2>2, <2>3, <2>5
<1>17. BusHubs'
  <2>1. ASSUME NEW i \in Bus!Index \ {1}, Bus!Tracked(i)'
        PROVE  b_hubs'[i].dev \in Hub /\ \E p \in Bus!Port : Hangs(i, p)'
    <3>1. CASE filed /\ i = n
      <4>1. h = 1 /\ d \in Hub
        BY <1>3, <3>1 DEF filed
      <4>2. Stands(1, q)' /\ b_hubs'[1].ports[q] = a /\ Site(1, q)' = Site(1, q)
        BY <1>3, <1>10, <1>16, <4>1
      <4>3. Hangs(i, q)'
        BY <1>1, <1>3, <1>8, <3>1, <4>1, <4>2 DEF Hangs
      <4> QED
        BY <1>8, <3>1, <4>1, <4>3
    <3>2. CASE Bus!Tracked(i)
      <4>1. b_hubs'[i].dev = b_hubs[i].dev /\ b_hubs'[i].address = b_hubs[i].address /\ b_hubs[i].dev \in Hub
        BY <1>9, <3>2 DEF BusHubs
      <4>2. PICK p \in Bus!Port : Hangs(i, p)
        BY <3>2 DEF BusHubs
      <4>3. Stands(1, p)' /\ b_hubs'[1].ports[p] = b_hubs[1].ports[p] /\ Site(1, p)' = Site(1, p)
        BY <1>3, <1>10, <1>16, <4>2 DEF Hangs
      <4>4. b_at'[b_hubs[i].dev] = b_hubs[i].address => b_at[b_hubs[i].dev] = b_hubs[i].address
        BY <1>b, <3>2 DEF Bus!Answers
      <4>5. Hangs(i, p)'
        BY <1>1, <4>1, <4>2, <4>3, <4>4 DEF Hangs
      <4> QED
        BY <4>1, <4>5
    <3> QED
      BY <1>9, <2>1, <3>1, <3>2
  <2>3. ASSUME NEW i \in Bus!Index, NEW j \in Bus!Index, Bus!Tracked(i)', Bus!Tracked(j)', i # j
        PROVE  b_hubs'[i].address # b_hubs'[j].address
    <3>1. CASE Bus!Tracked(i) /\ Bus!Tracked(j)
      BY <1>9, <2>3, <3>1 DEF BusHubs
    <3>2. CASE ~(Bus!Tracked(i) /\ Bus!Tracked(j))
      BY <1>3, <1>8, <1>9, <1>b, <2>3, <3>2
    <3> QED
      BY <3>1, <3>2
  <2> QED
    BY <2>1, <2>3 DEF BusHubs
<1>18. BusAnswers'
  <2> SUFFICES ASSUME NEW x \in Bus!Device, b_at'[x] # Off
               PROVE  \E i \in Bus!Index, p \in Bus!Port : Holds(x, i, p)'
    BY DEF BusAnswers
  <2>0. ASSUME NEW i \in Bus!Index, Bus!Tracked(i), Bus!Answers(i) PROVE Bus!Tracked(i)' /\ Bus!Answers(i)'
    BY <1>9, <1>b, <2>0 DEF Bus!Answers
  <2>1. CASE x = d
    <3>1. Stands(h, q)' /\ b_loc'[d] = Site(h, q)' /\ b_hubs'[h].ports[q] = a /\ b_at'[d] = a
      BY <1>1, <1>3, <1>10, <1>11, <1>16
    <3>2. Holds(d, h, q)'
      BY <1>3, <2>0, <3>1 DEF Holds
    <3> QED
      BY <1>3, <2>1, <3>2
  <2>2. CASE x # d
    <3>1. b_at[x] # Off /\ (b_at'[x] = b_at[x] \/ b_at[x] = 0)
      BY <1>11, <2>2 DEF Bus!Device
    <3>2. PICK i \in Bus!Index, p \in Bus!Port : Holds(x, i, p)
      BY <3>1 DEF BusAnswers
    <3>3. /\ Bus!Tracked(i) /\ Bus!Answers(i) /\ b_loc[x] = Site(i, p)
          /\ b_hubs[i].ports[p] = Failed \/ (b_hubs[i].ports[p] = b_at[x] /\ Stands(i, p))
      BY <3>2 DEF Holds
    <3>4. Bus!Tracked(i)' /\ Bus!Answers(i)' /\ b_loc'[x] = Site(i, p)'
      BY <1>1, <1>16, <2>0, <3>3
    <3>5. CASE b_hubs[i].ports[p] = Failed
      <4>1. b_hubs'[i].ports[p] = Failed
        BY <1>3, <1>5, <1>7, <1>4, <3>3, <3>5
      <4>2. Holds(x, i, p)'
        BY <3>4, <4>1 DEF Holds
      <4> QED
        BY <4>2
    <3>6. CASE b_hubs[i].ports[p] = b_at[x] /\ Stands(i, p)
      <4>1. Stands(i, p)' /\ b_hubs'[i].ports[p] = b_hubs[i].ports[p] /\ b_at[x] # 0
        BY <1>10, <3>6 DEF Stands
      <4>2. Holds(x, i, p)'
        BY <3>1, <3>4, <3>6, <4>1 DEF Holds
      <4> QED
        BY <4>2
    <3> QED
      BY <3>3, <3>5, <3>6
  <2> QED
    BY <2>1, <2>2
<1>19. \A i \in Bus!Index : Bus!Tracked(i) => Bus!Tracked(i)'
  BY <1>9
<1>20. BusPass'
  <2>1. CASE b_stack' = <<>>
    BY <2>1 DEF BusPass, Pass
  <2>2. CASE b_stack' = Bus!Advance
    BY <1>0, <1>19, <2>2, BusAdvanced, BusPassed
  <2>3. CASE filed /\ b_stack' = Append(Bus!Advance, Bus!Frame(n, 1))
    <3>1. h = 1 /\ Len(b_stack) = 1 /\ Len(Bus!Advance) = 1 /\ Bus!Advance \in Seq(Step) /\ Bus!Advance[1].hub = 1
      <4>1. h = 1 /\ b_stack # <<>>
        BY <1>0, <1>3, <2>3 DEF filed, Bus!Visiting
      <4>2. Len(b_stack) = 1
        BY <1>h, <4>1, BusHere
      <4>3. b_stack[1].hub = 1
        BY <1>h, <4>1, <4>2 DEF Bus!Here
      <4> QED
        BY <1>0, <4>1, <4>2, <4>3, BusAdvance DEF Pass
    <3>2. Bus!Frame(n, 1) \in Step /\ Bus!Frame(n, 1).hub = n
      BY <1>4, <2>3 DEF Bus!Frame, Step
    <3> DEFINE s == Append(Bus!Advance, Bus!Frame(n, 1))
    <3>3. s \in Seq(Step) /\ Len(s) = 2 /\ s[1] = Bus!Advance[1] /\ s[2] = Bus!Frame(n, 1)
      <4> DEFINE e == Bus!Frame(n, 1)
                 w == Bus!Advance
      <4>1. w \in Seq(Step) /\ Len(w) = 1 /\ e \in Step
        BY <3>1, <3>2
      <4> HIDE DEF e, w
      <4>2. Append(w, e) \in Seq(Step) /\ Len(Append(w, e)) = 2 /\ Append(w, e)[1] = w[1] /\ Append(w, e)[2] = e
        BY <4>1, BusAppended
      <4> QED
        BY <4>2 DEF e, w
    <3> HIDE DEF s
    <3>4. Pass(s)
      BY <1>4, <2>3, <3>1, <3>2, <3>3 DEF Pass
    <3>5. b_stack' = s
      BY <2>3 DEF s
    <3>6. \A k \in 1..Len(s) : k = 1 \/ k = 2
      BY <3>3
    <3>7. Pass(b_stack)'
      BY <3>4, <3>5 DEF Pass, Step
    <3>8. \A k \in 1..Len(b_stack') : Bus!Tracked(b_stack[k].hub)'
      <4>1. b_stack'[1].hub = 1 /\ b_stack'[2].hub = n
        BY <3>1, <3>2, <3>3, <3>5
      <4>2. Bus!Tracked(1)' /\ Bus!Tracked(n)'
        BY <1>3, <1>4, <1>9, <2>3
      <4> QED
        BY <3>5, <3>6, <4>1, <4>2 DEF Bus!Tracked
    <3> QED
      BY <3>7, <3>8 DEF BusPass
  <2> QED
    BY <1>6, <2>1, <2>2, <2>3
<1> QED
  BY <1>12, <1>13, <1>14, <1>15, <1>17, <1>18, <1>20

\* What left a port, and all that was behind it, goes from the table and from the bitmap.
LEMMA BusDetach == BusInv /\ Bus!Detach => BusInv'
<1> SUFFICES ASSUME BusInv, Bus!Detach PROVE BusInv'
  OBVIOUS
<1> USE BusNumbers DEF BusInv
<1>0. Bus!Gone /\ Bus!Visiting /\ b_stack # <<>>
  BY DEF Bus!Detach, Bus!Gone, Bus!Visiting
<1>h. PICK h \in Bus!Index, q \in Bus!Port : h = Bus!Here.hub /\ q = Bus!Here.port
  BY <1>0, BusHere DEF Bus!Visiting
<1>a. PICK a : a = Bus!Seen
  OBVIOUS
<1>r. PICK R : R = Bus!Records(a)
  OBVIOUS
<1>x. PICK X : X = {a} \cup Bus!BelowIt(a)
  OBVIOUS
<1> DEFINE known == Bus!SetPort(h, q, 0)
<1>1. /\ b_hubs' = [i \in Bus!Index |-> IF i \in R THEN Bus!Nowhere ELSE known[i]]
      /\ b_used' = b_used \ X /\ b_reported' = b_reported \ X
      /\ b_stack' \in {Bus!Advance, <<>>} /\ UNCHANGED <<b_loc, b_at>>
  BY <1>h, <1>a, <1>r, <1>x DEF Bus!Detach
<1>2. /\ 1 \in Bus!Index /\ Bus!Tracked(h) /\ Stands(h, q) /\ b_hubs[h].ports[q] = a /\ a \in 2..MaxAddress
      /\ \A d \in Bus!Device : b_loc[d] # Site(h, q)
      /\ Bus!Tracked(1) /\ b_hubs[1].address = 1
  <2>1. Bus!Tracked(h) /\ Stands(h, q) /\ b_hubs[h].ports[q] = a
    BY <1>0, <1>h, <1>a, BusHere DEF Bus!Gone, Bus!Seen, Stands
  <2>2. \A d \in Bus!Device : b_loc[d] # Site(h, q)
    BY <1>0, <1>h DEF Bus!Gone, Bus!OnPort, Site
  <2> QED
    BY <2>1, <2>2 DEF BusPorts, Bus!Index
<1>3. \A i \in Bus!Index : i \in R <=> Bus!Tracked(i) /\ b_hubs[i].address = a
  BY <1>r DEF Bus!Records
<1>4. 1 \notin R /\ h \notin R
  <2>1. 1 \notin R
    BY <1>2, <1>3
  <2>2. ASSUME h \in R PROVE FALSE
    <3>1. h # 1 /\ b_hubs[h].address = a
      BY <1>3, <2>1, <2>2
    <3>2. PICK p \in Bus!Port : Stands(1, p) /\ b_hubs[1].ports[p] = a
      BY <1>2, <3>1 DEF BusHubs, Hangs
    <3> QED
      BY <1>2, <3>1, <3>2 DEF BusUsed
  <2> QED
    BY <2>1, <2>2
<1>5. /\ DOMAIN known = Bus!Index /\ \A i \in Bus!Index \ {h} : known[i] = b_hubs[i]
      /\ known[h] \in HubRecord /\ known[h].dev = b_hubs[h].dev /\ known[h].address = b_hubs[h].address
      /\ known[h].ports[q] = 0 /\ \A p \in Bus!Port \ {q} : known[h].ports[p] = b_hubs[h].ports[p]
  <2>1. 0 \in {Failed} \cup 0..MaxAddress
    OBVIOUS
  <2> QED
    BY <1>0, <1>h, <2>1, BusSetPort
<1> HIDE DEF known
<1>6. /\ DOMAIN b_hubs' = Bus!Index
      /\ \A i \in R : i \in Bus!Index => b_hubs'[i] = Bus!Nowhere
      /\ \A i \in Bus!Index \ {h} : i \notin R => b_hubs'[i] = b_hubs[i]
      /\ b_hubs'[h] = known[h]
  BY <1>1, <1>4, <1>5
<1>7. ASSUME NEW i \in Bus!Index
      PROVE  /\ Bus!Tracked(i)' <=> (Bus!Tracked(i) /\ i \notin R)
             /\ Bus!Tracked(i)' => /\ b_hubs'[i] \in HubRecord
                                   /\ b_hubs'[i].dev = b_hubs[i].dev /\ b_hubs'[i].address = b_hubs[i].address
  <2>1. CASE i = h
    BY <1>2, <1>4, <1>5, <1>6, <2>1, BusRecords DEF Bus!Tracked
  <2>2. CASE i \in R
    BY <1>6, <2>2 DEF Bus!Tracked
  <2>3. CASE i # h /\ i \notin R
    BY <1>6, <2>3 DEF Bus!Tracked, BusTypes
  <2> QED
    BY <2>1, <2>2, <2>3
<1>8. ASSUME NEW i \in Bus!Index, NEW p \in Bus!Port
      PROVE  /\ Stands(i, p)' <=> (Stands(i, p) /\ i \notin R /\ ~(i = h /\ p = q))
             /\ Stands(i, p)' => b_hubs'[i].ports[p] = b_hubs[i].ports[p]
  <2>1. CASE i = h /\ p = q
    BY <1>5, <1>6, <1>7, <2>1 DEF Stands
  <2>2. CASE i = h /\ p # q
    BY <1>2, <1>4, <1>5, <1>6, <1>7, <2>2 DEF Stands
  <2>3. CASE i \in R
    BY <1>7, <2>3 DEF Stands
  <2>4. CASE i # h /\ i \notin R
    BY <1>6, <1>7, <2>4 DEF Stands
  <2> QED
    BY <2>1, <2>2, <2>3, <2>4
<1>9. \A b : b \in X <=> (b = a \/ \E i \in Bus!Index, p \in Bus!Port : i \in R /\ Stands(i, p) /\ b_hubs[i].ports[p] = b)
  <2>1. \A b : b \in Bus!BelowIt(a) <=> \E i \in R, p \in Bus!Port : b_hubs[i].ports[p] = b /\ b \notin {0, Failed}
    BY <1>r DEF Bus!BelowIt
  <2>2. \A i \in R : i \in Bus!Index /\ Bus!Tracked(i)
    BY <1>r DEF Bus!Records
  <2> QED
    BY <1>x, <2>1, <2>2 DEF Stands
<1>10. BusTypes'
  BY <1>1, <1>6, <1>7 DEF BusTypes
<1>11. BusPlugs'
  BY <1>1 DEF BusPlugs
<1>12. BusPorts'
  <2>1. 1 \notin X
    BY <1>2, <1>9 DEF BusPorts
  <2>2. Bus!Tracked(1)' /\ b_hubs'[1].dev = Root /\ b_hubs'[1].address = 1 /\ 1 \in b_used'
    BY <1>1, <1>2, <1>4, <1>7, <2>1 DEF BusPorts
  <2>3. \A i \in Bus!Index, p \in Bus!Port : Stands(i, p)' => b_hubs'[i].ports[p] \in 2..MaxAddress
    BY <1>8 DEF BusPorts
  <2> QED
    BY <2>2, <2>3 DEF BusPorts
<1>13. BusUsed'
  <2>1. ASSUME NEW b \in 2..MaxAddress
        PROVE  b \in b_used' <=> \E i \in Bus!Index, p \in Bus!Port : Stands(i, p)' /\ b_hubs'[i].ports[p] = b
    <3>2. ASSUME b \in b_used'
          PROVE  \E i \in Bus!Index, p \in Bus!Port : Stands(i, p)' /\ b_hubs'[i].ports[p] = b
      <4>1. b \in b_used /\ b \notin X
        BY <1>1, <3>2
      <4>2. PICK i \in Bus!Index, p \in Bus!Port : Stands(i, p) /\ b_hubs[i].ports[p] = b
        BY <3>2, <4>1 DEF BusUsed
      <4>3. i \notin R /\ ~(i = h /\ p = q)
        BY <1>2, <1>9, <4>1, <4>2
      <4> QED
        BY <1>8, <4>2, <4>3
    <3>3. ASSUME NEW i \in Bus!Index, NEW p \in Bus!Port, Stands(i, p)', b_hubs'[i].ports[p] = b
          PROVE  b \in b_used'
      <4>1. Stands(i, p) /\ i \notin R /\ ~(i = h /\ p = q) /\ b_hubs[i].ports[p] = b
        BY <1>8, <3>3
      <4>2. b \in b_used
        BY <4>1 DEF BusUsed
      <4>3. b # a
        BY <1>2, <4>1 DEF BusUsed
      <4>4. ASSUME NEW j \in Bus!Index, NEW r \in Bus!Port, j \in R, Stands(j, r), b_hubs[j].ports[r] = b PROVE FALSE
        BY <4>1, <4>4 DEF BusUsed
      <4> QED
        BY <1>1, <1>9, <4>2, <4>3, <4>4
    <3> QED
      BY <3>2, <3>3
  <2>2. b_reported' = b_used' \ {1}
    BY <1>1 DEF BusUsed
  <2>3. ASSUME NEW i \in Bus!Index, NEW j \in Bus!Index, NEW p \in Bus!Port, NEW r \in Bus!Port,
               Stands(i, p)', Stands(j, r)', b_hubs'[i].ports[p] = b_hubs'[j].ports[r]
        PROVE  i = j /\ p = r
    BY <1>8, <2>3 DEF BusUsed
  <2> QED
    BY <2>1, <2>2, <2>3 DEF BusUsed
<1>14. \A i \in Bus!Index, p \in Bus!Port : Bus!Tracked(i)' => Site(i, p)' = Site(i, p)
  BY <1>7 DEF Site
<1>15. BusHubs'
  <2>1. ASSUME NEW i \in Bus!Index \ {1}, Bus!Tracked(i)'
        PROVE  b_hubs'[i].dev \in Hub /\ \E p \in Bus!Port : Hangs(i, p)'
    <3>1. Bus!Tracked(i) /\ i \notin R /\ b_hubs'[i].dev = b_hubs[i].dev /\ b_hubs'[i].address = b_hubs[i].address
      BY <1>7, <2>1
    <3>2. PICK p \in Bus!Port : Hangs(i, p)
      BY <3>1 DEF BusHubs
    <3>3. ~(1 = h /\ p = q)
      BY <1>2, <1>3, <3>1, <3>2 DEF Hangs
    <3>4. Stands(1, p)' /\ b_hubs'[1].ports[p] = b_hubs[1].ports[p]
      BY <1>2, <1>4, <1>8, <3>2, <3>3 DEF Hangs
    <3>5. Site(1, p)' = Site(1, p)
      BY <1>2, <1>14, <3>4 DEF Stands
    <3>6. b_hubs[i].dev \in Hub
      BY <3>1 DEF BusHubs
    <3>7. Hangs(i, p)'
      BY <1>1, <3>1, <3>2, <3>4, <3>5 DEF Hangs
    <3> QED
      BY <3>1, <3>6, <3>7
  <2>2. ASSUME NEW i \in Bus!Index, NEW j \in Bus!Index, Bus!Tracked(i)', Bus!Tracked(j)', i # j
        PROVE  b_hubs'[i].address # b_hubs'[j].address
    BY <1>7, <2>2 DEF BusHubs
  <2> QED
    BY <2>1, <2>2 DEF BusHubs
<1>16. BusAnswers'
  <2> SUFFICES ASSUME NEW x \in Bus!Device, b_at[x] # Off
               PROVE  \E i \in Bus!Index, p \in Bus!Port : Holds(x, i, p)'
    BY <1>1 DEF BusAnswers
  <2>1. PICK i \in Bus!Index, p \in Bus!Port : Holds(x, i, p)
    BY DEF BusAnswers
  <2>2. /\ ~(i = h /\ p = q) /\ Bus!Tracked(i) /\ Bus!Answers(i) /\ b_loc[x] = Site(i, p)
        /\ b_hubs[i].ports[p] = Failed \/ (b_hubs[i].ports[p] = b_at[x] /\ Stands(i, p))
    BY <1>2, <2>1 DEF Holds
  <2>3. ASSUME i \in R PROVE FALSE
    <3>1. i # 1 /\ b_hubs[i].address = a
      BY <1>3, <1>4, <2>3
    <3>2. b_hubs[i].dev \in Bus!Device /\ b_at[b_hubs[i].dev] = a
      BY <2>2, <3>1 DEF BusHubs, Bus!Device, Bus!Answers
    <3>3. PICK r \in Bus!Port : Hangs(i, r)
      BY <2>2, <3>1 DEF BusHubs
    <3>4. Stands(1, r) /\ b_hubs[1].ports[r] = a /\ b_loc[b_hubs[i].dev] = Site(1, r)
      BY <3>1, <3>2, <3>3 DEF Hangs
    <3>5. 1 = h /\ r = q
      BY <1>2, <3>4 DEF BusUsed
    <3> QED
      BY <1>2, <3>2, <3>4, <3>5
  <2>4. Bus!Tracked(i)' /\ b_hubs'[i].dev = b_hubs[i].dev /\ b_hubs'[i].address = b_hubs[i].address
    BY <1>7, <2>2, <2>3
  <2>5. b_hubs'[i].ports[p] = b_hubs[i].ports[p]
    <3>1. CASE i = h
      BY <1>5, <1>6, <2>2, <3>1
    <3>2. CASE i # h
      BY <1>6, <2>3, <3>2
    <3> QED
      BY <3>1, <3>2
  <2>6. Stands(i, p) => Stands(i, p)'
    BY <1>8, <2>2, <2>3
  <2>7. Bus!Answers(i)' /\ Site(i, p)' = Site(i, p)
    BY <1>1, <2>2, <2>4 DEF Bus!Answers, Site
  <2>8. Holds(x, i, p)'
    BY <1>1, <2>2, <2>4, <2>5, <2>6, <2>7 DEF Holds
  <2> QED
    BY <2>8
<1>17. BusPass'
  <2>1. CASE b_stack' = <<>>
    BY <2>1 DEF BusPass, Pass
  <2>2. CASE b_stack' = Bus!Advance
    <3> DEFINE s == Bus!Advance
    <3>1. Pass(s) /\ \A k \in 1..Len(s) : s[k].hub \in {1, h}
      <4>1. /\ Pass(Bus!Advance) /\ Len(Bus!Advance) = Len(b_stack)
            /\ \A k \in 1..Len(Bus!Advance) : Bus!Advance[k].hub = b_stack[k].hub
            /\ \A k \in 1..Len(b_stack) : b_stack[k].hub \in {1, h}
        BY <1>0, <1>h, BusAdvance
      <4> QED
        BY <4>1
    <3> HIDE DEF s
    <3>2. b_stack' = s
      BY <2>2 DEF s
    <3>3. Bus!Tracked(1)' /\ Bus!Tracked(h)'
      BY <1>2, <1>4, <1>7
    <3>4. Pass(b_stack)'
      BY <3>1, <3>2 DEF Pass, Step
    <3>5. \A k \in 1..Len(b_stack') : Bus!Tracked(b_stack[k].hub)'
      BY <3>1, <3>2, <3>3 DEF Bus!Tracked
    <3> QED
      BY <3>4, <3>5 DEF BusPass
  <2> QED
    BY <1>1, <2>1, <2>2
<1> QED
  BY <1>10, <1>11, <1>12, <1>13, <1>15, <1>16, <1>17

LEMMA BusNext == BusInv /\ [Bus!Next]_bVars => BusInv'
<1> SUFFICES ASSUME BusInv, [Bus!Next]_bVars PROVE BusInv'
  OBVIOUS
<1>1. CASE UNCHANGED bVars
  <2>1. UNCHANGED <<b_loc, b_at, b_hubs, b_used, b_reported, b_stack>>
    BY <1>1 DEF bVars
  <2>2. SameRecords /\ SameStands
    BY <2>1 DEF SameRecords, SameStands, Stands, Bus!Tracked, BusInv, BusTypes
  <2>3. BusPass' /\ BusAnswers'
    BY <2>1 DEF BusInv, BusPass, Pass, BusAnswers, Holds, Bus!Tracked, Bus!Answers, Site, Stands
  <2>4. BusTypes' /\ BusPlugs' /\ BusPorts' /\ BusUsed' /\ BusHubs'
    BY <2>1, <2>2, BusFrame DEF BusInv, BusTypes
  <2> QED
    BY <2>3, <2>4 DEF BusInv
<1>2. ASSUME NEW d \in Bus!Device, Bus!Plug(d) \/ Bus!Unplug(d) \/ Bus!Arrive(d) PROVE BusInv'
  BY <1>2, BusPlug, BusUnplug, BusGivenUp, BusAttach DEF Bus!Arrive
<1>3. CASE Bus!Poll \/ Bus!Leave \/ Bus!Same \/ Bus!Forget \/ Bus!Detach \/ Bus!Enumerate \/ Bus!EnumerateFails
  BY <1>3, BusQuiet, BusForget, BusDetach, BusEnumerate, BusEnumerateFails
<1> QED
  BY <1>1, <1>2, <1>3 DEF Bus!Next, Bus!Sweep

\* A pass ends with a fault or without one.
LEMMA BusFault ==
  (Bus!Init => b_fault \in BOOLEAN) /\ (b_fault \in BOOLEAN /\ [Bus!Next]_bVars => b_fault' \in BOOLEAN)
<1>1. Bus!Init => b_fault \in BOOLEAN
  BY DEF Bus!Init
<1>2. ASSUME b_fault \in BOOLEAN, [Bus!Next]_bVars PROVE b_fault' \in BOOLEAN
  <2>1. b_fault' = b_fault \/ b_fault' = TRUE \/ b_fault' = FALSE
    BY <1>2
    DEF bVars, Bus!Next, Bus!Sweep, Bus!Arrive, Bus!Plug, Bus!Unplug, Bus!Poll, Bus!Leave, Bus!Same,
        Bus!Forget,
        Bus!ResetFails, Bus!ProbeFails, Bus!Attach, Bus!Detach, Bus!Enumerate, Bus!EnumerateFails
  <2> QED
    BY <1>2, <2>1
<1> QED
  BY <1>1, <1>2

-----------------------------------------------------------------------------
\* The ports of the table, all but the one being looked at, are fewer than the addresses.
LEMMA BusAddressesLast == BusInv => Bus!AddressesLast
<1> SUFFICES ASSUME BusInv, NEW d \in Bus!Device, Bus!Arrived(d), Bus!FreeAddresses = {} PROVE FALSE
  BY DEF Bus!AddressesLast
<1> USE BusNumbers
<1>1. PICK h \in Bus!Index, q \in Bus!Port : ~Stands(h, q)
  <2>1. Bus!Here.hub \in Bus!Index /\ Bus!Here.port \in Bus!Port /\ Bus!Seen = 0
    BY BusHere DEF Bus!Arrived, Bus!Visiting
  <2> QED
    BY <2>1 DEF Stands, Bus!Seen
<1> DEFINE W == (Bus!Index \X Bus!Port) \ {<<h, q>>}
           f == [w \in W |-> b_hubs[w[1]].ports[w[2]]]
           T == {f[w] : w \in W}
<1>2. IsFiniteSet(W) /\ Cardinality(W) = MaxHubs * Ports - 1
  <2>1. ASSUME NEW n \in Nat \ {0} PROVE IsFiniteSet(1..n) /\ Cardinality(1..n) = n
    <3>1. n \in Int /\ 1 \in Int
      BY <2>1
    <3>2. IsFiniteSet(1..n) /\ Cardinality(1..n) = IF 1 > n THEN 0 ELSE n - 1 + 1
      BY <3>1, FS_Interval
    <3> QED
      BY <2>1, <3>2
  <2> DEFINE P == Bus!Index \X Bus!Port
             w == <<h, q>>
  <2>3. IsFiniteSet(P) /\ Cardinality(P) = MaxHubs * Ports
    <3>1. IsFiniteSet(Bus!Index) /\ Cardinality(Bus!Index) = MaxHubs
      BY <2>1 DEF Bus!Index
    <3>2. IsFiniteSet(Bus!Port) /\ Cardinality(Bus!Port) = Ports
      BY <2>1 DEF Bus!Port
    <3> QED
      BY <3>1, <3>2, FS_Product
  <2>4. w \in P
    OBVIOUS
  <2> HIDE DEF P, w
  <2>5. IsFiniteSet(P \ {w}) /\ Cardinality(P \ {w}) = Cardinality(P) - 1
    BY <2>3, <2>4, FS_RemoveElement
  <2> QED
    BY <2>3, <2>5 DEF P, w
<1>3. f \in Surjection(W, T)
  <2>1. f \in [W -> T]
    OBVIOUS
  <2>2. \A t \in T : \E w \in W : f[w] = t
    OBVIOUS
  <2> QED
    BY <2>1, <2>2 DEF Surjection
<1>4. IsFiniteSet(T) /\ Cardinality(T) <= MaxHubs * Ports - 1
  <2> HIDE DEF W, T, f
  <2> QED
    BY <1>2, <1>3, FS_Surjection
<1>5. 2..MaxAddress \subseteq T
  <2> SUFFICES ASSUME NEW b \in 2..MaxAddress PROVE b \in T
    OBVIOUS
  <2>1. b \in b_used /\ b # 1 /\ b \in 1..MaxAddress
    BY DEF Bus!FreeAddresses
  <2>2. PICK i \in Bus!Index, p \in Bus!Port : Stands(i, p) /\ b_hubs[i].ports[p] = b
    BY <2>1 DEF BusInv, BusUsed
  <2>3. <<i, p>> \in W
    BY <1>1, <2>2
  <2> QED
    BY <2>2, <2>3
<1>6. Cardinality(2..MaxAddress) = MaxAddress - 1
  BY FS_Interval
<1>7. Cardinality(2..MaxAddress) <= Cardinality(T)
  <2> HIDE DEF T
  <2> QED
    BY <1>4, <1>5, FS_Subset
<1>8. Cardinality(T) \in Nat
  <2> HIDE DEF T
  <2> QED
    BY <1>4, FS_CardinalityType
<1>9. MaxHubs * Ports \in Nat /\ MaxHubs * Ports < MaxAddress
  BY UsbAssumption DEF UsbAssumption
<1> HIDE DEF T
<1> QED
  BY <1>4, <1>6, <1>7, <1>8, <1>9

LEMMA BusKept == BusInv => Bus!AddressesInStep /\ Bus!HubsInStep /\ Bus!AddressedApart
<1> SUFFICES ASSUME BusInv PROVE Bus!AddressesInStep /\ Bus!HubsInStep /\ Bus!AddressedApart
  OBVIOUS
<1> USE BusNumbers DEF BusInv
<1>1. /\ \A w \in Bus!OnPorts : w[1] \in Bus!Index /\ w[2] \in Bus!Port /\ Stands(w[1], w[2])
                                /\ Bus!Address(w) = b_hubs[w[1]].ports[w[2]] /\ w = <<w[1], w[2]>>
      /\ \A i \in Bus!Index, p \in Bus!Port : Stands(i, p) =>
           <<i, p>> \in Bus!OnPorts /\ Bus!Address(<<i, p>>) = b_hubs[i].ports[p]
  BY DEF Bus!OnPorts, Bus!Address, Stands
<1>2. Bus!AddressesInStep
  <2>1. \A b : b \in b_used \ {1} <=> \E w \in Bus!OnPorts : Bus!Address(w) = b
    <3>1. ASSUME NEW b \in b_used, b # 1 PROVE \E w \in Bus!OnPorts : Bus!Address(w) = b
      <4>1. b \in 2..MaxAddress
        BY <3>1 DEF BusTypes
      <4>2. PICK i \in Bus!Index, p \in Bus!Port : Stands(i, p) /\ b_hubs[i].ports[p] = b
        BY <4>1 DEF BusUsed
      <4> QED
        BY <1>1, <4>2
    <3>2. ASSUME NEW w \in Bus!OnPorts PROVE Bus!Address(w) \in b_used \ {1}
      <4>1. Bus!Address(w) \in 2..MaxAddress
        BY <1>1 DEF BusPorts
      <4> QED
        BY <1>1, <4>1 DEF BusUsed
    <3> QED
      BY <3>1, <3>2
  <2>2. \A v, w \in Bus!OnPorts : v # w => Bus!Address(v) # Bus!Address(w)
    BY <1>1 DEF BusUsed
  <2>3. b_used \ {1} = {Bus!Address(w) : w \in Bus!OnPorts}
    BY <2>1
  <2>4. b_reported = b_used \ {1} /\ (Bus!Tracked(1) => 1 \in b_used)
    BY DEF BusUsed, BusPorts
  <2> QED
    BY <2>2, <2>3, <2>4 DEF Bus!AddressesInStep
<1>3. Bus!HubsInStep
  <2> SUFFICES ASSUME NEW i \in Bus!Index \ {1}, Bus!Tracked(i)
               PROVE  /\ \E w \in Bus!OnPorts : w[1] # i /\ Bus!Address(w) = b_hubs[i].address
                      /\ Bus!Records(b_hubs[i].address) = {i}
    BY DEF Bus!HubsInStep
  <2>1. PICK p \in Bus!Port : Stands(1, p) /\ b_hubs[1].ports[p] = b_hubs[i].address
    BY DEF BusHubs, Hangs
  <2>2. <<1, p>> \in Bus!OnPorts /\ Bus!Address(<<1, p>>) = b_hubs[i].address /\ <<1, p>>[1] # i
    BY <1>1, <2>1 DEF Bus!Index
  <2>3. Bus!Records(b_hubs[i].address) = {i}
    BY DEF Bus!Records, BusHubs
  <2> QED
    BY <2>2, <2>3
<1>4. Bus!AddressedApart
  <2>1. ASSUME NEW x \in Bus!Device, b_at[x] # Off, ~Bus!GivenUp(x)
        PROVE  \E i \in Bus!Index, p \in Bus!Port : Stands(i, p) /\ b_loc[x] = Site(i, p) /\ b_hubs[i].ports[p] = b_at[x]
    <3>1. PICK i \in Bus!Index, p \in Bus!Port : Holds(x, i, p)
      BY <2>1 DEF BusAnswers
    <3>2. b_hubs[i].ports[p] # Failed
      BY <2>1, <3>1 DEF Holds, Bus!GivenUp, Bus!OnPort, Site
    <3> QED
      BY <3>1, <3>2 DEF Holds
  <2>2. ASSUME NEW x \in Bus!Device, NEW y \in Bus!Device, x # y, b_at[x] = b_at[y], b_at[x] # Off,
               ~Bus!GivenUp(x), ~Bus!GivenUp(y)
        PROVE  FALSE
    <3>1. PICK i \in Bus!Index, p \in Bus!Port : Stands(i, p) /\ b_loc[x] = Site(i, p) /\ b_hubs[i].ports[p] = b_at[x]
      BY <2>1, <2>2
    <3>2. PICK j \in Bus!Index, r \in Bus!Port : Stands(j, r) /\ b_loc[y] = Site(j, r) /\ b_hubs[j].ports[r] = b_at[y]
      BY <2>1, <2>2
    <3>3. i = j /\ p = r
      BY <2>2, <3>1, <3>2 DEF BusUsed
    <3>4. Site(i, p) # Bus!Nowhere
      <4>1. Site(i, p).port = p /\ Bus!Nowhere.port = 0 /\ p # 0
        BY DEF Site, Bus!Nowhere, Bus!Port
      <4> QED
        BY <4>1
    <3> QED
      BY <2>2, <3>1, <3>2, <3>3, <3>4 DEF BusPlugs
  <2>3. \A x \in Bus!Device : b_at[x] # 1
    BY DEF BusTypes
  <2> QED
    BY <2>2, <2>3 DEF Bus!AddressedApart
<1> QED
  BY <1>2, <1>3, <1>4

LEMMA BusTypeKept == BusInv /\ b_fault \in BOOLEAN => Bus!TypeOK
<1> SUFFICES ASSUME BusInv, b_fault \in BOOLEAN PROVE Bus!TypeOK
  OBVIOUS
<1>1. b_at \in [Bus!Device \cup {Root} -> {Off} \cup 0..MaxAddress]
  BY DEF BusInv, BusTypes
<1>2. \A k \in DOMAIN b_stack : b_stack[k].hub \in Bus!Index /\ Bus!Tracked(b_stack[k].hub)
  <2>1. DOMAIN b_stack = 1..Len(b_stack) /\ \A k \in 1..Len(b_stack) : b_stack[k] \in Step
    BY DEF BusInv, BusPass, Pass
  <2> QED
    BY <2>1 DEF BusInv, BusPass, Step
<1>3. b_reported \subseteq b_used
  BY DEF BusInv, BusUsed
<1> QED
  BY <1>1, <1>2, <1>3, Zenon DEF BusInv, BusTypes, HubRecord, Bus!TypeOK

(* ------------------------------ the split poll ---------------------------- *)

Held == p_tt \in {"full", "short"}
\* Beside its types: what the translator is at, and a transfer of one packet.
PollFlags == /\ p_ready \in BOOLEAN /\ p_upset \in BOOLEAN /\ p_dropped \in BOOLEAN
             /\ p_pid \in BOOLEAN /\ p_toggle \in BOOLEAN /\ p_devToggle \in BOOLEAN
PollStep ==
  /\ p_tt = "running" => p_age <= Slowest
  /\ p_step # "idle" => p_moved = 0 /\ (p_pid <=> p_toggle)
\* A complete-split is due at most five microframes after the start-split, and the last of them four
\* or five after it.
PollWindow ==
  ~p_upset =>
    /\ ~p_dropped
    /\ p_step = "complete" =>
         /\ p_tt # "empty"
         /\ \E n \in 0..3 : /\ p_tries + n \in {2, 3} /\ p_age <= 2 + n
                            /\ p_next = (p_frame + (2 + n - p_age)) % 8
    /\ p_step # "complete" => p_tt = "empty"
PollBooks ==
  /\ Held => p_handed + 1 <= p_taken
  /\ ~p_dropped => IF Held THEN p_handed + 1 = p_taken /\ (p_toggle <=> ~p_devToggle)
                           ELSE p_handed = p_taken /\ (p_toggle <=> p_devToggle)
  /\ p_taken + p_left <= Reports
  /\ p_ready => p_taken + p_left < Reports
PollInv == Poll!TypeOK /\ PollFlags /\ PollStep /\ PollWindow /\ PollBooks

LEMMA PollNumbers == Slowest \in 0..3 /\ Keeps \in Nat /\ Keeps >= 5 /\ Reports \in Nat
BY UsbAssumption DEF UsbAssumption

LEMMA PollInit == Poll!Init => PollInv
<1> SUFFICES ASSUME Poll!Init PROVE PollInv
  OBVIOUS
<1>1. PollFlags /\ (p_toggle <=> p_devToggle) /\ ~p_ready /\ ~p_dropped
  BY DEF Poll!Init, PollFlags
<1>2. PollStep /\ Poll!TypeOK /\ PollWindow /\ PollBooks
  BY PollNumbers, <1>1 DEF Poll!Init, PollStep, Poll!TypeOK, PollWindow, PollBooks, Held
<1> QED
  BY <1>1, <1>2 DEF PollInv

\* The host's own steps leave the device's books alone, but for the packet it takes.
LEMMA PollPoll == PollInv /\ Poll!Poll => PollInv'
<1> SUFFICES ASSUME PollInv, Poll!Poll PROVE PollInv'
  OBVIOUS
<1> USE PollNumbers DEF PollInv, Poll!Poll, Poll!tVars, Poll!Scheduled, Poll!Micro
<1>1. PollFlags'
  BY DEF PollFlags
<1>4. PollStep'
  BY DEF PollStep, PollFlags
<1>2. PollWindow' /\ PollBooks'
  BY DEF PollWindow, PollBooks, Held
<1>3. Poll!TypeOK'
  BY DEF Poll!TypeOK
<1> QED
  BY <1>1, <1>2, <1>3, <1>4

LEMMA PollStartSplit == PollInv /\ Poll!StartSplit => PollInv'
<1> SUFFICES ASSUME PollInv, Poll!StartSplit PROVE PollInv'
  OBVIOUS
<1> USE PollNumbers DEF PollInv
<1>1. CASE Poll!Ends("Error") /\ UNCHANGED <<p_tt, p_age>>
  <2>1. p_step = "start" /\ p_step' = "idle" /\ p_result' = "Error"
        /\ UNCHANGED <<p_frame, p_next, p_tries, p_moved, p_pid, p_toggle, p_handed, p_tt, p_age, p_left,
                       p_devToggle, p_ready, p_taken, p_dropped, p_upset>>
    BY <1>1 DEF Poll!StartSplit, Poll!Ends, Poll!devVars
  <2>2. PollStep' /\ PollFlags'
    BY <2>1 DEF PollStep, PollFlags
  <2>3. PollWindow' /\ PollBooks'
    BY <2>1 DEF PollWindow, PollBooks, Held
  <2>4. Poll!TypeOK'
    BY <2>1 DEF Poll!TypeOK
  <2> QED
    BY <2>2, <2>3, <2>4
<1>2. CASE p_tt = "empty" /\ p_tt' = "running"
  <2>1. /\ p_age' = 0 /\ p_step = "start" /\ p_step' = "complete" /\ p_next' = (p_next + 2) % 8 /\ p_frame = p_next
        /\ p_tries' = (IF p_next # 5 THEN 3 ELSE 2)
        /\ UNCHANGED <<p_frame, p_moved, p_pid, p_toggle, p_result, p_handed, p_left, p_devToggle, p_ready, p_taken,
                       p_dropped, p_upset>>
    BY <1>2 DEF Poll!StartSplit, Poll!Ends, Poll!devVars, Poll!Due, Poll!Micro
  <2>2. PollFlags'
    BY <2>1 DEF PollFlags
  <2>7. PollStep'
    BY <1>2, <2>1 DEF PollStep
  <2>3. PollBooks'
    BY <1>2, <2>1 DEF PollBooks, Held
  <2>8. p_tries' \in 0..3 /\ p_next' \in 0..7
    BY <2>1 DEF Poll!TypeOK
  <2>4. Poll!TypeOK'
    BY <1>2, <2>1, <2>8 DEF Poll!TypeOK
  <2>5. p_tries' + 0 \in {2, 3} /\ p_age' <= 2 + 0 /\ p_next' = (p_frame' + (2 + 0 - p_age')) % 8
    BY <2>1 DEF Poll!TypeOK
  <2>6. PollWindow'
    BY <1>2, <2>1, <2>5 DEF PollWindow
  <2> QED
    BY <2>2, <2>3, <2>4, <2>6, <2>7
<1> QED
  BY <1>1, <1>2 DEF Poll!StartSplit

\* While the translator has nothing yet the last try has not come.
LEMMA PollNotYet == PollInv /\ Poll!NotYet => PollInv'
<1> SUFFICES ASSUME PollInv, Poll!NotYet PROVE PollInv'
  OBVIOUS
<1> USE PollNumbers DEF PollInv
<1>1. /\ p_step = "complete" /\ p_frame = p_next /\ p_tt \in {"running", "empty"}
      /\ UNCHANGED <<p_frame, p_moved, p_pid, p_toggle, p_handed, p_tt, p_age, p_left,
                     p_devToggle, p_ready, p_taken, p_dropped, p_upset>>
  BY DEF Poll!NotYet, Poll!Due, Poll!tVars, Poll!Ends
<1>2. /\ p_step' \in {"idle", "complete"} /\ p_result' \in {"Nak", p_result} /\ p_tries' \in 0..3 /\ p_next' \in 0..7
  BY DEF Poll!NotYet, Poll!Ends, Poll!TypeOK, Poll!Micro
<1>3. PollStep' /\ PollFlags'
  BY <1>1, <1>2 DEF PollStep, PollFlags
<1>4. PollBooks'
  BY <1>1 DEF PollBooks, Held
<1>5. Poll!TypeOK'
  BY <1>1, <1>2 DEF Poll!TypeOK
<1>6. PollWindow'
  <2> SUFFICES ASSUME ~p_upset PROVE PollWindow'
    BY <1>1 DEF PollWindow
  <2>1. PICK n \in 0..3 : p_tries + n \in {2, 3} /\ p_age <= 2 + n /\ p_next = (p_frame + (2 + n - p_age)) % 8
    BY <1>1 DEF PollWindow
  <2>2. p_age = 2 + n
    BY <1>1, <2>1 DEF Poll!TypeOK
  <2>6. p_tt = "running"
    BY <1>1 DEF PollWindow
  <2>7. n <= 1
    BY <2>2, <2>6 DEF PollStep
  <2>3. p_tt = "running" /\ p_tries # 0
    BY <2>1, <2>6, <2>7 DEF Poll!TypeOK
  <2>4. p_tries' = p_tries - 1 /\ p_next' = (p_next + 1) % 8 /\ p_step' = "complete"
    BY <1>1, <2>3 DEF Poll!NotYet, Poll!Micro
  <2>5. n + 1 \in 0..3 /\ p_tries' + (n + 1) \in {2, 3} /\ p_age' <= 2 + (n + 1)
        /\ p_next' = (p_frame' + (2 + (n + 1) - p_age')) % 8
    BY <1>1, <2>1, <2>2, <2>3, <2>4 DEF Poll!TypeOK
  <2> QED
    BY <1>1, <2>3, <2>4, <2>5 DEF PollWindow
<1> QED
  BY <1>3, <1>4, <1>5, <1>6

LEMMA PollNothing == PollInv /\ (Poll!Nothing \/ Poll!Mismatch \/ Poll!Fails) => PollInv'
<1> SUFFICES ASSUME PollInv, Poll!Nothing \/ Poll!Mismatch \/ Poll!Fails PROVE PollInv'
  OBVIOUS
<1> USE PollNumbers DEF PollInv
<1>1. /\ p_step = "complete" /\ p_step' = "idle" /\ p_result' \in {"Nak", "Error"}
      /\ UNCHANGED <<p_frame, p_next, p_tries, p_moved, p_pid, p_toggle, p_handed, p_age, p_left,
                     p_devToggle, p_ready, p_taken, p_dropped>>
  BY DEF Poll!Nothing, Poll!Mismatch, Poll!Fails, Poll!Fetch, Poll!Ends, Poll!tVars, Poll!devVars
<1>2. \/ p_tt' = "empty" /\ p_upset' = p_upset /\ (p_tt = "nak" \/ (Held /\ p_pid = p_devToggle))
      \/ p_tt' = p_tt /\ p_upset' = TRUE
  <2>1. CASE Poll!Nothing
    <3>1. p_tt' = "empty" /\ p_tt = "nak" /\ p_upset' = p_upset
      BY <2>1 DEF Poll!Nothing, Poll!Fetch
    <3> QED
      BY <3>1
  <2>2. CASE Poll!Mismatch
    BY <2>2 DEF Poll!Mismatch, Poll!Fetch, Held
  <2>3. CASE Poll!Fails
    BY <2>3 DEF Poll!Fails, Poll!tVars
  <2> QED
    BY <2>1, <2>2, <2>3
<1>3. PollFlags'
  BY <1>1, <1>2 DEF PollFlags
<1>4. PollStep'
  BY <1>1, <1>2 DEF PollStep
<1>5. Poll!TypeOK' /\ PollWindow'
  BY <1>1, <1>2 DEF Poll!TypeOK, PollWindow, Held
<1>6. ASSUME Held, p_pid = p_devToggle PROVE p_dropped
  <2>1. (p_pid <=> p_toggle) /\ (p_pid <=> p_devToggle)
    BY <1>1, <1>6 DEF PollStep
  <2> QED
    BY <1>6, <2>1 DEF PollBooks
<1>7. PollBooks'
  BY <1>1, <1>2, <1>6 DEF PollBooks, Held
<1> QED
  BY <1>3, <1>4, <1>5, <1>7

\* The packet is handed over and both toggles have moved.
LEMMA PollReceived == PollInv /\ Poll!Received => PollInv'
<1> SUFFICES ASSUME PollInv, Poll!Received PROVE PollInv'
  OBVIOUS
<1> USE PollNumbers DEF PollInv
<1>1. p_moved = 0 /\ (p_pid <=> p_toggle)
  BY DEF PollStep, Poll!Received, Poll!Fetch
<1>2. /\ p_step' = "idle" /\ p_result' = "Ok" /\ p_tt' = "empty" /\ p_moved' = 1 /\ p_handed' = p_handed + 1
      /\ UNCHANGED <<p_frame, p_next, p_tries, p_age, p_left, p_devToggle, p_ready, p_taken, p_dropped, p_upset>>
  BY <1>1 DEF Poll!Received, Poll!Fetch, Poll!Last, Poll!devVars, Poll!TypeOK
<1>3. Held /\ p_pid # p_devToggle
  BY DEF Poll!Received, Held
<1>9. Poll!Last
  BY <1>1 DEF Poll!Last
<1>4. p_toggle' = ~p_toggle /\ p_pid' = ~p_pid
  BY <1>9 DEF Poll!Received
<1>10. p_toggle' \in BOOLEAN /\ p_pid' \in BOOLEAN /\ (p_toggle' <=> ~p_toggle) /\ (p_pid <=> ~p_devToggle)
  BY <1>3, <1>4 DEF PollFlags
<1>5. p_toggle' <=> p_devToggle
  BY <1>1, <1>10
<1>6. PollStep' /\ PollFlags'
  BY <1>2, <1>10 DEF PollStep, PollFlags
<1>7. Poll!TypeOK' /\ PollWindow'
  BY <1>2, <1>3 DEF Poll!TypeOK, PollWindow, PollBooks
<1>8. PollBooks'
  BY <1>2, <1>3, <1>5 DEF PollBooks, Held, Poll!TypeOK
<1> QED
  BY <1>6, <1>7, <1>8

\* The device sends a packet once the translator comes to it, and moves on.
LEMMA PollDownstream == PollInv /\ Poll!Downstream => PollInv'
<1> SUFFICES ASSUME PollInv, Poll!Downstream PROVE PollInv'
  OBVIOUS
<1> USE PollNumbers DEF PollInv
<1>1. p_tt = "running" /\ UNCHANGED <<p_frame, p_step, p_next, p_tries, p_moved, p_pid, p_toggle, p_result, p_age,
                                      p_left, p_handed, p_dropped, p_upset>>
  BY DEF Poll!Downstream
<1>2. CASE p_ready
  <2>1. p_tt' \in {"full", "short"} /\ p_taken' = p_taken + 1 /\ ~p_ready'
    BY <1>2 DEF Poll!Downstream
  <2>2. (p_devToggle' <=> ~p_devToggle) /\ p_devToggle' \in BOOLEAN /\ p_ready' \in BOOLEAN
    BY <1>2 DEF Poll!Downstream
  <2>3. PollStep' /\ PollFlags'
    BY <1>1, <2>1, <2>2 DEF PollStep, PollFlags
  <2>6. p_taken' + p_left' <= Reports /\ p_taken \in Nat /\ p_left \in Nat
    BY <1>1, <1>2, <2>1 DEF PollBooks, Poll!TypeOK
  <2>4. Poll!TypeOK'
    BY <1>1, <2>1, <2>6 DEF Poll!TypeOK
  <2>7. PollWindow'
    BY <1>1, <2>1 DEF PollWindow
  <2>8. ~p_dropped => p_handed = p_taken /\ (p_toggle <=> p_devToggle)
    BY <1>1 DEF PollBooks, Held
  <2>5. PollBooks'
    BY <1>1, <2>1, <2>2, <2>6, <2>8 DEF PollBooks, Held, Poll!TypeOK
  <2> QED
    BY <2>3, <2>4, <2>5, <2>7
<1>3. CASE ~p_ready
  <2>1. p_tt' = "nak" /\ UNCHANGED <<p_devToggle, p_ready, p_taken>>
    BY <1>3 DEF Poll!Downstream
  <2>2. PollStep' /\ PollFlags'
    BY <1>1, <2>1 DEF PollStep, PollFlags
  <2>3. Poll!TypeOK' /\ PollWindow' /\ PollBooks'
    BY <1>1, <2>1 DEF Poll!TypeOK, PollWindow, PollBooks, Held
  <2> QED
    BY <2>2, <2>3
<1> QED
  BY <1>2, <1>3

LEMMA PollReport == PollInv /\ Poll!Report => PollInv'
<1> SUFFICES ASSUME PollInv, Poll!Report PROVE PollInv'
  OBVIOUS
<1> USE PollNumbers DEF PollInv
<1>1. p_ready' \in BOOLEAN /\ p_left' = p_left - 1 /\ p_left > 0
      /\ UNCHANGED <<p_frame, p_step, p_next, p_tries, p_moved, p_pid, p_toggle, p_result, p_tt, p_age,
                     p_devToggle, p_taken, p_handed, p_dropped, p_upset>>
  BY DEF Poll!Report
<1>2. PollStep' /\ PollFlags'
  BY <1>1 DEF PollStep, PollFlags
<1>3. Poll!TypeOK' /\ PollWindow'
  BY <1>1 DEF Poll!TypeOK, PollWindow
<1>4. p_taken' + p_left' < Reports
  BY <1>1 DEF PollBooks, Poll!TypeOK
<1>5. p_taken' + p_left' <= Reports
  BY <1>1 DEF PollBooks, Poll!TypeOK
<1>6. PollBooks'
  BY <1>1, <1>4, <1>5 DEF PollBooks, Held
<1> QED
  BY <1>2, <1>3, <1>6

\* A microframe passes the one a split is due in only while the processor is away; otherwise what
\* the translator has is fetched before its time is over.
LEMMA PollMicroframe == PollInv /\ Poll!Microframe => PollInv'
<1> SUFFICES ASSUME PollInv, Poll!Microframe PROVE PollInv'
  OBVIOUS
<1> USE PollNumbers DEF PollInv
<1>1. /\ p_tt = "running" => p_age < Slowest
      /\ p_frame' = (p_frame + 1) % 8
      /\ UNCHANGED <<p_step, p_next, p_tries, p_moved, p_pid, p_toggle, p_result, p_left, p_devToggle, p_ready,
                     p_taken, p_handed>>
  BY DEF Poll!Microframe, Poll!devVars, Poll!Micro
<1>2. p_upset' <=> (p_upset \/ Poll!Due)
  BY DEF Poll!Microframe
<1>3. p_upset' \in BOOLEAN
  BY Zenon DEF Poll!Microframe, PollFlags, Poll!Due
<1>6. p_frame' \in 0..7
  BY <1>1 DEF Poll!TypeOK
<1>4. CASE p_tt # "empty" /\ p_age = Keeps
  <2>1. p_tt' = "empty" /\ p_age' = 0 /\ (p_dropped' <=> (p_dropped \/ Held))
    BY <1>4 DEF Poll!Microframe, Held
  <2>2. p_dropped' \in BOOLEAN
    BY <1>4, Zenon DEF Poll!Microframe, PollFlags
  <2>3. PollStep' /\ PollFlags'
    BY <1>1, <1>3, <2>1, <2>2 DEF PollStep, PollFlags
  <2>4. Poll!TypeOK'
    BY <1>1, <1>6, <2>1 DEF Poll!TypeOK
  <2>5. PollBooks'
    BY <1>1, <2>1 DEF PollBooks, Held, Poll!TypeOK
  <2>6. p_upset'
    <3> SUFFICES ASSUME ~p_upset, p_step = "complete" PROVE Poll!Due
      BY <1>2, <1>4 DEF PollWindow
    <3>1. PICK n \in 0..3 : p_age <= 2 + n /\ p_next = (p_frame + (2 + n - p_age)) % 8
      BY DEF PollWindow
    <3>2. p_age = 2 + n
      BY <1>4, <3>1
    <3> QED
      BY <3>1, <3>2 DEF Poll!Due, Poll!TypeOK
  <2> QED
    BY <2>3, <2>4, <2>5, <2>6 DEF PollWindow
<1>5. CASE ~(p_tt # "empty" /\ p_age = Keeps)
  <2>1. p_tt' = p_tt /\ p_dropped' = p_dropped /\ p_age' = (IF p_tt = "empty" THEN 0 ELSE p_age + 1)
    BY <1>5 DEF Poll!Microframe
  <2>2. PollFlags'
    BY <1>1, <1>3, <2>1 DEF PollFlags
  <2>5. PollStep'
    BY <1>1, <2>1 DEF PollStep, Poll!TypeOK
  <2>6. p_age' \in 0..Keeps
    BY <1>5, <2>1 DEF Poll!TypeOK
  <2>3. Poll!TypeOK'
    BY <1>1, <1>6, <2>1, <2>6 DEF Poll!TypeOK
  <2>7. PollBooks'
    BY <1>1, <2>1 DEF PollBooks, Held
  <2>4. PollWindow'
    <3> SUFFICES ASSUME ~p_upset, ~Poll!Due, p_step = "complete" PROVE PollWindow'
      BY <1>1, <1>2, <2>1 DEF PollWindow
    <3>1. PICK n \in 0..3 : p_tries + n \in {2, 3} /\ p_age <= 2 + n /\ p_next = (p_frame + (2 + n - p_age)) % 8
      BY DEF PollWindow
    <3>2. p_tt # "empty" /\ p_age' = p_age + 1
      BY <2>1 DEF PollWindow
    <3>3. p_age # 2 + n
      BY <3>1 DEF Poll!Due, Poll!TypeOK
    <3>4. p_tries' + n \in {2, 3} /\ p_age' <= 2 + n /\ p_next' = (p_frame' + (2 + n - p_age')) % 8
      BY <1>1, <3>1, <3>2, <3>3 DEF Poll!TypeOK
    <3> QED
      BY <1>1, <2>1, <3>2, <3>4 DEF PollWindow
  <2> QED
    BY <2>2, <2>3, <2>4, <2>5, <2>7
<1> QED
  BY <1>4, <1>5

LEMMA PollNext == PollInv /\ [Poll!Next]_pVars => PollInv'
<1> SUFFICES ASSUME PollInv, [Poll!Next]_pVars PROVE PollInv'
  OBVIOUS
<1>1. CASE UNCHANGED pVars
  <2>1. PollStep' /\ PollFlags'
    BY <1>1 DEF pVars, PollInv, PollStep, PollFlags
  <2>2. (Poll!TypeOK /\ PollWindow /\ PollBooks)'
    BY <1>1 DEF pVars, PollInv, Poll!TypeOK, PollWindow, PollBooks, Held
  <2> QED
    BY <2>1, <2>2 DEF PollInv
<1>2. CASE Poll!Next
  BY <1>2, PollPoll, PollStartSplit, PollNotYet, PollNothing, PollReceived, PollDownstream, PollReport,
     PollMicroframe
  DEF Poll!Next, Poll!Host, Poll!Channel
<1> QED
  BY <1>1, <1>2

LEMMA PollKept == PollInv => Poll!InItsWindow /\ Poll!TogglesAgree
<1> SUFFICES ASSUME PollInv PROVE Poll!InItsWindow /\ Poll!TogglesAgree
  OBVIOUS
<1>1. Poll!InItsWindow
  BY DEF PollInv, PollWindow, Poll!InItsWindow
<1>2. ASSUME p_toggle <=> p_devToggle PROVE p_toggle = p_devToggle
  BY <1>2, Zenon DEF PollInv, PollFlags
<1> QED
  BY <1>1, <1>2 DEF PollInv, PollBooks, Held, Poll!TogglesAgree

(* ------------------------------- the channels ----------------------------- *)

\* What the slot and the channel of an owner hold, at each place the owner can be.
SlotsOwned ==
  \A c \in Chan :
    /\ user[c] = "idle" => wait[c] = NoWait /\ ready[c] = "none" /\ chan[c] = "off" /\ c \notin unmasked
    /\ user[c] = "polling" => wait[c] = NoWait /\ ready[c] = "none" /\ c \notin unmasked
    /\ user[c] = "armed" => wait[c] = ForHalt /\ ready[c] = "none" /\ chan[c] = "off"
    /\ user[c] = "waiting" => /\ wait[c] # NoWait => ready[c] = "none"
                              /\ wait[c] # ForHalt => chan[c] = "off"

\* Off an endpoint where nothing was dropped the toggles differ just while a packet that went
\* through has yet to be told to the caller.
SlotsCounted == \A c \in Chan \ cut : c \in apart <=> chan[c] = "xfrc" \/ ready[c] = "xfrc"

SlotsInv == TypeOK /\ SlotsOwned /\ SlotsCounted /\ SofWhileAwaited

-----------------------------------------------------------------------------
USE FramesAssumption

\* The places of a slot are three kinds of number apart.
LEMMA SlotsWaits ==
  /\ NoWait \in 0..ForHalt /\ ForHalt \in 0..ForHalt /\ NoWait # ForHalt
  /\ 0..Frames - 1 \subseteq 0..ForHalt
  /\ \A f \in 0..Frames - 1 : f # NoWait /\ f # ForHalt /\ f < Frames
  /\ ~(NoWait < Frames) /\ ~(ForHalt < Frames)
  /\ \A f \in 0..Frames - 1 : (f + 1) % Frames \in 0..Frames - 1
BY DEF NoWait, ForHalt

\* The invariant holds at the start: nothing waits and nothing runs.
LEMMA SlotsInit == Init => SlotsInv
<1> SUFFICES ASSUME Init PROVE SlotsInv
  OBVIOUS
<1>1. TypeOK
  <2>1. waker \in [Chan -> BOOLEAN] /\ due \in [Chan -> BOOLEAN] /\ sof \in BOOLEAN /\ sofm \in BOOLEAN
    BY Zenon DEF Init
  <2>2. 0 \in 0..Frames - 1
    OBVIOUS
  <2>3. wait \in [Chan -> 0..ForHalt]
    BY SlotsWaits DEF Init
  <2> QED
    BY <2>1, <2>2, <2>3 DEF Init, TypeOK
<1>2. SlotsOwned /\ SlotsCounted /\ SofWhileAwaited
  BY SlotsWaits DEF Init, SlotsOwned, SlotsCounted, SofWhileAwaited, AnyFrameWaiter
<1> QED
  BY <1>1, <1>2 DEF SlotsInv

\* The core's own steps: a microframe passes, a channel halts.
LEMMA SlotsMicroframe == SlotsInv /\ Microframe => SlotsInv'
<1> SUFFICES ASSUME SlotsInv, Microframe PROVE SlotsInv'
  OBVIOUS
<1>1. TypeOK'
  BY SlotsWaits DEF SlotsInv, TypeOK, Microframe, owners, slots
<1>2. (SlotsOwned /\ SlotsCounted /\ SofWhileAwaited)'
  BY DEF SlotsInv, SlotsOwned, SlotsCounted, SofWhileAwaited, AnyFrameWaiter, Microframe, owners, slots
<1> QED
  BY <1>1, <1>2 DEF SlotsInv

LEMMA SlotsHalt == ASSUME NEW c \in Chan, SlotsInv, Halt(c) PROVE SlotsInv'
<1>1. PICK how \in Outcome : /\ chan' = [chan EXCEPT ![c] = how]
                             /\ apart' = IF how = "xfrc" THEN Flip(c) ELSE apart
  BY DEF Halt
<1>2. UNCHANGED <<user, due, cut, wait, ready, waker, wedged, unmasked, frame, sof, sofm>> /\ chan[c] = "live"
  BY DEF Halt, slots, bus
<1>3. TypeOK'
  BY <1>1, <1>2 DEF SlotsInv, TypeOK, Flip
<1>4. SlotsOwned'
  BY <1>1, <1>2 DEF SlotsInv, SlotsOwned, TypeOK
<1>5. SlotsCounted'
  <2>1. ready[c] # "xfrc"
    BY <1>2, SlotsWaits DEF SlotsInv, SlotsOwned, TypeOK
  <2> QED
    BY <1>1, <1>2, <2>1 DEF SlotsInv, SlotsCounted, TypeOK, Flip, Outcome
<1>6. SofWhileAwaited'
  BY <1>2 DEF SlotsInv, SofWhileAwaited, AnyFrameWaiter
<1> QED
  BY <1>3, <1>4, <1>5, <1>6 DEF SlotsInv

\* The handler.
LEMMA SlotsOnIrq == SlotsInv /\ OnIrq => SlotsInv'
<1> SUFFICES ASSUME SlotsInv, OnIrq PROVE SlotsInv'
  OBVIOUS
<1>1. \A c \in Chan : c \in Resolved => wait[c] # NoWait /\ (wait[c] = ForHalt => chan[c] \in Outcome)
  BY SlotsWaits DEF Resolved, HaltedNow, SlotsInv, TypeOK
<1>2. UNCHANGED <<user, apart, cut, wedged, unmasked, frame>>
  BY DEF OnIrq
<1>3. TypeOK'
  <2>1. wait' \in [Chan -> 0..ForHalt] /\ waker' \in [Chan -> BOOLEAN] /\ due' \in [Chan -> BOOLEAN]
    BY SlotsWaits DEF OnIrq, SlotsInv, TypeOK
  <2>2. ready' \in [Chan -> Outcome \cup {"none", "frame"}]
    BY <1>1 DEF OnIrq, SlotsInv, TypeOK
  <2>3. chan' \in [Chan -> Outcome \cup {"off", "live"}]
    BY DEF OnIrq, SlotsInv, TypeOK
  <2>4. sof' \in BOOLEAN /\ sofm' \in BOOLEAN
    BY ZenonT(20) DEF OnIrq, SlotsInv, TypeOK, AnyFrameWaiter
  <2> QED
    BY <1>2, <2>1, <2>2, <2>3, <2>4 DEF SlotsInv, TypeOK
<1>4. SlotsOwned'
  <2> SUFFICES ASSUME NEW c \in Chan
               PROVE /\ user'[c] = "idle" => wait'[c] = NoWait /\ ready'[c] = "none" /\ chan'[c] = "off" /\ c \notin unmasked'
                     /\ user'[c] = "polling" => wait'[c] = NoWait /\ ready'[c] = "none" /\ c \notin unmasked'
                     /\ user'[c] = "armed" => wait'[c] = ForHalt /\ ready'[c] = "none" /\ chan'[c] = "off"
                     /\ user'[c] = "waiting" => /\ wait'[c] # NoWait => ready'[c] = "none"
                                                /\ wait'[c] # ForHalt => chan'[c] = "off"
    BY DEF SlotsOwned
  <2>1. CASE c \in Resolved
    <3>1. user[c] = "waiting"
      BY <1>1, <2>1, SlotsWaits DEF SlotsInv, SlotsOwned, TypeOK, Outcome
    <3>2. wait'[c] = NoWait /\ (wait[c] = ForHalt => chan'[c] = "off") /\ (wait[c] # ForHalt => chan'[c] = chan[c])
      BY <2>1 DEF OnIrq, SlotsInv, TypeOK
    <3> QED
      BY <1>2, <3>1, <3>2 DEF SlotsInv, SlotsOwned
  <2>2. CASE c \notin Resolved
    BY <1>2, <2>2 DEF OnIrq, SlotsInv, SlotsOwned, TypeOK
  <2> QED
    BY <2>1, <2>2
<1>5. SlotsCounted'
  <2> SUFFICES ASSUME NEW c \in Chan \ cut
               PROVE c \in apart <=> chan'[c] = "xfrc" \/ ready'[c] = "xfrc"
    BY <1>2 DEF SlotsCounted
  <2>1. CASE c \in Resolved /\ wait[c] = ForHalt
    <3>1. chan'[c] = "off" /\ ready'[c] = chan[c]
      BY <2>1 DEF OnIrq, SlotsInv, TypeOK
    <3>2. ready[c] = "none"
      BY <2>1, SlotsWaits DEF SlotsInv, SlotsOwned, TypeOK
    <3> QED
      BY <3>1, <3>2 DEF SlotsInv, SlotsCounted
  <2>2. CASE c \in Resolved /\ wait[c] # ForHalt
    <3>1. chan'[c] = chan[c] /\ ready'[c] = "frame"
      BY <2>2 DEF OnIrq, SlotsInv, TypeOK
    <3>2. ready[c] = "none"
      BY <1>1, <2>2 DEF SlotsInv, SlotsOwned, TypeOK
    <3> QED
      BY <3>1, <3>2 DEF SlotsInv, SlotsCounted
  <2>3. CASE c \notin Resolved
    BY <2>3 DEF OnIrq, SlotsInv, SlotsCounted, TypeOK
  <2> QED
    BY <2>1, <2>2, <2>3
<1>6. SofWhileAwaited'
  <2>1. AnyFrameWaiter(wait') => AnyFrameWaiter(wait)
    BY SlotsWaits DEF OnIrq, AnyFrameWaiter, SlotsInv, TypeOK
  <2>2. ~sof => (AnyFrameWaiter(wait) => AnyFrameWaiter(wait'))
    BY SlotsWaits DEF OnIrq, AnyFrameWaiter, SlotsInv, TypeOK, Resolved
  <2>3. sofm' <=> (sofm /\ (sof => AnyFrameWaiter(wait')))
    BY DEF OnIrq
  <2> QED
    BY <2>1, <2>2, <2>3 DEF SlotsInv, SofWhileAwaited
<1> QED
  BY <1>3, <1>4, <1>5, <1>6 DEF SlotsInv

-----------------------------------------------------------------------------
\* What arm and disarm leave behind: the slot and the masks.
LEMMA SlotsArm ==
  ASSUME NEW c \in Chan, NEW w \in 0..ForHalt, SlotsInv, Arm(c, w), w # NoWait
  PROVE /\ wait' \in [Chan -> 0..ForHalt] /\ ready' \in [Chan -> Outcome \cup {"none", "frame"}]
        /\ waker' \in [Chan -> BOOLEAN] /\ unmasked' \subseteq Chan /\ sofm' \in BOOLEAN
        /\ wait'[c] = w /\ ready'[c] = "none"
        /\ \A o \in Chan \ {c} : wait'[o] = wait[o] /\ ready'[o] = ready[o] /\ (o \in unmasked' <=> o \in unmasked)
        /\ SofWhileAwaited'
<1>1. wait' \in [Chan -> 0..ForHalt] /\ ready' \in [Chan -> Outcome \cup {"none", "frame"}] /\ waker' \in [Chan -> BOOLEAN]
  BY DEF Arm, SlotsInv, TypeOK
<1>2. unmasked' \subseteq Chan
  BY DEF Arm, SlotsInv, TypeOK
<1>3. sofm' = AnyFrameWaiter(wait')
  BY DEF Arm
<1>4. sofm' \in BOOLEAN
  BY <1>3, Zenon DEF AnyFrameWaiter
<1>5. SofWhileAwaited'
  BY <1>3, Zenon DEF SofWhileAwaited
<1>6. wait'[c] = w /\ ready'[c] = "none"
  BY DEF Arm, SlotsInv, TypeOK
<1>7. \A o \in Chan \ {c} : wait'[o] = wait[o] /\ ready'[o] = ready[o] /\ (o \in unmasked' <=> o \in unmasked)
  BY DEF Arm, SlotsInv, TypeOK
<1> QED
  BY <1>1, <1>2, <1>4, <1>5, <1>6, <1>7

LEMMA SlotsDisarm ==
  ASSUME NEW c \in Chan, SlotsInv, Disarm(c)
  PROVE /\ wait' \in [Chan -> 0..ForHalt] /\ ready' \in [Chan -> Outcome \cup {"none", "frame"}]
        /\ waker' \in [Chan -> BOOLEAN] /\ unmasked' \subseteq Chan /\ sofm' \in BOOLEAN
        /\ wait'[c] = NoWait /\ ready'[c] = "none" /\ c \notin unmasked'
        /\ \A o \in Chan \ {c} : wait'[o] = wait[o] /\ ready'[o] = ready[o] /\ (o \in unmasked' <=> o \in unmasked)
        /\ SofWhileAwaited'
<1>1. wait' \in [Chan -> 0..ForHalt] /\ ready' \in [Chan -> Outcome \cup {"none", "frame"}] /\ waker' \in [Chan -> BOOLEAN]
  BY SlotsWaits DEF Disarm, SlotsInv, TypeOK
<1>2. unmasked' \subseteq Chan /\ c \notin unmasked'
  BY DEF Disarm, SlotsInv, TypeOK
<1>3. sofm' = (sofm /\ AnyFrameWaiter(wait'))
  BY DEF Disarm
<1>4. sofm' \in BOOLEAN
  BY <1>3, Zenon DEF AnyFrameWaiter
<1>5. wait'[c] = NoWait /\ ready'[c] = "none"
  BY DEF Disarm, SlotsInv, TypeOK
<1>6. \A o \in Chan \ {c} : wait'[o] = wait[o] /\ ready'[o] = ready[o] /\ (o \in unmasked' <=> o \in unmasked)
  BY DEF Disarm, SlotsInv, TypeOK
<1>7. AnyFrameWaiter(wait') => AnyFrameWaiter(wait)
  BY <1>5, <1>6, SlotsWaits DEF AnyFrameWaiter
<1>8. SofWhileAwaited'
  BY <1>3, <1>7, Zenon DEF SlotsInv, SofWhileAwaited
<1> QED
  BY <1>1, <1>2, <1>4, <1>5, <1>6, <1>8

\* The owners' steps, one lemma each.
LEMMA SlotsBegin == ASSUME NEW c \in Chan, SlotsInv, Begin(c) PROVE SlotsInv'
<1>1. Arm(c, ForHalt) /\ user' = [user EXCEPT ![c] = "armed"] /\ user[c] = "idle"
      /\ UNCHANGED <<due, apart, cut, chan, wedged, frame, sof>>
  BY DEF Begin, bus
<1>2. TypeOK'
  BY <1>1, SlotsArm, SlotsWaits DEF SlotsInv, TypeOK
<1>3. SlotsOwned'
  BY <1>1, SlotsArm, SlotsWaits DEF SlotsInv, TypeOK, SlotsOwned
<1>4. SlotsCounted'
  BY <1>1, SlotsArm, SlotsWaits DEF SlotsInv, TypeOK, SlotsOwned, SlotsCounted
<1> QED
  BY <1>1, <1>2, <1>3, <1>4, SlotsArm, SlotsWaits DEF SlotsInv

LEMMA SlotsAwaitFrame == ASSUME NEW c \in Chan, NEW f \in 0..Frames - 1, SlotsInv, AwaitFrame(c, f) PROVE SlotsInv'
<1>1. Arm(c, f) /\ user' = [user EXCEPT ![c] = "waiting"] /\ due' = [due EXCEPT ![c] = TRUE] /\ user[c] = "idle"
      /\ UNCHANGED <<apart, cut, chan, wedged, frame, sof>>
  BY DEF AwaitFrame, bus
<1>2. TypeOK'
  BY <1>1, SlotsArm, SlotsWaits DEF SlotsInv, TypeOK
<1>3. SlotsOwned'
  BY <1>1, SlotsArm, SlotsWaits DEF SlotsInv, TypeOK, SlotsOwned
<1>4. SlotsCounted'
  BY <1>1, SlotsArm, SlotsWaits DEF SlotsInv, TypeOK, SlotsOwned, SlotsCounted
<1> QED
  BY <1>1, <1>2, <1>3, <1>4, SlotsArm, SlotsWaits DEF SlotsInv

LEMMA SlotsStartChannel == ASSUME NEW c \in Chan, SlotsInv, StartChannel(c) PROVE SlotsInv'
<1>1. chan' = [chan EXCEPT ![c] = "live"] /\ user' = [user EXCEPT ![c] = "waiting"] /\ due' = [due EXCEPT ![c] = TRUE]
      /\ user[c] = "armed" /\ UNCHANGED <<wait, ready, waker, wedged, unmasked, apart, cut, frame, sof, sofm>>
  BY DEF StartChannel, slots, bus
<1>2. TypeOK'
  BY <1>1 DEF SlotsInv, TypeOK
<1>3. SlotsOwned'
  BY <1>1 DEF SlotsInv, TypeOK, SlotsOwned
<1>4. SlotsCounted'
  BY <1>1 DEF SlotsInv, TypeOK, SlotsOwned, SlotsCounted
<1>5. SofWhileAwaited'
  BY <1>1 DEF SlotsInv, SofWhileAwaited, AnyFrameWaiter
<1> QED
  BY <1>2, <1>3, <1>4, <1>5 DEF SlotsInv

LEMMA SlotsPollReady == ASSUME NEW c \in Chan, SlotsInv, PollReady(c) PROVE SlotsInv'
<1>1. /\ Disarm(c) /\ user[c] = "waiting" /\ ready[c] # "none"
      /\ apart' = IF ready[c] = "xfrc" THEN Flip(c) ELSE apart
      /\ user' = [user EXCEPT ![c] = "idle"] /\ due' = [due EXCEPT ![c] = FALSE]
      /\ UNCHANGED <<cut, chan, wedged, frame, sof>>
  BY DEF PollReady, bus
<1>2. chan[c] = "off"
  BY <1>1, SlotsWaits DEF SlotsInv, TypeOK, SlotsOwned
<1>3. TypeOK'
  BY <1>1, SlotsDisarm DEF SlotsInv, TypeOK, Flip
<1>4. SlotsOwned'
  BY <1>1, <1>2, SlotsDisarm DEF SlotsInv, TypeOK, SlotsOwned
<1>5. SlotsCounted'
  BY <1>1, <1>2, SlotsDisarm DEF SlotsInv, TypeOK, SlotsCounted, Flip
<1> QED
  BY <1>1, <1>3, <1>4, <1>5, SlotsDisarm DEF SlotsInv

LEMMA SlotsPollPending == ASSUME NEW c \in Chan, SlotsInv, PollPending(c) PROVE SlotsInv'
<1>1. waker' = [waker EXCEPT ![c] = TRUE] /\ due' = [due EXCEPT ![c] = FALSE]
      /\ UNCHANGED <<user, wait, ready, apart, cut, chan, wedged, unmasked, frame, sof, sofm>>
  BY DEF PollPending, bus
<1>2. TypeOK'
  BY <1>1 DEF SlotsInv, TypeOK
<1>3. (SlotsOwned /\ SlotsCounted /\ SofWhileAwaited)'
  BY <1>1 DEF SlotsInv, SlotsOwned, SlotsCounted, SofWhileAwaited, AnyFrameWaiter
<1> QED
  BY <1>2, <1>3 DEF SlotsInv

LEMMA SlotsDrop == ASSUME NEW c \in Chan, SlotsInv, Drop(c) PROVE SlotsInv'
<1>1. /\ Disarm(c) /\ user[c] = "waiting"
      /\ chan' = [chan EXCEPT ![c] = IF wait[c] = ForHalt THEN "off" ELSE @]
      /\ cut' = IF wait[c] = ForHalt \/ ready[c] \in Outcome THEN cut \cup {c} ELSE cut
      /\ user' = [user EXCEPT ![c] = "idle"] /\ due' = [due EXCEPT ![c] = FALSE]
      /\ UNCHANGED <<apart, frame, sof>> /\ wedged' \in {wedged, wedged \cup {c}}
  BY DEF Drop, bus
<1>2. chan'[c] = "off"
  BY <1>1 DEF SlotsInv, TypeOK, SlotsOwned
<1>3. TypeOK'
  BY <1>1, SlotsDisarm DEF SlotsInv, TypeOK
<1>4. SlotsOwned'
  BY <1>1, <1>2, SlotsDisarm DEF SlotsInv, TypeOK, SlotsOwned
<1>5. SlotsCounted'
  BY <1>1, <1>2, SlotsDisarm DEF SlotsInv, TypeOK, SlotsOwned, SlotsCounted, Outcome
<1> QED
  BY <1>1, <1>3, <1>4, <1>5, SlotsDisarm DEF SlotsInv

LEMMA SlotsBeginPolled == ASSUME NEW c \in Chan, SlotsInv, BeginPolled(c) PROVE SlotsInv'
<1>1. chan' = [chan EXCEPT ![c] = "live"] /\ user' = [user EXCEPT ![c] = "polling"] /\ user[c] = "idle"
      /\ UNCHANGED <<due, apart, cut, wait, ready, waker, wedged, unmasked, frame, sof, sofm>>
  BY DEF BeginPolled, slots, bus
<1>2. TypeOK'
  BY <1>1 DEF SlotsInv, TypeOK
<1>3. SlotsOwned'
  BY <1>1 DEF SlotsInv, TypeOK, SlotsOwned
<1>4. SlotsCounted'
  BY <1>1 DEF SlotsInv, TypeOK, SlotsOwned, SlotsCounted
<1>5. SofWhileAwaited'
  BY <1>1 DEF SlotsInv, SofWhileAwaited, AnyFrameWaiter
<1> QED
  BY <1>2, <1>3, <1>4, <1>5 DEF SlotsInv

LEMMA SlotsPolls == ASSUME NEW c \in Chan, SlotsInv, Polls(c) PROVE SlotsInv'
<1>1. /\ user[c] = "polling" /\ apart' = IF chan[c] = "xfrc" THEN Flip(c) ELSE apart
      /\ chan' = [chan EXCEPT ![c] = "off"] /\ user' = [user EXCEPT ![c] = "idle"]
      /\ UNCHANGED <<due, cut, wait, ready, waker, wedged, unmasked, frame, sof, sofm>>
  BY DEF Polls, slots, bus
<1>2. TypeOK'
  BY <1>1 DEF SlotsInv, TypeOK, Flip
<1>3. SlotsOwned'
  BY <1>1 DEF SlotsInv, TypeOK, SlotsOwned
<1>4. SlotsCounted'
  BY <1>1 DEF SlotsInv, TypeOK, SlotsOwned, SlotsCounted, Flip
<1>5. SofWhileAwaited'
  BY <1>1 DEF SlotsInv, SofWhileAwaited, AnyFrameWaiter
<1> QED
  BY <1>2, <1>3, <1>4, <1>5 DEF SlotsInv

LEMMA SlotsTimesOut == ASSUME NEW c \in Chan, SlotsInv, TimesOut(c) PROVE SlotsInv'
<1>1. /\ user[c] = "polling" /\ chan[c] = "live"
      /\ chan' = [chan EXCEPT ![c] = "off"] /\ user' = [user EXCEPT ![c] = "idle"]
      /\ UNCHANGED <<due, apart, cut, wait, ready, waker, wedged, unmasked, frame, sof, sofm>>
  BY DEF TimesOut, slots, bus
<1>2. TypeOK'
  BY <1>1 DEF SlotsInv, TypeOK
<1>3. SlotsOwned'
  BY <1>1 DEF SlotsInv, TypeOK, SlotsOwned
<1>4. SlotsCounted'
  BY <1>1 DEF SlotsInv, TypeOK, SlotsOwned, SlotsCounted
<1>5. SofWhileAwaited'
  BY <1>1 DEF SlotsInv, SofWhileAwaited, AnyFrameWaiter
<1> QED
  BY <1>2, <1>3, <1>4, <1>5 DEF SlotsInv

LEMMA SlotsConfigure == ASSUME NEW c \in Chan, SlotsInv, Configure(c) PROVE SlotsInv'
<1>1. /\ user[c] = "idle" /\ apart' = apart \ {c} /\ cut' = cut \ {c}
      /\ UNCHANGED <<user, due, wait, ready, waker, chan, wedged, unmasked, frame, sof, sofm>>
  BY DEF Configure, slots, bus
<1>2. TypeOK'
  BY <1>1 DEF SlotsInv, TypeOK
<1>3. (SlotsOwned /\ SofWhileAwaited)'
  BY <1>1 DEF SlotsInv, SlotsOwned, SofWhileAwaited, AnyFrameWaiter
<1>4. SlotsCounted'
  BY <1>1 DEF SlotsInv, TypeOK, SlotsOwned, SlotsCounted
<1> QED
  BY <1>2, <1>3, <1>4 DEF SlotsInv

-----------------------------------------------------------------------------
LEMMA SlotsNext == SlotsInv /\ [Next]_vars => SlotsInv'
<1> SUFFICES ASSUME SlotsInv, [Next]_vars PROVE SlotsInv'
  OBVIOUS
<1>1. CASE Microframe
  BY <1>1, SlotsMicroframe
<1>2. CASE OnIrq
  BY <1>2, SlotsOnIrq
<1>3. ASSUME NEW c \in Chan, Halt(c) \/ Go(c) \/ Choose(c) PROVE SlotsInv'
  BY <1>3, SlotsHalt, SlotsStartChannel, SlotsPollReady, SlotsPollPending, SlotsPolls, SlotsBegin,
     SlotsDrop, SlotsTimesOut,
     SlotsBeginPolled, SlotsConfigure, SlotsAwaitFrame DEF Go, Choose
<1>4. CASE UNCHANGED vars
  <2>1. UNCHANGED <<user, due, apart, cut, wait, ready, waker, chan, wedged, unmasked, frame, sof, sofm>>
    BY <1>4 DEF vars, owners, slots, bus
  <2>2. TypeOK'
    BY <2>1 DEF SlotsInv, TypeOK
  <2>3. (SlotsOwned /\ SlotsCounted /\ SofWhileAwaited)'
    BY <2>1 DEF SlotsInv, SlotsOwned, SlotsCounted, SofWhileAwaited, AnyFrameWaiter
  <2> QED
    BY <2>2, <2>3 DEF SlotsInv
<1> QED
  BY <1>1, <1>2, <1>3, <1>4 DEF Next

LEMMA SlotsSound == SlotsInv => ChannelsSound
<1> SUFFICES ASSUME SlotsInv PROVE ChannelsSound
  OBVIOUS
<1>1. LiveIsOwned
  BY DEF SlotsInv, TypeOK, SlotsOwned, LiveIsOwned
<1>2. NoStorm
  BY DEF SlotsInv, TypeOK, SlotsOwned, NoStorm, HaltedNow, Outcome
<1>3. TogglesAgree
  BY DEF SlotsInv, TypeOK, SlotsOwned, SlotsCounted, TogglesAgree
<1> QED
  BY <1>1, <1>2, <1>3 DEF SlotsInv, ChannelsSound

(* ----------------------------- the composition ---------------------------- *)

UsbInv == SlotsInv /\ BusInv /\ b_fault \in BOOLEAN /\ PollInv

LEMMA UsbStart == MCInit => UsbInv
BY SlotsInit, BusInit, BusFault, PollInit DEF MCInit, UsbInv

\* A step is of one part, and a stutter of the others.
LEMMA OneMoves == [MCNext]_<<program, vars, bVars, pVars>> => [Next]_vars /\ [Bus!Next]_bVars /\ [Poll!Next]_pVars
BY DEF MCNext

LEMMA UsbStep == UsbInv /\ [MCNext]_<<program, vars, bVars, pVars>> => UsbInv'
BY OneMoves, SlotsNext, BusNext, BusFault, PollNext DEF UsbInv

LEMMA UsbAlways == MCSpec => []UsbInv
BY UsbStart, UsbStep, PTL DEF MCSpec

\* Every part keeps its types.
THEOREM UsbTypes == MCSpec => []TypesOK
<1>1. UsbInv => TypesOK
  BY BusTypeKept DEF UsbInv, TypesOK, SlotsInv, PollInv
<1> QED
  BY <1>1, UsbAlways, PTL

\* usb/mod.rs: whatever is plugged in, swapped and pulled out, wherever a pass is stopped and an
\* enumeration or a device's bring-up fails, an address in use stands on one port and the callback knows
\* of it, a hub's record hangs on one, one is left for whatever arrives, and two devices answer to an
\* address only if attach gave one of them up, as it does with one whose SET_ADDRESS status was lost.
\* interrupt.rs: unless the host was upset, a packet held by a hub is fetched in its window; between
\* polls the toggles agree and no report was lost or handed on twice.
THEOREM UsbInStep == MCSpec => []BusInStep
<1>1. UsbInv => BusInStep
  BY BusKept, BusAddressesLast, PollKept DEF UsbInv, BusInStep
<1> QED
  BY <1>1, UsbAlways, PTL

\* asynch.rs: start of frame is on just while a microframe is awaited, no level is let through to
\* a handler that would not clear it, no channel runs unowned and the toggles agree, whatever the
\* order in which channels halt, futures are polled and dropped and the handler is taken.
THEOREM UsbChannels == MCSpec => []ChannelsSound
<1>1. UsbInv => ChannelsSound
  BY SlotsSound DEF UsbInv
<1> QED
  BY <1>1, UsbAlways, PTL
=============================================================================
