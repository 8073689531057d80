------------------------------- MODULE UsbBus -------------------------------
(***************************************************************************)
(* The bus behind the USB host (hal/src/usb/mod.rs, with probe_and_address  *)
(* of usb/control.rs): addresses handed out and taken back, the table of    *)
(* hubs, and sweeps that compare what every port reports with what was last *)
(* seen there.  Devices come and go at any time, between two looks too, and *)
(* may fail any step of their bring-up.  Hubs sit on the root hub only, so a *)
(* subtree is one level deep; what a device answers is external.            *)
(***************************************************************************)
EXTENDS FiniteSets, Naturals, Sequences

CONSTANTS Function, Hub,      \* devices that can be plugged in, hubs among them apart
          Root,               \* the hub soldered on, address 1, in the table at 1 once enumerated
          Ports,              \* ports of a hub
          MaxHubs, MaxAddress,
          Off, Failed         \* answers to no address; PORT_FAILED

Device == Function \cup Hub
Port == 1..Ports
Index == 1..MaxHubs
Nowhere == [on |-> Off, port |-> 0]
Vacant == [i \in Index |-> Nowhere]

VARIABLES loc,       \* where a device is plugged in
          at,        \* the address it answers to: Off, 0 just after a reset, or its own
          hubs,      \* the table: [dev, address, ports], or Nowhere
          used,      \* the bitmap of addresses
          reported,  \* addresses the callback was told of and not told are gone
          stack,     \* ports to visit: a sweep at the bottom, the walk of a new hub above it
          fault      \* what the last pass ended with

table == <<hubs, used, reported>>
vars == <<loc, at, table, stack, fault>>

Fresh(d, a) == [dev |-> d, address |-> a, ports |-> [p \in Port |-> 0]]
Frame(i, p) == [hub |-> i, port |-> p]

Init == /\ loc = [d \in Device |-> Nowhere] /\ at = [d \in Device \cup {Root} |-> Off]
        /\ hubs = Vacant /\ used = {} /\ reported = {} /\ stack = <<>> /\ fault = FALSE

-----------------------------------------------------------------------------
(* Hands and cables *)

Behind(d) == {d} \cup {x \in Device : loc[x].on = d}
Tracked(i) == hubs[i] # Nowhere

Plug(d) == /\ loc[d] = Nowhere
           /\ \E h \in {Root} \cup (IF d \in Function THEN Hub ELSE {}), p \in Port :
                /\ \A x \in Device : loc[x] # [on |-> h, port |-> p]
                /\ loc' = [loc EXCEPT ![d] = [on |-> h, port |-> p]]
           /\ UNCHANGED <<at, table, stack, fault>>

Unplug(d) == /\ loc[d] # Nowhere
             /\ loc' = [loc EXCEPT ![d] = Nowhere]
             /\ at' = [x \in Device \cup {Root} |-> IF x \in Behind(d) THEN Off ELSE at[x]]
             /\ UNCHANGED <<table, stack, fault>>

-----------------------------------------------------------------------------
(* Addresses and the table *)

FreeAddresses == (1..MaxAddress) \ used
Lowest(S) == CHOOSE a \in S : \A b \in S : a <= b
FreeIndexes == {i \in Index : ~Tracked(i)}
SetPort(i, p, v) == [hubs EXCEPT ![i].ports[p] = v]

\* The port being visited, and the rest of the pass.
Here == stack[Len(stack)]
Below == SubSeq(stack, 1, Len(stack) - 1)
Advance == Append(Below, Frame(Here.hub, Here.port + 1))
Answers(i) == at[hubs[i].dev] = hubs[i].address
\* Another device answers to the hub's address as well.
Talked(i) == \E x \in Device \ {hubs[i].dev} : at[x] = hubs[i].address
OnPort(i, p) == {d \in Device : loc[d] = [on |-> hubs[i].dev, port |-> p]}
Visiting == stack # <<>> /\ Here.port \in Port
Seen == hubs[Here.hub].ports[Here.port]

\* poll: the caller's loop comes round; there is nothing to read before the root hub is known.
Poll == /\ stack = <<>> /\ Tracked(1) /\ stack' = <<Frame(1, 1)>> /\ fault' = FALSE
        /\ UNCHANGED <<loc, at, table>>

\* Mutant: the holes in the table are swept too.
NextHubAny(i) == {j \in Index : j > i}

\* The hub's last port done: back to the walk it was met on, or on to the table's next hub.
NextHub(i) == {j \in Index : j > i /\ Tracked(j)}

Leave == /\ stack # <<>> /\ Here.port \notin Port
         /\ stack' = IF Len(stack) > 1 THEN Below
                     ELSE IF NextHub(Here.hub) = {} THEN <<>> ELSE <<Frame(Lowest(NextHub(Here.hub)), 1)>>
         /\ UNCHANGED <<loc, at, table, fault>>

\* sweep_hub, walk_hub: a port that cannot be read, or says what is known of it.
Same == /\ Visiting
        /\ \/ ~Answers(Here.hub) \/ Talked(Here.hub)
           \/ OnPort(Here.hub, Here.port) = {} <=> Seen = 0
        /\ stack' = Advance
        /\ UNCHANGED <<loc, at, table, fault>>

\* sweep_hub: a port that had failed is empty, and may be tried afresh.
Forget == /\ Visiting /\ Answers(Here.hub) /\ OnPort(Here.hub, Here.port) = {} /\ Seen = Failed
          /\ hubs' = SetPort(Here.hub, Here.port, 0) /\ stack' = Advance
          /\ UNCHANGED <<loc, at, used, reported, fault>>

Arrived(d) == Visiting /\ Answers(Here.hub) /\ d \in OnPort(Here.hub, Here.port) /\ Seen = 0

\* attach, the reset refused or the port not enabled by it.
ResetFails(d) == /\ Arrived(d)
                 /\ at' = [at EXCEPT ![d] = Off]
                 /\ hubs' = SetPort(Here.hub, Here.port, Failed) /\ stack' = Advance
                 /\ UNCHANGED <<loc, used, reported, fault>>

\* SET_ADDRESS is heard by whatever is at address 0.
Addressed(d, a) == [x \in Device \cup {Root} |-> IF x = d \/ at[x] = 0 THEN a ELSE at[x]]

\* attach, probe_and_address failing: the device gone dead, left at 0, or SET_ADDRESS obeyed and its
\* status stage lost.  The address goes back all the same and the port stays enabled.  That there is
\* one to take is AddressesLast.
ProbeFails(d) == /\ Arrived(d) /\ FreeAddresses # {}
                 /\ at' \in {[at EXCEPT ![d] = Off], [at EXCEPT ![d] = 0], Addressed(d, Lowest(FreeAddresses))}
                 /\ hubs' = SetPort(Here.hub, Here.port, Failed) /\ stack' = Advance
                 /\ UNCHANGED <<loc, used, reported, fault>>

\* attach, reported: unless the callback stops the pass, a hub is configured (or not), filed and walked.
Attach(d) == /\ Arrived(d) /\ FreeAddresses # {}
             /\ LET a == Lowest(FreeAddresses)
                    known == SetPort(Here.hub, Here.port, a)
                IN /\ at' = Addressed(d, a) /\ used' = used \cup {a} /\ reported' = reported \cup {a}
                   /\ \/ hubs' = known /\ stack' = <<>> /\ UNCHANGED fault
                      \/ hubs' = known /\ stack' = Advance /\ UNCHANGED fault
                      \/ /\ d \in Hub /\ FreeIndexes = {}
                         /\ hubs' = known /\ stack' = <<>> /\ fault' = TRUE
                      \/ /\ d \in Hub /\ FreeIndexes # {}
                         /\ hubs' = [known EXCEPT ![Lowest(FreeIndexes)] = Fresh(d, a)]
                         /\ stack' = Append(Advance, Frame(Lowest(FreeIndexes), 1)) /\ UNCHANGED fault
             /\ UNCHANGED loc

Gone == Visiting /\ Answers(Here.hub) /\ OnPort(Here.hub, Here.port) = {} /\ Seen \notin {0, Failed}
Records(a) == {i \in Index : Tracked(i) /\ hubs[i].address = a}
BelowIt(a) == (UNION {{hubs[i].ports[p] : p \in Port} : i \in Records(a)}) \ {0, Failed}

\* Mutant: what was behind a hub keeps its addresses.
DetachAlone == /\ Gone
               /\ hubs' = [i \in Index |-> IF i \in Records(Seen) THEN Nowhere
                                           ELSE SetPort(Here.hub, Here.port, 0)[i]]
               /\ used' = used \ {Seen} /\ reported' = reported \ {Seen}
               /\ stack' \in {Advance, <<>>}
               /\ UNCHANGED <<loc, at, fault>>

\* detach, detach_subtree: the record goes, then all behind it, then it; a break is kept till the end.
Detach == /\ Gone
          /\ hubs' = [i \in Index |-> IF i \in Records(Seen) THEN Nowhere ELSE SetPort(Here.hub, Here.port, 0)[i]]
          /\ used' = used \ ({Seen} \cup BelowIt(Seen))
          /\ reported' = reported \ ({Seen} \cup BelowIt(Seen))
          /\ stack' \in {Advance, <<>>}
          /\ UNCHANGED <<loc, at, fault>>

\* enumerate: the root port reset, everything known discarded, the root hub addressed and configured.
Enumerate == /\ stack = <<>>
             /\ at' = [d \in Device \cup {Root} |-> IF d = Root THEN 1 ELSE Off]
             /\ hubs' = [Vacant EXCEPT ![1] = Fresh(Root, 1)]
             /\ used' = {1} /\ reported' = {} /\ stack' = <<Frame(1, 1)>> /\ fault' = FALSE
             /\ UNCHANGED loc

\* enumerate, the port not enabled by its reset, which no device outlives; or, with everything known
\* discarded, no channel to be had; or the root hub failing its probe or its configuration.
EnumerateFails == /\ stack = <<>>
                  /\ \E a \in {Off, 0, 1} :
                       /\ at' = [d \in Device \cup {Root} |-> IF d = Root THEN a ELSE Off]
                       /\ \/ a = Off /\ UNCHANGED table
                          \/ a = Off /\ hubs' = Vacant /\ used' = {} /\ reported' = {}
                          \/ hubs' = Vacant /\ used' = {1} /\ reported' = {}
                  /\ fault' = TRUE
                  /\ UNCHANGED <<loc, stack>>

Arrive(d) == ResetFails(d) \/ ProbeFails(d) \/ Attach(d)
Sweep == Poll \/ Leave \/ Same \/ Forget \/ Detach \/ \E d \in Device : Arrive(d)
Next == Sweep \/ Enumerate \/ EnumerateFails \/ \E d \in Device : Plug(d) \/ Unplug(d)
Spec == Init /\ [][Next]_vars

\* The callback stops a pass.
Stops == Visiting /\ stack' = <<>> /\ ~fault'

\* The main loop keeps polling: the pass moves on for ever (a step of Sweep is always possible, and
\* each moves the pass) once there is a table, and it neither starts over nor stops its passes for ever.
KeepsPolling == []<>~Tracked(1) \/ []<><<TRUE>>_stack
StartsOver == Enumerate \/ EnumerateFails
FairSpec == Spec /\ KeepsPolling /\ <>[][~StartsOver /\ ~Stops]_vars

-----------------------------------------------------------------------------
(* Properties *)

TypeOK == /\ loc \in [Device -> [on: {Off, Root} \cup Hub, port: 0..Ports]]
          /\ at \in [Device \cup {Root} -> {Off} \cup 0..MaxAddress]
          /\ \A i \in Index : Tracked(i) => hubs[i] \in [dev: {Root} \cup Hub, address: 1..MaxAddress,
                                                          ports: [Port -> {Failed} \cup 0..MaxAddress]]
          /\ used \subseteq 1..MaxAddress /\ reported \subseteq used /\ fault \in BOOLEAN
          /\ \A k \in DOMAIN stack : stack[k].hub \in Index /\ Tracked(stack[k].hub)

Address(w) == hubs[w[1]].ports[w[2]]
OnPorts == {w \in Index \X Port : Tracked(w[1]) /\ Address(w) \notin {0, Failed}}

\* Whatever the sweeps and the callback met, an address in use is the root hub's or stands on exactly
\* one port of one tracked hub, and the callback knows of it: none leaks, none is given out twice.
AddressesInStep == /\ used \ {1} = {Address(w) : w \in OnPorts} /\ reported = used \ {1}
                   /\ Tracked(1) => 1 \in used
                   /\ \A v, w \in OnPorts : v # w => Address(v) # Address(w)

\* Every hub in the table but the root hangs on a port of another, once.
HubsInStep == \A i \in Index \ {1} : Tracked(i) =>
                 /\ \E w \in OnPorts : w[1] # i /\ Address(w) = hubs[i].address
                 /\ Records(hubs[i].address) = {i}

\* OutOfAddresses is never met: the table cannot name more ports than there are addresses.
AddressesLast == \A d \in Device : Arrived(d) => FreeAddresses # {}

\* Two devices answer to one address only if attach gave one of them up: its port is marked failed,
\* and it had obeyed a SET_ADDRESS whose status stage was lost, which released the address
\* (mod.rs:672-677, control.rs:360).  None answers to the root hub's.
GivenUp(d) == \E i \in Index, p \in Port : /\ Tracked(i) /\ Answers(i)
                                           /\ d \in OnPort(i, p) /\ hubs[i].ports[p] = Failed
AddressedApart == \A x, y \in Device :
                     /\ x # y /\ at[x] = at[y] /\ at[x] \notin {Off, 0} => GivenUp(x) \/ GivenUp(y)
                     /\ at[x] # 1

\* Not so after ProbeFails: usb/mod.rs:366 "two just-reset devices must never sit at address 0 at once".
OneAtZero == Cardinality({d \in Device : at[d] = 0}) <= 1

\* While the root hub answers, what a port of it holds and what is recorded of it come to agree: a
\* device that stays is brought up or given up on, and a port left empty is cleared.  A device that
\* took another's place between two looks is not told from it (ReplugSeen).
Unseen(p) == Tracked(1) /\ Answers(1) /\ (OnPort(1, p) = {}) # (hubs[1].ports[p] = 0)
Noticed == \A p \in Port : Unseen(p) ~> ~Unseen(p)

\* Not so: usb/mod.rs:528 "makes a missed sweep harmless".  A device is known by an address it
\* answers to, or comes to be.
ReplugSeen == \A d \in Device, p \in Port :
                 (Tracked(1) /\ Answers(1) /\ loc[d] = [on |-> Root, port |-> p])
                    ~> (loc[d] # [on |-> Root, port |-> p] \/ ~(Tracked(1) /\ Answers(1))
                         \/ hubs[1].ports[p] \in {Failed, at[d]})
=============================================================================
