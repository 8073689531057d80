--------------------------------- MODULE MCUsb ---------------------------------
(***************************************************************************)
(* The USB host, an instance each: the channels and their slots, the tree  *)
(* of hubs and devices, and the poll of a device behind a hub's            *)
(* translator.  They meet only in that a control transfer of the second,   *)
(* and a packet of the third, runs on a channel of the first.              *)
(***************************************************************************)
EXTENDS UsbSlots

CONSTANTS Function, Hub, Root, Ports, MaxHubs, MaxAddress, Off, Failed,
          Slowest, Keeps, Reports

\* There are more addresses than ports in the table, as with 8 hubs of 15 ports and 127 addresses; a
\* hub's translator answers within three microframes of the start-split and keeps the answer for two
\* more.
UsbAssumption ==
  /\ Ports \in Nat \ {0} /\ MaxHubs \in Nat \ {0} /\ MaxAddress \in Nat /\ MaxHubs * Ports < MaxAddress
  /\ Root \notin Function \cup Hub /\ Function \cap Hub = {}
  /\ Off \notin {Root, Failed} \cup Hub \cup 0..MaxAddress /\ Failed \notin 0..MaxAddress
  /\ Slowest \in 0..3 /\ Keeps \in Nat /\ Keeps >= 5 /\ Reports \in Nat
ASSUME UsbAssumption

VARIABLES program,
          b_loc, b_at, b_hubs, b_used, b_reported, b_stack, b_fault,
          p_frame, p_step, p_next, p_tries, p_moved, p_pid, p_toggle, p_result, p_tt, p_age,
          p_devToggle, p_left, p_ready, p_taken, p_handed, p_dropped, p_upset

Bus == INSTANCE UsbBus WITH
          loc <- b_loc, at <- b_at, hubs <- b_hubs,
          used <- b_used, reported <- b_reported, stack <- b_stack, fault <- b_fault
bVars == <<b_loc, b_at, b_hubs, b_used, b_reported, b_stack, b_fault>>

Poll == INSTANCE SplitPoll WITH
          Packets <- 1, MayUpset <- TRUE, frame <- p_frame,
          step <- p_step, next <- p_next, tries <- p_tries, moved <- p_moved, pid <- p_pid,
          toggle <- p_toggle, result <- p_result, tt <- p_tt, age <- p_age,
          devToggle <- p_devToggle, left <- p_left, ready <- p_ready, taken <- p_taken,
          handed <- p_handed, dropped <- p_dropped, upset <- p_upset
pVars == <<p_frame, p_step, p_next, p_tries, p_moved, p_pid, p_toggle, p_result, p_tt, p_age,
           p_devToggle, p_left, p_ready, p_taken, p_handed, p_dropped, p_upset>>

MCInit == program \in {"channels", "hubs", "poll"} /\ Init /\ Bus!Init /\ Poll!Init
MCNext == \/ program = "channels" /\ Next /\ UNCHANGED <<program, bVars, pVars>>
          \/ program = "hubs" /\ Bus!Next /\ UNCHANGED <<program, vars, pVars>>
          \/ program = "poll" /\ Poll!Next /\ UNCHANGED <<program, vars, bVars>>

\* The fairness of each module, for the behaviours that are of it.
MCFairness == /\ WF_vars(program = "channels" /\ OnIrq) /\ WF_vars(program = "channels" /\ Microframe)
              /\ \A c \in Chan : /\ WF_vars(program = "channels" /\ Halt(c)) /\ WF_vars(program = "channels" /\ Go(c))
                                 /\ SF_vars(program = "channels" /\ OnIrq /\ sof /\ wait[c] = frame)
              /\ program = "hubs" => Bus!KeepsPolling
              /\ <>[][~Bus!StartsOver /\ ~Bus!Stops]_bVars
              /\ WF_pVars(program = "poll" /\ Poll!Channel)
              /\ WF_pVars(program = "poll" /\ Poll!Downstream)
              /\ WF_pVars(program = "poll" /\ Poll!Microframe)
MCSpec == MCInit /\ [][MCNext]_<<program, vars, bVars, pVars>> /\ MCFairness

\* Each part keeps its types.
TypesOK == TypeOK /\ Bus!TypeOK /\ Poll!TypeOK

\* UsbBus: an address in use stands on one port and the callback knows of it, every hub in the
\* table hangs on a port of another, there is an address for every device found, and two devices
\* answer to one only if attach gave one of them up after it had taken its address, which is then
\* handed out again.  Nothing is said of a device that took another's place between two looks: it is
\* not told from the one before.  SplitPoll: a packet a device sent to its hub is fetched while the hub
\* keeps it, unless the host was upset, and between polls the data toggles agree and no report
\* was lost or repeated.
BusInStep == /\ Bus!AddressesInStep /\ Bus!HubsInStep /\ Bus!AddressesLast /\ Bus!AddressedApart
             /\ Poll!InItsWindow /\ Poll!TogglesAgree

\* A wait on a channel ends by its halt or its microframe, or by its time-out where the blocking
\* methods wait; only a future on a channel gone dead waits for ever.  While the root hub answers, a
\* device on it is brought up or given up on, and a port left empty is cleared.  A poll behind a hub
\* returns.
HostSettles == /\ WaitsEnd
               /\ program = "hubs" => Bus!Noticed
               /\ Poll!PollEnds
=============================================================================
