------------------------------- MODULE MCLinks -------------------------------
(***************************************************************************)
(* The instances of MCServices whose drivers keep something up: the watch  *)
(* over the Wi-Fi link, the ring of slots to the VideoCore, the channels   *)
(* to a Classic peer and the runner of a USB Ethernet adapter.             *)
(***************************************************************************)
EXTENDS Naturals, Sequences, FiniteSets

CONSTANTS Silence, Probe, JoinPoll, Budget, Retry,             \* WifiWatch's
          RingSlots, SlotSize, Sizes, QueueLen, Width, Count,  \* VchiqSlots'
          Channels, Opens, Slow,                               \* ClassicChannels'
          NetQueue, Fifo, Lengths, Frames, Faults              \* EthernetRunner's

\* The link is looked at at least as often as its silence is given up on.
ASSUME WatchAssumption == /\ Silence \in Nat \ {0} /\ Probe \in Nat \ {0} /\ JoinPoll \in Nat /\ Budget \in Nat
                          /\ Retry \in Nat /\ Probe <= Silence
\* Messages fit a slot, the shortest is a unit; the counter of slots given back outlasts the positions.
ASSUME RingAssumption == /\ RingSlots \in Nat \ {0} /\ SlotSize \in Nat \ {0} /\ QueueLen \in Nat /\ RingSlots <= QueueLen
                         /\ 1 \in Sizes /\ Sizes \subseteq 1..SlotSize
                         /\ Width \in Nat \ {0} /\ Count \in Nat /\ (Width \div SlotSize) + RingSlots < Count
ASSUME ClassicAssumption == Channels \in Nat /\ Opens \in Nat /\ Slow \in Nat
ASSUME EtherAssumption == NetQueue \in Nat /\ Fifo \in Nat /\ Lengths \subseteq Nat /\ Frames \in Nat /\ Faults \in Nat

VARIABLES w_reconnect, w_turn, w_state, w_due, w_deadline, w_quiet, w_link, w_joins, w_net,
          w_radio, w_mute, w_lost,
          v_step, v_len, v_tx, v_data, v_room, v_tag, v_mem, v_queue, v_recycled, v_published,
          v_rx, v_expect, v_owned, v_full, v_broken,
          c_channels, c_call, c_toPeer, c_toUs, c_theirs, c_used, c_up, c_held, c_slow, c_stale,
          c_got,
          e_part, e_stage, e_chip, e_fifo, e_link, e_pending, e_batch, e_offset, e_rxq, e_txq,
          e_arrived, e_sent, e_faults, e_due

Watch == INSTANCE WifiWatch WITH
          reconnect <- w_reconnect, turn <- w_turn, state <- w_state, due <- w_due,
          deadline <- w_deadline, quiet <- w_quiet, link <- w_link, joins <- w_joins, net <- w_net,
          radio <- w_radio, mute <- w_mute, lost <- w_lost
wVars == <<w_reconnect, w_turn, w_state, w_due, w_deadline, w_quiet, w_link, w_joins, w_net, w_radio,
           w_mute, w_lost>>

Vchiq == INSTANCE VchiqSlots WITH
          Slots <- RingSlots, Window <- QueueLen, MayWrap <- FALSE, step <- v_step, len <- v_len,
          tx <- v_tx, data <- v_data,
          room <- v_room, tag <- v_tag, mem <- v_mem, queue <- v_queue, recycled <- v_recycled,
          published <- v_published, rx <- v_rx, expect <- v_expect, owned <- v_owned,
          full <- v_full, broken <- v_broken
vVars == <<v_step, v_len, v_tx, v_data, v_room, v_tag, v_mem, v_queue, v_recycled, v_published,
           v_rx, v_expect, v_owned, v_full, v_broken>>

Classic == INSTANCE ClassicChannels WITH
          Slots <- Channels, channels <- c_channels, call <- c_call,
          toPeer <- c_toPeer, toUs <- c_toUs, theirs <- c_theirs, used <- c_used, up <- c_up,
          held <- c_held, slow <- c_slow, stale <- c_stale, got <- c_got
cVars == <<c_channels, c_call, c_toPeer, c_toUs, c_theirs, c_used, c_up, c_held, c_slow, c_stale,
           c_got>>

Ether == INSTANCE EthernetRunner WITH
          Queue <- NetQueue, part <- e_part, stage <- e_stage, chip <- e_chip, fifo <- e_fifo,
          link <- e_link, pending <- e_pending, batch <- e_batch, offset <- e_offset, rxq <- e_rxq, txq <- e_txq, arrived <- e_arrived,
          sent <- e_sent, faults <- e_faults, due <- e_due
eVars == <<e_part, e_stage, e_chip, e_fifo, e_link, e_pending, e_batch, e_offset, e_rxq, e_txq,
           e_arrived, e_sent, e_faults, e_due>>
==============================================================================
