------------------------------- MODULE MCPeers -------------------------------
(***************************************************************************)
(* Four of the peers of MCServices, the ones most is proved of, in a       *)
(* module of their own because a proof carries every definition it could   *)
(* use: the VideoCore firmware with the buffers lent to it and a film      *)
(* decoded in them, a Bluetooth controller, and a peer being paired with.  *)
(* Mmal and Bt are of some buffers and some connections.                   *)
(***************************************************************************)
EXTENDS Naturals, Sequences, FiniteSets

CONSTANTS Lent, FewLent, Places, Bulks, FewBulks,         \* MmalBuffers' Buffers, Entries and Bulks
          Handles, FewHandles, Opcodes, FewOpcodes,       \* BtHci's
          Total, MaxFragments, MaxLine, Nothing,
          Early,                                          \* MmalBuffers' too
          Draws, Pairings,                                \* Pairing's Draws and Attempts
          Size, Inputs, Streams, MayHold                  \* VideoDecode's

\* No entry of the table and no place in it is taken for none.
ASSUME MmalAssumption == /\ Places \in Nat /\ Bulks \in Nat \ {0} /\ FewBulks \in Nat \ {0}
                         /\ Nothing \notin 0..Places - 1
                         /\ Nothing \notin [buf : Lent \cup FewLent, state : {"with", "receiving", "returned"}]
\* The firmware reads a page list as it takes the request.  Nothing in the driver sees to it: a list
\* is written anew while the transfer it was written for may be under way (vchiq.rs:987, 1063).
ASSUME ListsAssumption == Early = TRUE
\* "poll" is the call that reads an event without a command: no opcode.
ASSUME BtAssumption == /\ IsFiniteSet(Handles) /\ IsFiniteSet(FewHandles)
                       /\ Total \in Nat \ {0} /\ MaxFragments \in Nat
                       /\ "poll" \notin Opcodes \cup FewOpcodes \cup {Nothing}
ASSUME PairAssumption == Draws \in Nat /\ Pairings \in Nat
\* A caller that takes another frame while it holds all there are waits for ever.
ASSUME VideoAssumption == /\ Size \in Seq(Nat) /\ Inputs \in Nat /\ MayHold \in Nat /\ MayHold <= Len(Size)
                          /\ Streams \subseteq Seq(Nat \ {0})

VARIABLES m_table, m_returned, m_bulk, m_lists, m_mine, m_firm, m_offered, m_asked, m_back, m_holds,
          m_failed,
          t_call, t_credits, t_line, t_held, t_up, t_seen, t_late, t_asked, t_answered, t_gaveUp,
          t_spilled, t_missed, t_cut,
          p_up, p_began, p_toR, p_toI, p_r, p_i, p_draws, p_secret, p_sealed, p_saved, p_cut,
          p_clash,
          f_stream, f_fed, f_last, f_inputPool, f_outputPool, f_held, f_pc, f_outputEnabled,
          f_inFlight, f_format, f_eos, f_changed, f_refused, f_late, f_returned, f_pending, f_ring,
          f_bulks, f_asked, f_portOn, f_layout, f_paused, f_parsed, f_decoded, f_firm, f_fill

Mmal(bufs, depth) == INSTANCE MmalBuffers WITH
          Buffers <- bufs, Bulks <- depth, Entries <- Places, Free <- Nothing,
          table <- m_table, returned <- m_returned, bulk <- m_bulk, lists <- m_lists,
          mine <- m_mine, firm <- m_firm, offered <- m_offered, asked <- m_asked, back <- m_back,
          holds <- m_holds, failed <- m_failed
mVars == <<m_table, m_returned, m_bulk, m_lists, m_mine, m_firm, m_offered, m_asked, m_back,
           m_holds, m_failed>>

Bt(conns, ops) == INSTANCE BtHci WITH
          Handles <- conns, Opcodes <- ops, None <- Nothing, call <- t_call,
          credits <- t_credits, line <- t_line, held <- t_held, up <- t_up, seen <- t_seen, late <- t_late, asked <- t_asked, answered <- t_answered,
          gaveUp <- t_gaveUp, spilled <- t_spilled, missed <- t_missed, cut <- t_cut
tVars == <<t_call, t_credits, t_line, t_held, t_up, t_seen, t_late, t_asked, t_answered, t_gaveUp,
           t_spilled, t_missed, t_cut>>

Pair == INSTANCE Pairing WITH
          Attempts <- Pairings, up <- p_up, began <- p_began, toR <- p_toR, toI <- p_toI,
          r <- p_r, i <- p_i, draws <- p_draws, secret <- p_secret, sealed <- p_sealed,
          saved <- p_saved, cut <- p_cut, clash <- p_clash
pVars == <<p_up, p_began, p_toR, p_toI, p_r, p_i, p_draws, p_secret, p_sealed, p_saved, p_cut,
           p_clash>>

Video == INSTANCE VideoDecode WITH
          Holds <- MayHold, MayDelay <- TRUE, stream <- f_stream, fed <- f_fed, last <- f_last,
          inputPool <- f_inputPool,
          outputPool <- f_outputPool, held <- f_held, pc <- f_pc, outputEnabled <- f_outputEnabled,
          inFlight <- f_inFlight, format <- f_format, eos <- f_eos, changed <- f_changed,
          refused <- f_refused, late <- f_late, returned <- f_returned, pending <- f_pending,
          ring <- f_ring, bulks <- f_bulks, asked <- f_asked, portOn <- f_portOn,
          layout <- f_layout, paused <- f_paused, parsed <- f_parsed, decoded <- f_decoded,
          firm <- f_firm, fill <- f_fill
fVars == <<f_stream, f_fed, f_last, f_inputPool, f_outputPool, f_held, f_pc, f_outputEnabled,
           f_inFlight, f_format, f_eos, f_changed, f_refused, f_late, f_returned, f_pending, f_ring,
           f_bulks, f_asked, f_portOn, f_layout, f_paused, f_parsed, f_decoded, f_firm, f_fill>>
=============================================================================
