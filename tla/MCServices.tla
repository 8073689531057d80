------------------------------ MODULE MCServices ------------------------------
(***************************************************************************)
(* What talks to a processor that is not this one, an instance each: the   *)
(* Wi-Fi chip (its memory, credit, frames and the watch over its link), an *)
(* NVMe controller, the VideoCore firmware (its message ring, the buffers  *)
(* lent to it and a film decoded in them), a Bluetooth controller, and     *)
(* through it a peer being paired with, a Classic one and a GATT server;   *)
(* and a USB Ethernet adapter.  program says which of them a behaviour is  *)
(* of; each has a driver and a peer of its own.                            *)
(***************************************************************************)
EXTENDS WifiCredit, MCPeers, MCLinks

CONSTANTS ReqIds, MaxFifo,                                \* WifiLink's Ids, and its own
          Slots, CqEntries, Ids, MaxChunks,               \* NvmeQueue's
          Script, Loads, Attempts,                        \* SdioWindow's, with MCLinks' Faults
          Databases, Top, Room, Walks,                    \* AttClient's, with MCLinks' Slow
          b1                                              \* one of Lent

\* The window is believed no further ahead than a sequence number can tell, and the firmware and the
\* chip no further out of step than that leaves room for.
ASSUME CreditAssumption == /\ Mod \in Nat \ {0} /\ Far \in Nat /\ Buffers \in Nat /\ Excess \in Nat
                           /\ Far + Buffers + 2 * Excess < Mod
\* Rings and identifiers there are some of, and bounds.
ASSUME LinkAssumption == ReqIds \in Nat \ {0}
ASSUME NvmeAssumption == /\ Slots \in Nat \ {0} /\ CqEntries \in Nat \ {0} /\ Ids \in Nat \ {0}
                         /\ MaxChunks \in Nat

VARIABLES program,
          l_op, l_seen, l_reqId, l_draining, l_glom, l_fifo, l_ready, l_owed, l_handed,
          l_answered, l_resynced,
          n_job, n_left, n_id, n_nextId, n_sqTail, n_cqHead, n_phase, n_sq, n_sqDoor, n_cqDoor,
          n_sqHead, n_cqTail, n_cqPhase, n_work, n_cq, n_late, n_wrong,
          d_at, d_stage, d_attempt, d_base, d_chip, d_irq, d_phase, d_faults, d_landed, d_wrote,
          d_outcome,
          a_db, a_walk, a_walks, a_toServer, a_toUs, a_reasm, a_up, a_slow, a_owed

Link == INSTANCE WifiLink WITH
          Ids <- ReqIds, op <- l_op, seen <- l_seen, reqId <- l_reqId,
          draining <- l_draining, glom <- l_glom, fifo <- l_fifo, ready <- l_ready, owed <- l_owed,
          handed <- l_handed, answered <- l_answered, resynced <- l_resynced
lVars == <<l_op, l_seen, l_reqId, l_draining, l_glom, l_fifo, l_ready, l_owed, l_handed, l_answered,
           l_resynced>>

Nvme == INSTANCE NvmeQueue WITH
          Entries <- CqEntries, job <- n_job, left <- n_left, id <- n_id, nextId <- n_nextId,
          sqTail <- n_sqTail, cqHead <- n_cqHead, phase <- n_phase,
          sq <- n_sq, sqDoor <- n_sqDoor, cqDoor <- n_cqDoor, sqHead <- n_sqHead,
          cqTail <- n_cqTail, cqPhase <- n_cqPhase, work <- n_work, cq <- n_cq, late <- n_late,
          wrong <- n_wrong
nVars == <<n_job, n_left, n_id, n_nextId, n_sqTail, n_cqHead, n_phase, n_sq, n_sqDoor, n_cqDoor,
           n_sqHead, n_cqTail, n_cqPhase, n_work, n_cq, n_late, n_wrong>>

Chip == INSTANCE SdioWindow WITH
          MayReload <- FALSE, at <- d_at, stage <- d_stage, attempt <- d_attempt, base <- d_base,
          chip <- d_chip, irq <- d_irq, phase <- d_phase, faults <- d_faults, landed <- d_landed, wrote <- d_wrote,
          outcome <- d_outcome
dVars == <<d_at, d_stage, d_attempt, d_base, d_chip, d_irq, d_phase, d_faults, d_landed, d_wrote,
           d_outcome>>
\* What the accesses of a driver are, of those in Script as well.
ASSUME ChipIsSensible == Chip!Sensible

Gatt == INSTANCE AttClient WITH
          db <- a_db, walk <- a_walk, walks <- a_walks, toServer <- a_toServer, toUs <- a_toUs,
          reasm <- a_reasm, up <- a_up, slow <- a_slow, owed <- a_owed
aVars == <<a_db, a_walk, a_walks, a_toServer, a_toUs, a_reasm, a_up, a_slow, a_owed>>
\* A server lists its groups by handle, and none within another.
ASSUME AttAssumption == /\ Top \in Nat \ {0} /\ Room \in Nat /\ Walks \in Nat /\ Slow \in Nat
                        /\ \A d \in Databases : Gatt!Ordered(d.Services) /\ Gatt!Ordered(d.Parts)

-----------------------------------------------------------------------------
queues == <<lVars, wVars, nVars, vVars, mVars, tVars>>
over == <<cVars, aVars, eVars, fVars>>
others == <<queues, dVars, pVars, over>>

MCInit == /\ program \in {"credit", "link", "watch", "nvme", "vchiq", "mmal", "narrow",
                         "bluetooth", "links", "chip", "pairing", "classic", "gatt", "ether", "video"}
          /\ Init /\ Link!Init /\ Watch!Init /\ (program # "watch" => w_reconnect) /\ Nvme!Init /\ Vchiq!Init
          /\ Chip!Init /\ Pair!Init /\ (program # "chip" => d_chip = Chip!Zero)
          /\ Classic!Init /\ Gatt!Init /\ (program # "gatt" => a_db = CHOOSE d \in Databases : TRUE)
          /\ Ether!Init /\ (program # "ether" => e_part = "Lan7800")
          /\ Video!Init /\ (program # "video" => f_stream = CHOOSE f \in Streams : TRUE)
          /\ IF program = "narrow" THEN Mmal(FewLent, FewBulks)!Init ELSE Mmal(Lent, Bulks)!Init
          /\ IF program = "links" THEN Bt(Handles, FewOpcodes)!Init ELSE Bt(FewHandles, Opcodes)!Init
MCNext ==
  \/ program = "credit" /\ Next /\ UNCHANGED <<program, others>>
  \/ program = "chip" /\ Chip!Next /\ UNCHANGED <<program, vars, queues, pVars, over>>
  \/ program = "pairing" /\ Pair!Next /\ UNCHANGED <<program, vars, queues, dVars, over>>
  \/ /\ UNCHANGED <<program, vars, queues, dVars, pVars>>
     /\ \/ program = "classic" /\ Classic!Next /\ UNCHANGED <<aVars, eVars, fVars>>
        \/ program = "gatt" /\ Gatt!Next /\ UNCHANGED <<cVars, eVars, fVars>>
        \/ program = "ether" /\ Ether!Next /\ UNCHANGED <<cVars, aVars, fVars>>
        \/ program = "video" /\ Video!Next /\ UNCHANGED <<cVars, aVars, eVars>>
  \/ /\ UNCHANGED <<program, vars, dVars, pVars, over>>
     /\ \/ program = "link" /\ Link!Next /\ UNCHANGED <<wVars, nVars, vVars, mVars, tVars>>
        \/ program = "watch" /\ Watch!Next /\ UNCHANGED <<lVars, nVars, vVars, mVars, tVars>>
        \/ program = "nvme" /\ Nvme!Next /\ UNCHANGED <<lVars, wVars, vVars, mVars, tVars>>
        \/ program = "vchiq" /\ Vchiq!Next /\ UNCHANGED <<lVars, wVars, nVars, mVars, tVars>>
        \/ program = "mmal" /\ Mmal(Lent, Bulks)!Next /\ UNCHANGED <<lVars, wVars, nVars, vVars, tVars>>
        \/ program = "narrow" /\ Mmal(FewLent, FewBulks)!Next /\ UNCHANGED <<lVars, wVars, nVars, vVars, tVars>>
        \/ program = "bluetooth" /\ Bt(FewHandles, Opcodes)!Next /\ UNCHANGED <<lVars, wVars, nVars, vVars, mVars>>
        \/ program = "links" /\ Bt(Handles, FewOpcodes)!Next /\ UNCHANGED <<lVars, wVars, nVars, vVars, mVars>>

\* The fairness of each module, for the behaviours that are of it.
MCFairness ==
  /\ WF_wVars(program = "watch" /\ Watch!Pass)
  /\ SF_wVars(program = "watch" /\ Watch!Tick) /\ SF_wVars(program = "watch" /\ Watch!Lands)
  /\ WF_mVars(program = "mmal" /\ Mmal(Lent, Bulks)!Pump) /\ WF_mVars(program = "mmal" /\ Mmal(Lent, Bulks)!HandOver)
  /\ WF_mVars(program = "mmal" /\ Mmal(Lent, Bulks)!Move)
  /\ \A i \in Mmal(Lent, Bulks)!Entry : WF_mVars(program = "mmal" /\ Mmal(Lent, Bulks)!GiveBack(i))
  /\ WF_dVars(program = "chip" /\ Chip!Driver) /\ WF_dVars(program = "chip" /\ Chip!Controller)
  /\ WF_cVars(program = "classic" /\ Classic!Poll) /\ WF_cVars(program = "classic" /\ Classic!Replies)
  /\ WF_aVars(program = "gatt" /\ Gatt!Client) /\ SF_aVars(program = "gatt" /\ (Gatt!Serve \/ Gatt!Strays))
  /\ WF_eVars(program = "ether" /\ Ether!BringUp) /\ WF_eVars(program = "ether" /\ Ether!Receive)
  /\ WF_eVars(program = "ether" /\ Ether!Transmits)
  /\ SF_fVars(program = "video" /\ Video!Hands) /\ WF_fVars(program = "video" /\ Video!Polls)
  /\ WF_fVars(program = "video" /\ Video!Firmware)
MCSpec == MCInit /\ [][MCNext]_<<program, vars, others>> /\ MCFairness

\* Every driver keeps its types.
TypesOK == /\ TypeOK /\ Link!TypeOK /\ Watch!TypeOK /\ Nvme!TypeOK /\ Vchiq!TypeOK
           /\ IF program = "narrow" THEN Mmal(FewLent, FewBulks)!TypeOK ELSE Mmal(Lent, Bulks)!TypeOK
           /\ IF program = "links" THEN Bt(Handles, FewOpcodes)!TypeOK ELSE Bt(FewHandles, Opcodes)!TypeOK
           /\ Chip!TypeOK /\ Pair!TypeOK /\ Classic!TypeOK /\ Gatt!TypeOK /\ Ether!TypeOK /\ Video!TypeOK

\* A command returns by its own answer and nobody else's: the Wi-Fi chip's by its request id,
\* NVMe's by its identifier and phase, a Bluetooth controller's by its opcode; of NVMe unless an
\* earlier one was given up on, of Bluetooth unless one of the same opcode was.  A request for a
\* link's key is answered by the key its other end has, unless power was lost in between.  A GATT
\* walk that ends well has the range asked for, if the server keeps to the protocol and no request
\* of a walk before was given up on and is still to be answered: nothing tells such an answer from
\* the walk's own, and of the walk that takes it nothing is said here.
AnswersAreOwn == /\ Link!AnswerIsOwn
                 /\ Nvme!OkIsOwn /\ Nvme!OwnUnlessLate
                 /\ Bt(FewHandles, Opcodes)!AnswerIsOwn
                 /\ Pair!KeysAgree /\ Pair!BondsAgree
                 /\ Gatt!WalkIsWhole

\* What is lent adds up: no data frame goes past the Wi-Fi chip's window unless a command did,
\* every transmit buffer of the Bluetooth controller is a credit, in use, on its way back or one of
\* those that commands' waits and lost links let slip; the queue of VCHIQ's bulk transfers says
\* which are in flight until a fetch is refused or cannot be sent, and what a video decoder's drain
\* waits for is away until one is given up on.
BooksBalance == /\ WithinCredit
                /\ IF program = "links" THEN Bt(Handles, FewOpcodes)!BuffersAddUp ELSE Bt(FewHandles, Opcodes)!BuffersAddUp
                /\ IF program = "narrow" THEN Mmal(FewLent, FewBulks)!QueueInStep ELSE Mmal(Lent, Bulks)!QueueInStep
                /\ Video!AwayIsCounted

\* No message is lost or read twice: a Wi-Fi frame in the chip's queue is announced or about to
\* be read, until the receive stream had to be put back in step, and none is dropped while a
\* superframe is handed out; the firmware finds every VCHIQ message in order and whole, and can
\* read what is published, in the first 4 GiB of it; and every sound frame of an Ethernet transfer
\* goes to the stack, once and in order, before the buffer is used again; and of a film only
\* frames before a change of layout are missing, with every free buffer lent.
NothingLost == /\ [][(Link!AnnouncedInStep /\ Vchiq!Delivered /\ Vchiq!ReadsOn)']_<<lVars, vVars>>
               /\ Link!KeepsPackets
               /\ [][Ether!Drained']_eVars /\ Ether!EachInTurn
               /\ [][(Video!EndIsLast /\ Video!NoneKeptBack)']_fVars /\ Video!OnlyRelaidLost

\* MmalBuffers: memory handed back is written by nobody any more, and holds the bytes that were
\* meant for it as long as no fetch was refused or could not be sent; both if the firmware reads
\* a page list as it takes the request (ListsAssumption), for the driver writes a list anew while
\* it may be in use.  VideoDecode: until a drain is given up on, a frame is in the layout told
\* with it and only a buffer that is too small is refused, if the caller never takes a frame while
\* it holds all there are (VideoAssumption).  SdioWindow: an access to the Wi-Fi chip's memory
\* lands where it was meant to, and a load that succeeded is whole.
MemoryIsOwned == /\ Mmal(Lent, Bulks)!HandedBackIsQuiet /\ Mmal(Lent, Bulks)!OwnBytes
                 /\ Video!LayoutIsTold /\ Video!RefusedRightly
                 /\ Chip!LandsWhereAsked /\ Chip!LoadedIsWhole

\* What the stack is told of links is so: WifiWatch notices a lost association once the silence
\* has lasted, joins over none, and reports up only on a network; a Bluetooth caller's view of
\* the connections is the controller's until a command's wait throws a link's event away; a
\* Classic channel the caller holds is one the peer holds; what is read on a channel was sent on
\* it, and only the peer refuses one, unless its CID was used again while something about an
\* earlier use was still to come; and an Ethernet link is reported only with the receiver on.
LinksAreReal == /\ [][Watch!NoticedInTime']_wVars
                /\ [][(IF program = "links" THEN Bt(Handles, FewOpcodes)!LinksAgree ELSE Bt(FewHandles, Opcodes)!LinksAgree)']_tVars
                /\ Watch!JoinsOverNothing /\ Watch!UpMeansOn
                /\ [][Classic!HeldIsAgreed']_cVars /\ [][Ether!UpIsReady']_eVars
                /\ Classic!FrameIsOwn /\ Classic!RejectionsAreReal

\* What is waited for.  MMAL's buffers are alike, so one of them stands for all.
WaitedFor == \/ program = "mmal" /\ Mmal(Lent, Bulks)!Away(b1)
             \/ program = "chip" /\ Chip!Loading
             \/ program = "classic" /\ Classic!Calling
             \/ program = "gatt" /\ a_walk.on
             \/ program = "video" /\ Video!Finishing
             \/ program = "ether" /\ (Ether!Starting \/ Ether!Owing \/ Ether!Queued)

\* What was lost comes back: the Wi-Fi link once nothing stands in its way, and every buffer
\* lent to an MMAL component, unless its message was never sent or a fetch was not; a load of the
\* Wi-Fi chip ends, and so do a call about a Classic channel and a GATT walk, whatever ranges the
\* server answers with; an Ethernet adapter is brought up, and both its queues move on; and a film
\* comes to its end, or is refused.
Recovers == /\ program = "watch" => Watch!ComesBack
            /\ WaitedFor ~> ~WaitedFor

(* The values of Script, Databases, Streams and Size on a small instance. *)

\* A load, then accesses that the running driver repeats: neighbouring accesses lie in windows
\* one, two and three bytes apart.
Access(k, w) == [kind |-> k, at |-> w]
Accesses == <<Access("read", <<0, 0, 1>>), Access("write", <<0, 1, 1>>),
              Access("read", <<0, 0, 1>>), Access("write", <<0, 0, 0>>),
              Access("write", <<1, 0, 0>>), Access("write", <<0, 1, 1>>),
              Access("read", <<0, 0, 1>>), Access("write", <<0, 0, 1>>)>>
\* Two services, with a handle after them that is in neither; each handle a part.
Services == {[Services |-> <<<<1, 1>>, <<2, 2>>>>, Parts |-> <<<<1, 1>>, <<2, 2>>, <<3, 3>>>>]}
\* A film that changes its frames' layout near its end, and one that comes to need more than the
\* buffers have.
Films == {<<1, 1, 2>>, <<1, 3>>}
TwoBuffers == <<2, 2>>
=============================================================================
