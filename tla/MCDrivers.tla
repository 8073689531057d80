------------------------------ MODULE MCDrivers ------------------------------
(***************************************************************************)
(* The drivers whose futures park on an interrupt, the bring-up of a card, *)
(* a DMA stream and the start of the other cores, an instance each:        *)
(* program says which of them a behaviour is of, and the others stand      *)
(* still.  They share nothing but the dispatcher of irq.rs, which calls    *)
(* the handler of each source whatever the others did.                     *)
(***************************************************************************)
EXTENDS Naturals, FiniteSets

CONSTANTS Pin, Level, Hand, CanDrop, Late,  \* GpioWait's
          UartDepth, UartBuffer,      \* UartWait's Depth and Buffer
          I2cDepth, MaxLen,           \* I2cWait's
          MaxBlocks,                  \* SdHost's
          Chunks,                     \* DmaStream's
          Cores, Nobody               \* CoreHandoff's

ASSUME GpioAssumption == Level \subseteq Pin /\ Hand \subseteq Pin /\ CanDrop \subseteq Pin /\ Late \in BOOLEAN
ASSUME DriversAssumption == /\ UartDepth \in Nat \ {0} /\ UartBuffer \in Nat \ {0}
                            /\ I2cDepth \in Nat \ {0} /\ MaxLen \in Nat \ {0}
                            /\ MaxBlocks \in Nat \ {0} /\ Chunks \in Nat /\ Nobody \notin Cores

VARIABLES program,
          g_high, g_detect, g_events, g_slot, g_task, g_armed, g_drop, g_rose, g_dropped,
          u_fifo, u_imsc, u_waker, u_pc, u_dir, u_old, u_woken, u_flushing,
          i_op, i_len, i_count, i_result, i_pc, i_seen, i_late, i_waker, i_woken, i_armed, i_status,
          i_fifo, i_wire, i_busy,
          d_pc, d_wait, d_path, d_write, d_count, d_moved, d_wrong, d_result, d_late, d_waker,
          d_woken, d_int, d_enable, d_cmdline, d_data, d_fifo, d_out, d_left, d_told, d_card, d_foul,
          b_pi5, b_step, b_max, b_card, b_host, b_circuit, b_able, b_result,
          s_step, s_next, s_fed, s_cached, s_memory, s_engine, s_block, s_sound, s_late, s_gap,
          k_how, k_pc, k_target, k_spawned, k_dirty, k_params, k_slot, k_event, k_at, k_entered, k_flag

Gpio == INSTANCE GpioWait WITH
          high <- g_high, detect <- g_detect, events <- g_events, slot <- g_slot, task <- g_task,
          armed <- g_armed, drop <- g_drop, rose <- g_rose, dropped <- g_dropped
gVars == <<g_high, g_detect, g_events, g_slot, g_task, g_armed, g_drop, g_rose, g_dropped>>

Uart == INSTANCE UartWait WITH
          Depth <- UartDepth, Buffer <- UartBuffer, fifo <- u_fifo, imsc <- u_imsc, waker <- u_waker, pc <- u_pc,
          dir <- u_dir, old <- u_old, woken <- u_woken, flushing <- u_flushing
uVars == <<u_fifo, u_imsc, u_waker, u_pc, u_dir, u_old, u_woken, u_flushing>>

I2c == INSTANCE I2cWait WITH
          Depth <- I2cDepth, op <- i_op, len <- i_len, count <- i_count, result <- i_result,
          pc <- i_pc, seen <- i_seen, late <- i_late, waker <- i_waker, woken <- i_woken,
          armed <- i_armed, status <- i_status, fifo <- i_fifo, wire <- i_wire, busy <- i_busy
iVars == <<i_op, i_len, i_count, i_result, i_pc, i_seen, i_late, i_waker, i_woken, i_armed,
           i_status, i_fifo, i_wire, i_busy>>

Sd == INSTANCE SdHost WITH
          Paths <- {"pio", "adma", "async", "async_dma"}, pc <- d_pc,
          wait <- d_wait, path <- d_path, write <- d_write, count <- d_count, moved <- d_moved,
          wrong <- d_wrong, result <- d_result, late <- d_late, waker <- d_waker, woken <- d_woken,
          int <- d_int, enable <- d_enable, cmdline <- d_cmdline, data <- d_data, fifo <- d_fifo,
          out <- d_out, left <- d_left, told <- d_told, card <- d_card, foul <- d_foul
dVars == <<d_pc, d_wait, d_path, d_write, d_count, d_moved, d_wrong, d_result, d_late, d_waker,
           d_woken, d_int, d_enable, d_cmdline, d_data, d_fifo, d_out, d_left, d_told, d_card,
           d_foul>>

Card == INSTANCE SdBringUp WITH
          pi5 <- b_pi5, step <- b_step, max <- b_max, card <- b_card, host <- b_host,
          circuit <- b_circuit, able <- b_able, result <- b_result
bVars == <<b_pi5, b_step, b_max, b_card, b_host, b_circuit, b_able, b_result>>

Stream == INSTANCE DmaStream WITH
          MayBeLate <- TRUE, MayFail <- TRUE, step <- s_step, next <- s_next,
          fed <- s_fed, cached <- s_cached, memory <- s_memory, engine <- s_engine,
          block <- s_block, sound <- s_sound, late <- s_late, gap <- s_gap
sVars == <<s_step, s_next, s_fed, s_cached, s_memory, s_engine, s_block, s_sound, s_late, s_gap>>

Handoff == INSTANCE CoreHandoff WITH
          how <- k_how, pc <- k_pc, target <- k_target, spawned <- k_spawned, dirty <- k_dirty,
          params <- k_params, slot <- k_slot, event <- k_event, at <- k_at, entered <- k_entered,
          flag <- k_flag
kVars == <<k_how, k_pc, k_target, k_spawned, k_dirty, k_params, k_slot, k_event, k_at, k_entered, k_flag>>

waits == <<gVars, uVars, iVars, dVars, bVars>>
others == <<sVars, kVars>>
allVars == <<program, waits, others>>

MCInit == /\ program \in {"gpio", "uart", "i2c", "sd", "card", "stream", "cores"}
          /\ Gpio!Init /\ Uart!Init /\ I2c!Init /\ Sd!Init /\ Card!Init /\ Stream!Init /\ Handoff!Init
          /\ program # "card" => ~b_pi5 /\ b_max = 1 /\ b_able = 1
          /\ program # "cores" => k_how = "table"
MCNext ==
  \/ /\ UNCHANGED <<program, others>>
     /\ \/ program = "gpio" /\ Gpio!Next /\ UNCHANGED <<uVars, iVars, dVars, bVars>>
        \/ program = "uart" /\ Uart!Next /\ UNCHANGED <<gVars, iVars, dVars, bVars>>
        \/ program = "i2c" /\ I2c!Next /\ UNCHANGED <<gVars, uVars, dVars, bVars>>
        \/ program = "sd" /\ Sd!Next /\ UNCHANGED <<gVars, uVars, iVars, bVars>>
        \/ program = "card" /\ Card!Next /\ UNCHANGED <<gVars, uVars, iVars, dVars>>
  \/ program = "stream" /\ Stream!Next /\ UNCHANGED <<program, waits, kVars>>
  \/ program = "cores" /\ Handoff!Next /\ UNCHANGED <<program, waits, sVars>>

\* The fairness of each module, for the behaviours that are of it.
MCFairness ==
  /\ WF_gVars(program = "gpio" /\ Gpio!OnIrq)
  /\ \A p \in Gpio!Async : /\ SF_gVars(program = "gpio" /\ Gpio!PollResolves(p))
                      /\ WF_gVars(program = "gpio" /\ Gpio!Latch(p))
  /\ WF_gVars(program = "gpio" /\ (Gpio!DropReads \/ Gpio!DropWrites \/ Gpio!DropEnds))
  /\ WF_uVars(program = "uart" /\ Uart!OnIrq) /\ WF_uVars(program = "uart" /\ Uart!Thread)
  /\ WF_uVars(program = "uart" /\ Uart!ByteLeaves)
  /\ WF_iVars(program = "i2c" /\ (I2c!Shift \/ I2c!Receive)) /\ WF_iVars(program = "i2c" /\ I2c!OnIrq)
  /\ WF_iVars(program = "i2c" /\ I2c!Loop) /\ WF_iVars(program = "i2c" /\ I2c!Expire)
  /\ WF_dVars(program = "sd" /\ Sd!Card) /\ WF_dVars(program = "sd" /\ Sd!OnIrq)
  /\ WF_dVars(program = "sd" /\ Sd!Driver) /\ WF_dVars(program = "sd" /\ Sd!Expire)
  /\ WF_bVars(program = "card" /\ Card!Next)
  /\ SF_sVars(program = "stream" /\ Stream!Seen) /\ WF_sVars(program = "stream" /\ Stream!Fill)
  /\ WF_sVars(program = "stream" /\ Stream!Clean) /\ WF_sVars(program = "stream" /\ Stream!Advance)
  /\ WF_kVars(program = "cores" /\ Handoff!Core0)
  /\ \A c \in Cores : WF_kVars(program = "cores" /\ Handoff!Core(c))
MCSpec == MCInit /\ [][MCNext]_allVars /\ MCFairness

\* Every driver keeps its types.
TypesOK == /\ Gpio!TypeOK /\ Uart!TypeOK /\ I2c!TypeOK /\ Sd!TypeOK /\ Card!TypeOK
           /\ Stream!TypeOK /\ Handoff!TypeOK

\* A future that is parked has its interrupt armed or its wake on the way, in gpio/asynch.rs
\* unless a drop beside it re-armed its pin; and it is woken by the event it asked for.
ParkedIsServed == /\ Gpio!ParkedIsArmed /\ Gpio!ServedUnlessDropped /\ Gpio!OwnEvent
                  /\ Uart!ParkedIsArmed

\* A wait or a transfer that ends, fails or is dropped leaves its hardware as the next one
\* expects it, and leaves alone what belongs to others: the pins the application handles
\* itself, the next transfer's interrupts, the memory of a dropped DMA stream and, while its
\* caller keeps up, the buffer that is playing.  Of the SD host this is said of the interrupts on
\* every path, and of the circuits after an async transfer that failed or was dropped once its
\* command was taken; not after a start that failed, a blocking transfer that did, or one that
\* began on what these left.  Of a card brought up: its voltage and speed, and its width and
\* circuit where the negotiation of neither four lines nor high speed was given up.
CleanBetween == /\ Gpio!HandSurvives /\ I2c!CleanBetween /\ Sd!CleanBetween /\ Card!Usable
                /\ Stream!QuietWhenDropped /\ Stream!NotUnderTheEngine

\* Ok is true: every byte went over the bus; every block of a write is on the card, and every block
\* of a read came over its lines, no status the driver still waits for cleared unseen, unless the
\* transfer began on a data phase that a blocking transfer or a failed start had left without a reset
\* (sd.rs:1417-1434, 1455-1468); and the mode reported of a card is in force.  What
\* feed returned for is heard once, in order and whole, while the caller keeps up; a core that
\* launch started has the stack and the entry meant for it.
OkIsTrue == /\ I2c!OkMeansAll /\ Sd!OkMeansAll /\ Sd!NothingMissed /\ Card!ReportedIsReal
            /\ Stream!Gapless /\ Handoff!EntersOwn

\* Every wait ends: a pin's by its event, a UART's by its bytes or its room, and its handler
\* leaves no line up; a transfer by its bytes, an error or its deadline, unless a transfer of the SD
\* host began on what an earlier one had left; a bring-up whatever the
\* card answers; feed's by the engine's move to the other buffer, unless the engine failed; and
\* the cores that are started run, and none sleeps through the flag that is set for them.
Begun == CASE program = "uart" -> Uart!Due [] program = "i2c" -> i_op # "none"
           [] program = "sd" -> d_pc # "idle" /\ ~d_foul [] program = "stream" -> s_step = "wait"
           [] program = "cores" -> k_spawned # {} [] OTHER -> program # "gpio"
Over == CASE program = "uart" -> u_pc = "away" [] program = "i2c" -> I2c!Over
          [] program = "sd" -> d_pc = "idle"
          [] program = "stream" -> s_step # "wait" \/ s_engine = "error"
          [] program = "cores" -> \A c \in k_spawned : k_at[c] = "served"
          [] OTHER -> b_step \in {"up", "failed"}
WaitsEnd == /\ Gpio!EventEndsWait
            /\ Begun ~> Over
            /\ program = "uart" => Uart!LineFalls
=============================================================================
