# A verification development for rpi-hal

This directory holds TLA+ models of the parts of this repository whose
correctness depends on the order in which things happen, the TLC runs that check
them on small instances, and proofs, checked by TLAPS, of what matters most for
every instance. The models are written from the code; each definition that
stands for code names its file and lines in `PROJECT.json` ("map").

Run `tlc -config X.cfg M` for a run of the table below, and `tlapm M.tla` for
the proofs of a module whose name ends in `Proofs`.

Contents: [the system](#the-system), [the models](#the-models),
[the runs](#the-runs), [what is proved](#what-is-proved),
[where code and documentation disagree](#where-code-and-documentation-disagree),
[what the models take for granted](#what-the-models-take-for-granted),
[what is not modelled](#what-is-not-modelled), [what could come next](#what-could-come-next).

## The system

The repository is four Rust projects for the Raspberry Pi without an operating
system, and their tools.

| Part | State it keeps | Operations | Talks to | Hard because | Modelled in |
|---|---|---|---|---|---|
| **Critical section** `hal/src/critical_section.rs` | `OWNER`, `DEPTH`, each core's IRQ mask | acquire, release | every driver that shares state with a handler | cores contend, handlers preempt, sections nest, the mask is saved and restored across all of it | `CriticalSection` |
| **System Timer** `hal/src/timer.rs`, **time driver** `embassy/src/time_driver.rs`, **executor** `embassy/src/executor.rs` | a 64-bit counter in two registers, a 32-bit compare, the queue of deadlines, the run queue | now, arm, acknowledge, schedule_wake, rearm, poll, wfe | interrupt line, tasks | time passes between any two register accesses; the compare tests equality; a wake-up between the last poll and the sleep | `TimeDriver` |
| **Interrupt dispatch** `embassy/src/irq.rs`, `hal/src/lic.rs` | none | one handler per source | all async drivers | an unacknowledged level re-enters for ever | with each driver |
| **GPIO, UART, I2C waits** `hal/src/{gpio,uart,i2c}/asynch.rs` | waker slots, interrupt enables | poll, on_irq, drop | executor, hardware | a future dropped while its event arrives; a test made before arming | `GpioWait`, `UartWait`, `I2cWait` |
| **SD / eMMC** `hal/src/sd.rs`, `sd/asynch.rs` | the card's state, the transfer in flight | read, write, init | FAT, kickstart's storage | a transfer abandoned part-way; a switch that fails half-way | `SdHost`, `SdBringUp` |
| **USB host** `hal/src/usb/dwc2/asynch.rs`, `dwc2.rs` | a slot per channel, toggles, shared masks | control, bulk, interrupt and split transfers | controller, devices | aborts, toggles after a failure, one start-of-frame mask for all, microframes that do not wait | `UsbSlots`, `SplitPoll` |
| **USB bus** `hal/src/usb/mod.rs` | addresses, hubs, what each port last showed | poll, enumerate, detach | the callback, hubs | devices come and go during a sweep | `UsbBus` |
| **Ethernet** `embassy/src/ethernet.rs`, `hal/src/usb/{lan9514,lan7800}/asynch.rs` | one transfer's buffer, two queues | start, receive, transmit | network stack, adapter | frames in trains, a full queue in the middle of one | `EthernetRunner` |
| **Wi-Fi** `hal/src/wifi.rs`, `hal/src/sdio.rs`, `embassy/src/wifi.rs` | sequence, credit, backplane window, association | load, send, receive, command, watch | the chip's firmware, the network stack | late answers, eight-bit windows, a remembered window, two opinions about the link | `WifiCredit`, `WifiLink`, `SdioWindow`, `WifiWatch` |
| **Bluetooth** `hal/src/bluetooth*` | links, buffer credits, channels, pairing | commands and events, L2CAP, ATT, SMP | controller, peers | answers known by opcode alone, identifiers used again, keys in two messages | `BtHci`, `ClassicChannels`, `AttClient`, `Pairing` |
| **Firmware services** `vchiq.rs`, `mmal.rs`, `video_decode.rs` | slot ring, buffers lent, ports | send, poll, feed, recycle | VideoCore | both sides own parts of one ring; order alone matches bytes to buffers | `VchiqSlots`, `MmalBuffers`, `VideoDecode` |
| **NVMe** `nvme.rs` | queue heads, tails, phase | transfer | controller | a completion that comes too late | `NvmeQueue` |
| **DMA** `dma.rs` | two buffers in turn | feed | engine, cache | the buffer refilled must not be the one playing | `DmaStream` |
| **Secondary cores** `multicore.rs` | mailboxes, spin table | spawn, sev, wfe | the other cores | caches that are off on one side | `CoreHandoff` |
| **Kickstart** `kickstart/src/**` | sessions, clock, settings, shared volume, pending reboot | web handlers, OTA upload, SNTP | network, volume, board | tasks of one executor interleave at every await; power may go at any write | `Sessions`, `SettingsSave`, `SntpSync`, `OtaUpdate` |
| **OTA library** `loader/ota/src/**` | none between calls | parse, apply | volume | the power may go at any write | `OtaUpdate` |
| **Serial loader** `loader/cli/src/**`, `loader/firmware/src/**` | both ends' rate, where each is in the protocol | boot, write, read, delete over a serial line | each other | a noisy line, one end with no timeouts, the other with little patience | `LoaderLink` |
| Everything else | register set-up | blocking operations | hardware | only in detail, not in ordering | - |

How they interact: a handler (irq.rs) is called on a level, acknowledges its
source and wakes a task; waking puts the task on the executor's run queue and
signals the core; the executor polls, and a polled task reaches the time driver
and the async drivers, all of which share their state with the handlers through
critical sections. Above this, kickstart's tasks share a volume behind an async
mutex and a reboot signal. The drivers of chips that run firmware of their own
(Wi-Fi, Bluetooth, VideoCore, NVMe) share memory or a wire with it and nothing
with one another. The loader is a program of its own on the same HAL.

What makes each part correct, in a sentence: one context at a time is in a
section, with its mask as it left it; no deadline is missed and no wake-up lost;
a wait or transfer that ends, fails or is dropped leaves its hardware as the next
one expects it; what is lent to another processor comes back once, with the bytes
meant for it; an answer goes to the request it is for; what a caller is told of a
link is so; an installed update is on the card and the board reboots into it, and
no failure leaves a board that cannot boot; a loader command that reports success
did what it was asked and the next command finds a loader that answers.

## The models

`CriticalSection` is the bottom layer: the other models take from it that a
section is one step, or that its steps have no other context between them.

A parked future is modelled the same way everywhere: the waker it left, whether
its interrupt is armed, and whether its task is woken and still to be polled.
Where code reads a register, decides, and writes another, these are steps of
their own unless a section holds the other context out. A caller that drops a
future may do so at any step at which the future is parked.

### Composition: the MC modules

Parts that share nothing but the executor are checked side by side: `MCDrivers`,
`MCUsb`, `MCServices` and `MCKickstart` hold one INSTANCE of each, and a variable
`program`, chosen in the initial state, says which of them a behaviour is of; the
others stand still. `MCServices` takes most of its instances from `MCPeers` (MMAL,
the video decoder, the Bluetooth controller, pairing) and `MCLinks` (the Wi-Fi watch,
VCHIQ's ring, Classic channels, Ethernet), which it extends: a prover is given every
definition a module can see, and the proofs about these are several times faster in a
module that sees no others. The sizes of the instances (depths, ports, addresses, retries,
settings) are CONSTANTS of the MC module with an ASSUME over them; the cfg gives
them small values and the proofs leave them open. What differs between two
boards or two ways of doing one thing is a variable chosen in the initial state:
the board and its highest mode in `SdBringUp`, the way a core is released in
`CoreHandoff`, the path of a transfer in `SdHost`. Each instance keeps its own
fairness, for its behaviours alone. Their properties are the parts' own, grouped
by what they are about: the comment over each group says which module its
conjuncts are from. Progress of several parts is one leads-to over what is awaited
(`Begun ~> Over` in `MCDrivers`, `WaitedFor ~> ~WaitedFor` in `MCServices`). Where two models do
meet, the meeting point is in both: a frame's credit is `WifiCredit`'s, what it
carries is `WifiLink`'s; the packet of `SplitPoll` and a control transfer of
`UsbBus` run on a channel of `UsbSlots`; `VideoDecode` has the queue of
`MmalBuffers` under it.

### CriticalSection, NestedLock

`NestedLock` is what the `critical-section` crate promises: contexts enter and
leave, one at a time, and a context may enter again. `CriticalSection` is the
code: one action per access to `OWNER`, `DEPTH` or the mask that another context
can see. A core has a thread and one interrupt handler, which may preempt the
thread at any step with IRQ unmasked and uses sections itself. `owner`, `depth`,
`masked` are the code's variables; `pc`, `was`, `tmp` are each context's place in
`acquire` and `release` and its locals; `saved` is the stack of restore states
that nested sections hold. `wanted`, the mask the thread last chose itself, is
history: no action reads it. `compare_exchange_weak` may fail at any time.
The refinement mapping takes a context's level to be the length of `saved`:
returning from `acquire` is Enter, calling `release` is Leave.

The model is of sequentially consistent memory: the Acquire exchange and the
Release store on `OWNER` order everything the lock protects, and `DEPTH` is
touched by the owner only, which is what the proof shows.

### TimeDriver

One core, its System Timer and interrupt line, the time driver and the executor.
`Tick` moves the counter and may happen between any two steps, as often as it
likes; the compare matches when its bits equal the counter's low bits. The two
halves of `now_micros` are separate reads, with the re-read that catches a
carry. `Drain`, `Compare`, `Write`, `Confirm`, `Clear` are the steps of `rearm`
and `set_compare1`, inside a critical section and so without another context in
between. `Schedule` is `schedule_wake`, `OnIrq` the handler up to `rearm`,
`Poll`, `PollEnds` and `Wfe` the executor's loop, `Wake` the run queue and the
pender's event. A local whose function has returned is set to a fixed value, so
that states do not differ in it.

External and modelled from how it is used: the queue keeps a task's earliest
deadline and says whether it changed (embassy-time-queue-utils); `PollTask` is
embassy-time's `Timer` under embassy-executor's `poll`: a polled task awaits a
deadline, awaits it again or goes on without one; the pender is called when the
run queue was empty. `OtherWake` stands for every other interrupt and task.
Assumed: `init` comes before the executor runs, as its documentation says, one
executor on one core, and a counter that does not reach 2^64.

### GpioWait, UartWait, I2cWait

`GpioWait`: a pin's slot, its detector's two enable registers (one bit per pin,
shared words), its latch. Arming and the handler are one step each; `Drop` calls
`set_trigger` outside a section, so its reads and writes are steps
(`DropReads`, `DropWrites`, `DropEnds`), and a pin the handler has disarmed in
between is written back as it was. `Manual` pins are the application's own.
`UartWait`: the futures of read, write and flush, with IMSC changed by a read and
a write; a dropped wait leaves its waker and its unmasked source behind, as the
code does. `I2cWait`: one transaction of a BSC controller, each pass of whose
loop acts on one reading of S while the wire goes on; the deadline, which is
looked at only when something polls; and the drop part-way.

### SdHost, SdBringUp

`SdHost` has the four ways a block transfer runs (programmed I/O or the ADMA
engine, blocking or parked) over one controller whose INTERRUPT bits latch, with
the command circuit and the data circuit that an error leaves deaf until reset,
and the guard (`Abort`) that stops the card, resets the lines and closes the
interrupts, on return and on drop. `foul` marks that a data phase was left
without a reset and none has come since: a blocking transfer by the FIFO failed, or a start after
its command had moved something; what a read returns then is not claimed (`OkMeansAll`). `SdBringUp` is the ladder of power cycles: voltage,
width and speed as a mode that card and host each hold, with commands refused and
answers lost; the driver's attempt in the next lower mode begins from power.

### DmaStream, CoreHandoff

`DmaStream`: two buffers of a DMA stream, their contents in the cache and in
memory, the engine's block, and `feed`, which learns from CONBLK_AD which buffer
is not playing. `CoreHandoff`: what core 0 wrote but memory does not hold yet
(`dirty`), the three ways a core is released, and the event register that wakes
it, stray events included.

### UsbSlots, UsbBus, SplitPoll

`UsbSlots`: a slot per host channel in which a future waits for its halt or for a
microframe, the shared start-of-frame mask, aborts on drop, the data toggles
taken over from a halt, and channels the blocking methods poll beside them. Aborting
a channel that has just halted may leave it dead (`wedged`): it runs and never halts
again, and only the blocking methods time out on it. The root port's latch is left
out. `UsbBus`: the sweep over ports, with addresses handed out and taken back, the
table of hubs and the callback's view (`stack`). Devices are swapped between two looks
and fail at any step of their bring-up (`ResetFails`, `ProbeFails`), SET_ADDRESS
obeyed and its answer lost among them; so does the root hub (`EnumerateFails`).
`SplitPoll`: an interrupt endpoint behind a hub, start- and complete-splits
microframe by microframe against a translator that keeps a packet only so long.

### WifiCredit, WifiLink, SdioWindow, WifiWatch

`WifiCredit`: sequence numbers and ceilings modulo `Mod`, the plausibility guard,
and commands, which ask for no credit. `WifiLink`: the chip's queue with its
interrupt raised only when the queue stops being empty, superframes taken apart
into the driver's FIFO, commands answered by id, late or never, and the give-up
after two seconds. `SdioWindow`: every access to the chip's memory as single-byte
commands and data transfers, each of which may fail and be retried, over a window
set by three commands and remembered when all three are there (`base`).
`WifiWatch`: passes of the association watch, its probe, its join with a
deadline, and an access point and chip that do as they like; checked with
reconnecting on and off.

### NvmeQueue, VchiqSlots, MmalBuffers, VideoDecode

`NvmeQueue`: submission and completion rings with their phase bit, transfers of
several commands, a command given up before its completion comes. `VchiqSlots`:
messages put into slots with padding where one does not fit, positions published
after the bytes, slots recycled in any order. `MmalBuffers`: a table of buffers
whose places are the contexts the firmware quotes, the queue of bulk receives,
and the page lists that rotate. `VideoDecode`: `feed`, `poll`, `recycle` and the
reconfiguration of the output port with its drain; a layout is the bytes its
frames take.

### BtHci, Pairing, ClassicChannels, AttClient

`BtHci`: packets read byte by byte against a deadline, commands answered by
opcode, links, and credit for the controller's buffers. `Pairing`: both roles of
LE Legacy pairing as two state machines over a link that drops, with bonds kept
at both ends and a peripheral that reboots; the cryptographic functions are free
constructors over numbers never drawn before. A pairing is not begun anew while one
goes on, as `smp.rs:753-760` and `ble_hid_mouse.rs` use it (`CameToNothing`): with
`start_pairing` called four times over an exchange still under way `KeysAgree`
does not hold. `ClassicChannels`: `open`, `recv`,
`close` of a Classic L2CAP endpoint over slots whose identifiers are used again,
against a peer that refuses, closes at any moment and answers late, and with messages
of our own that find no buffer of the controller's free (`Unsent`), whatever the call
or the handler had done by then. `AttClient`:
discovery walks of one request at a time, with answers in one or two fragments,
a request given up on, and the server's own traffic in between. A database lists
its services and their parts (characteristics, or descriptors), each in the order
of handles; an answer carries as many of the asked range's first groups as the
server likes, or is an error, or, of a server that strays from the protocol, lists a
handle behind or past the range, or nothing. `owed` counts the answers still to come besides the one awaited: an
answer looks like its request's kind and no more, so a walk that begins with one
owed may end on it, leaving its own answer to the next walk. Such a walk, and one
that a straying server answers, is not `clean`.

### EthernetRunner

The bring-up, the receive loop and the transmit loop of one adapter between its
FIFO and two bounded queues. A transfer carries frames at multiples of four
bytes, each behind a header; `Frames` finds them by arithmetic, for either chip's
header.

### Sessions, SettingsSave, SntpSync

`Sessions`: a table of N logins; every operation holds the table's mutex and is
one step. `SettingsSave`: the save, stage by stage, over a volume whose card may
hold any of the writes so far; a reset may come between any two. `SntpSync`: a
lease, a lookup, one request and the answers that come before its deadline, in
ticks, with the clock kept as its distance from the server's.

### OtaUpdate

An upload is a handler of kickstart's web server: it receives a bundle, waits for
the volume, checks and installs, and answers. `apply` is synchronous, so while an
upload is in one of its steps no other task of the board runs (`Awake`), but the
card may fail (`Fault`) and the power go (`PowerCut`) at each. `files` is what the
mounted volume reads, `disk` what mounting afresh would find: a write reaches
`disk` whole, in part or not at all until `Sync`. A bundle is a set of entries,
each with a role, a path and contents; `FatFile` maps a path to the file it
names, without regard to case, as FAT does. `Begin` checks a bundle as
`Bundle::parse` does; magic, lengths and checksum are the one alternative
`Reject`. `Look`, `Write`, `Verify`, `InstallDone`, `Sync` are `install_entry`,
`install` and `apply`, in the order of roles. `Finalize` and `AnswerLeaves` are
the response, `TakeReport` and `Reboot` the task that waits for an installed
update and restarts the board after DRAIN. The answer has left by the time DRAIN
ends if it was on its way when DRAIN began (`owed`): the wait is seconds long.
Assumed: a file torn by a power cut or a card error reads as neither the old nor
the new contents.

### LoaderLink

The host's run of one command and the resident loader, with two sequences of
tokens between them. What one end writes in one go is a token or a few: HELLO,
ACK with its version, a status, an error code, a command, its arguments, a rate,
a stream's length, a checksum, a chunk's data. Bytes sent at another rate than
the reader's, and damaged ones, are junk. The device blocks on every read; the
host gives up when too little comes and the device is blocked or busy with the
card (`TimesOut`). Each host run opens the port at the base rate, greets, raises
the rate, transfers, lowers the rate and, for boot, jumps; each `?` ends it
there (`Bail`). `store` is the memory and the one file a command names.
`WireFault` damages or loses tokens of the kinds a configuration names,
`Trouble` adds Ctrl-C, card errors and a card slower than the host's patience,
all within `MaxFaults`. A path longer than the loader's buffer (`longWrite`) is
refused before the sizes that follow it are read: what the loader then takes those
eight bytes for is any of `Leftovers`, one token or two for the lot.

Assumed: CRC-32 is perfect; a damaged status never becomes the other valid one;
a damaged header is junk or names another address; the receive FIFO overflows
only by losing tokens. Left out: sd-list and sd-mkdir (the exchanges of sd-read
and sd-delete), the EEPROM commands, the terminal. The FAT library is one step
that works or fails.

## The runs

| Run | Instance | Fairness | Checks |
|---|---|---|---|
| `cs` | two cores, each with thread and handler, sections nested three deep; beside them one core without the multicore feature, nested seven deep | weak for steps inside acquire and release; strong for the end of each section (a caller may be preempted for ever only if handlers never stop); strong for the exchange, which may fail spuriously but not for ever | `TypeOK` `MutualExclusion` `MaskAsWanted` `KeepsPromise` `Progress` `SingleBuild` |
| `time` | two tasks, delays of 1 and 3 around a clamp of 2, a counter that wraps at 4, started two ticks before a wrap, until 5 | weak for the clock, the thread and the driver; strong for the interrupt: the line stays up, and is taken when the mask opens, however often it closes | `TypeOK` `Armed` `SleepsSafely` `Resumes` |
| `ota_two` | two uploads; bundles that are a full release, a newer kernel and half a firmware pair; one fault, one restart; with a volume or without | weak for each handler, for the install and for the reboot task: the executor polls every woken task | `TypeOK` `CommitLast` `OkMeansInstalled` `FirmwareInPairs` `UploadEnds` `UpdateTakesEffect` |
| `ota_unreported` | one upload | the same | finds `InstalledReboots` violated |
| `ota_two_installs` | two uploads, one card fault | the same | finds `RebootsIntoUpdate` violated |
| `loader` | every command, an image for a forbidden address and a path too long among them, two in a row, files of none, one and two chunks, two faults out of damaged or lost chunks and greetings, Ctrl-C, card errors and slow answers, two attempts a chunk; beside it a link that only damages, and fewer tokens than a chunk has attempts | weak for device and host in the second: a wire delivers, a process runs | `TypeOK` `AchievedInStep` `WholeFiles` `MildEndsWell` |
| `loader_status` | one file, one damaged status | the same | finds `WholeFiles` violated |
| `drivers` | GPIO: two async pins, one level-triggered, and one of the application's; UART and I2C FIFOs of two, I2C transfers of up to three bytes; SD transfers of up to two blocks on all four paths; bring-up on a Pi 5 and an older board; a DMA stream of six chunks; two secondary cores, released in each of three ways | weak for hardware, handler and thread; strong for the poll of a woken task beside others, and for the caller of `feed` | `TypesOK` `ParkedIsServed` `CleanBetween` `OkIsTrue` `WaitsEnd` |
| `gpio_drop` | a wait dropped beside another | none | finds `NeverStuck` violated |
| `usb` | two channels, one polled as well, three microframes; a root hub of two ports with one more hub and a device, five addresses; a device of two reports behind a hub | weak for channels, microframes, handler and translator; strong for a microframe being taken while it is awaited; the bus is polled for ever, and neither enumerated anew nor stopped by the callback for ever | `TypesOK` `ChannelsSound` `BusInStep` `HostSettles` |
| `services` | see below | weak for each driver's own steps and each chip's; strong for what a caller or an access point does again and again, and for a GATT server's answers that list something | `TypesOK` `AnswersAreOwn` `BooksBalance` `MemoryIsOwned` `NothingLost` `LinksAreReal` `Recovers` |
| `kickstart` | a table of two sessions, five logins, lifetime 2, horizon 5; two settings and three faults; an SNTP exchange of two ticks with retries of 1 and 2 | weak for the task and the clock | `TypesOK` `TimesKept` `SavedWhole` `KeepsSyncing` |

What each shows, group by group: `PROJECT.json` says it of each run in a
sentence, and the comment over each property in its module.

The instances inside `services`, with their reachable states:

| Program | Instance | States |
|---|---|---|
| `WifiCredit` | 32 sequence numbers, a ceiling believed 8 ahead, 3 buffers, 2 commands beyond the window | 15104 |
| `WifiLink` | 2 request ids, FIFO of 2 | 12092 |
| `WifiWatch` | silence of 4, with reconnecting and without | 2593 + 449 |
| `NvmeQueue` | rings of 3, 3 identifiers, transfers of up to 2 commands | 22989 |
| `VchiqSlots` | 2 slots of 3 words, a queue of 2, positions that wrap at 15 | 14084 |
| `MmalBuffers` | 3 buffers, 2 outstanding fetches, 2 bulks; and a narrow one with 1 | 19642 + 909 |
| `BtHci` | one link and two opcodes; two links and one opcode | 56801 + 41356 |
| `SdioWindow` | a script of 8 accesses, load and service | 834 |
| `Pairing` | 6 draws, 3 attempts | 9720 |
| `ClassicChannels` | 2 slots, 2 channels of the peer, one time-out or unsent message | 49259 |
| `AttClient` | a database over 3 handles, 2 walks, one abandoned request, a server that may stray | 70771 |
| `EthernetRunner` | both chips, queues of 1, FIFO of 2, 2 frames of 2 lengths, 2 faults | 18038 |
| `VideoDecode` | two output buffers, two inputs, two films (one changes layout near its end, one outgrows its buffers), one drain cut short | 7586 |

**Why these bounds are enough to meet the cases.** Each ring, window, table or
FIFO has the smallest size at which it is empty, partly used, full and wraps;
each population (pins, channels, links, uploads, cores) has the two members
between which an interference can occur, and a third where a bystander can be
harmed; each fault budget allows one fault and another while the first is being
dealt with, and retries are set so that giving up is within the budget, except
where the property is that giving up does not happen (`MildEndsWell`). Every
bound is a CONSTANT and is named where it is declared. The mutants are the
evidence that the cases occur: every property of a passing run has in
`PROJECT.json` a change to one definition, of the kind a slip in that code would
be, under which the same run finds it violated.

CHECK_DEADLOCK is FALSE where the system may stop: when the bounded number of
uploads, commands, drops, faults or ticks is used up. In `time`, `Resumes` and
the invariants are about deadlines the bounded clock reaches.

**Fairness** is only assumed of what the program or the hardware does by itself:
a handler whose line is up and unmasked is taken, a task that was woken is polled,
a chip that owes an answer in a model's sense gives it, a deadline passes. It is
never assumed of faults, of drops, of devices coming or going, or of a caller
asking. Strong fairness is used where the action is disabled again and again by
others' progress, and each such use is named in the table.

## What is proved

Theorems hold for every value of the constants under the modules' named
assumptions: any number of cores and any nesting; any width of the compare,
clamp and delays; any files, bundles, uploads, faults and restarts; any pins,
channels, sessions, scripts and settings.

**CriticalSectionProofs** (`TypeCorrect`, `Exclusion`, `Masked`, `NoSelfWait`,
`MaskRestored`, `Refinement`). Exclusion alone is not inductive: it needs to know
what a context in the middle of `acquire` or `release` holds. The invariant is
`TypeOK /\ Alone /\ Handlers /\ Ownership /\ Counting /\ InFlight /\ Kept /\ Wanted`:
a context past the mask runs alone on its core; a handler runs masked, and when
the thread runs its handler is outside every section; `owner` is c exactly when a
context of c holds the lock; `depth` is the number of sections that context is in
(or one off while a store is pending, `InFlight`); what a section saved is what
the mask was; `wanted` is the mask, or what is saved for it. One lemma per action,
and the theorems follow from the invariant. `Refinement` is the step simulation
to `NestedLock`.

**KickstartProofs**, of the update (`TypeCorrect`, `KernelIsTheCommit`, `OkIsInstalled`,
`FirmwareTogether`). The last three assume `DistinctFiles`, that no bundle names
one file by two paths: without it they are false (see below). The invariant
says of each upload inside `apply` that no other upload is (`Alone`), that the
entries before the current one are on the card (`Passed`), that they are passed
in the order of roles (`Ordered`), and so that the kernel comes last (`Commit`).

**DriversProofs**, of deadlines (`TypeCorrect`, `NoDeadlineMissed`, `NoWakeUpLost`,
`SleepIsSafe`). The invariant has one conjunct for each fact a step hands to the
next: `ReadInv`, what the registers read so far say about the time (the time seen
is past, and not torn: lemma `OneMoment`, from division and remainder by the
width); `ArmInv`, how far the deadline being armed is covered at each place in
`rearm`; `Armed` itself; and `Quiet`, `Batched`, `Queued`, `Signalled`, where a
task that awaits a deadline is to be found: queued, running, about to be polled,
or in the driver's queue with a deadline no later than its own.

**DriversProofs** (`DriversTypes`, `DriversServeParked`, `DriversLeaveClean`,
`DriversOkIsTrue`: the four invariants of the run `drivers`). One inductive invariant per
driver, and `DriversInv` is their conjunction: a step of one program leaves the
variables of the others alone.

- GPIO: `Agreed` ties slot, enable bits and task; `Dropped` says where a pin being
  dropped may be seen armed still; `Reach` that a drop's stale read of a shared
  register has too many pins in it and never too few, which is why a drop can
  re-arm a pin (finding 3 below) and never disarms one; `HandOn` that the
  application's pins stay enabled; `Calm` and `Risen` what an event belongs to.
- UART: `UartArming`, that a future which has left its waker is armed or woken.
- I2C: the bytes on the wire are those moved and those the FIFO holds (`I2cBytes`); a
  status bit is up only when the wire has stopped (`I2cEnds`); what an iteration read
  of S holds still, as far as it acts on it (`I2cSeen`). From these, OK means all
  bytes went.
- SD: where the card and each circuit stand at each step of a transfer
  (`SdCommand`, `SdWait`, `SdReady`), what an abandoned one leaves behind
  (`SdClean`), that blocks in the FIFO, moved and outstanding add up (`SdBlocks`),
  and that a ready bit is up when there is a block, or room for one (`SdSeen`).
- Bring-up: `CardStage`, the mode of card and host rung by rung. Streams:
  `StreamSound`, which buffer plays and what each holds, while the caller keeps up.
  Cores: `HandoffOrder`, `HandoffLines`, that what the started core reads has been
  cleaned to memory before the release it sees.

**UsbProofs** (`UsbTypes`, `UsbInStep`, `UsbChannels`: the three invariants of the
run `usb`).

- The bus, for any ports, hubs and devices. `BusUsed`: the address bitmap is exactly
  what stands on the ports of the hubs in the table, and each address stands on one
  port only; `BusHubs`: a hub in the table hangs on a port of the root hub, and is on it
  still if it answers to its address; `BusAnswers`: what answers to an address is behind
  a hub that answers, on the port its address stands on or on one that was given up, in
  which case the address may be another's by now. The invariants say what a sweep has done so far through the pass it is in
  (`BusPass`). `AddressesLast` is a count, by the library's facts on cardinality: the
  addresses in use are injected into the ports of the table less the one being
  served, of which there are fewer than addresses (8 hubs of 15 ports against 127,
  the assumption `MaxHubs * Ports < MaxAddress`).
- The split poll, for any delays the assumption allows: `PollWindow` bounds the age of
  a packet in the hub by the place of the host in its microframes, `PollBooks` balances
  the device's toggle, the hub's packet and the host's toggle.
- The channels, for any set of them: `SlotsOwned` says of each channel what its slot
  and its registers hold for whoever owns it, at each point of a transfer, a drop or a
  poll; `SlotsCounted` that the two toggles differ exactly while a completed halt has
  not been taken over, off the endpoints whose transfer was cut.

**KickstartProofs**, of the run `kickstart` (`KickstartTypes`, `KickstartTimes`,
`SettingsWhole`: its invariants and its action properties).

- Sessions, for any table and lifetime. That a live session is evicted only after as
  many later logins as there are slots needs counting: `Kept` says that the slots
  other than its own hold logins later than it, `Apart` that no two slots hold one
  login, and the lemma `Pigeons` (an injection from 1..N into an interval makes it at
  least N long) does the rest.
- The settings file, for any number of faults and resets: `SaveKnown` says that card and
  volume show only what the file may be, `SaveStaged` that the copy is whole in both
  when the rename comes, because the sync and the comparison come before it.
- The clock, for any time-outs and ways: `SntpOwn`, that an answer that echoes the
  request is no older than the request, so the clock is off by its way here alone.

**ServicesProofs** with **PeersProofs** and **LinksProofs** (`ServicesTypes`, `AnswersOwn`,
`LentAddsUp`, `MemoryOwned`, `LinksReal`: the four invariants of the run `services` and one
of its two groups of action properties, for any rings, windows, buffers, links, channels,
films, scripts and databases). Each instance has an inductive invariant of its own; `MCInv`
is their conjunction, and `MCSteps` says that a step of the composition is a step of each or
leaves it alone. What the invariants say beside the types and the promise itself:

- The Wi-Fi chip's credit, `CreditInv`: the window is ahead of the sequence by no more than
  the chip has buffers free or is about to free, unless a command went past it. It needs
  the firmware and the chip to be out of step by less than a sequence number can tell
  (`CreditAssumption`).
- The chip's memory, `WindowTracked`: the window remembered may differ from the chip's only
  while the access to come is not in it, so that the next access sets it again; this is why
  remembering it only after all three commands suffices. Under `ChipIsSensible`: a failed
  load is not begun anew on the same link, and accesses that serve the running chip share a
  window.
- Its commands, `Due` and `Awaited`: the ages of the answers owed and queued, counted back
  from the last identifier, go down by one from each to the next, so that no two have the
  same one and that of a command given up is not the one now awaited.
- NVMe, `OneByOne`: until one was given up, the one command under way is in one of three
  places (`Pushes`, `Works`, `Posts`), and the phase bits of the ring tell posted from old
  (`Marked`, `InRound`).
- MMAL, for a table and bulks of any size: what is on the way back or done is so in the table
  (`GivenBack`, `FinishedOnce`), each announced transfer has its place in the queue
  (`Covered`, `InQueue`), and page lists and buffers pair up in the order of the queue
  as long as no fetch was refused or unsent (`InOrder`).
- The video decoder: every buffer is in exactly one place (`OnePlace`), `inFlight` is at most
  the cardinality of those away (`FilmCounted`), input buffers add up (`InputsKept`), and a
  message about a layout is the one the stream needs next, seen at each stage of the
  reconfiguration (`Pausing`, `LayoutTold`). It needs the caller to hold fewer frames
  than there are buffers (`VideoAssumption`).
- The Bluetooth controller: credits, packets held and completions on their way are sets whose
  cardinalities add up to the total, whatever a lost link takes with it (`BtInv`, with `Units`
  and `Way`); the last message about a link in the line says how it stands (`LastSays`).
- Pairing: how far each side can be, by what is on its way to it (`InTurn`, `Revealed`,
  `KeyAsked`), and the two messages of a bond (`Halved`).
- GATT: answers under way are at most `owed` and the one awaited (`NoMoreThanOwed`, counted by
  cardinality), those of a clean walk fit its question (`AnswersFit`), and what was found is
  what the database has so far (`FoundSoFar`), by lemmas on the folds of ordered groups. The
  attempt to prove this found that the model counted `owed` wrongly;
  the model was corrected.
- The Wi-Fi watch: `Unnoticed`, how long a lost association can go unseen, from the silence so
  far and the next look.
- Ethernet: the offset in the batch is at a header, and what is still due is what stands from
  there on (`Walking`, from lemma `DrainFinds` on where `Frames` finds them, for either chip's
  header and frames of any length); `Numbered`, that the frames stand in the order they came.
- VCHIQ's ring: there is a set of positions, from the reader's to the writer's, each of which
  has a header that leads to the next (`Chained`); a slot written to is not one still to be
  read (`FarApart`, `Held`), by counting slots (`RingBooks`).
- Classic channels: `Core`, what the slots, the peer's channels and the messages both ways say of
  one another, slot by slot, but for the slots used again too early (`stale`). It shows two
  things the run did not ask: `HeldIsAgreed` holds for stale slots also, and a peer that keeps
  the rules never sends a reject.

The assumptions over the sizes (`CreditAssumption`, `LinkAssumption`, `NvmeAssumption`,
`AttAssumption`, and in `MCPeers` and `MCLinks` one per instance) say that rings and tables have
a place, that time-outs are in order, that a slot holds a message, and that the marks for
nothing are none of the things marked.

**Only model-checked**: every liveness property, which rests on fairness
(`Progress`, `Resumes`, `UploadEnds`, `UpdateTakesEffect`, `MildEndsWell`,
`WaitsEnd`, `HostSettles`, `KeepsSyncing`, `Recovers`); the properties of `LoaderLink`, whose
tokens nest too many cases for the provers; and `NothingLost`, two of whose conjuncts
are not proved.

## Where code and documentation disagree

Each of these is a run whose property states what the documentation says and
which TLC finds violated.

1. `loader_status` (`loader/cli/src/link.rs:374`): a chunk carries no number. When
   its OK is damaged the host sends it again and the device takes it as the next
   chunk; the device commits a file with one chunk twice and another missing.
   The host then reports failure, but the file is on the card.
2. `ota_two_installs` (`kickstart/src/ota.rs:123`): an install that begins during
   another's DRAIN may fail in the kernel, and the board reboots all the same.
3. `ota_unreported` (`kickstart/src/ota.rs:337`): a request whose connection fails after the
   install, while the rest of it is read, returns before the report: the bundle is on the card
   with no answer and no reboot.
4. `gpio_drop` (`hal/src/gpio/asynch.rs:164`): `Drop` changes the shared enable
   registers outside a critical section; a handler in between disarms its pin,
   the write arms it again with nobody waiting, and its next event holds the line
   up for ever.

Further disagreements, each shown by changing one constant of a run above or one
constant of an INSTANCE in its MC module; the rest of this list is named in the
modules' comments at the definition concerned.

- `OtaUpdateTwo.cfg` with `Bundles <- OnlyTwice`: paths are compared byte for byte
  (`loader/ota/src/bundle.rs:409`) where the volume matches without regard to
  case; the second of two entries overwrites the first and the answer is still
  200 (`bundle.rs:396-398`, `kickstart/src/ota.rs:20-22`).
- `OtaUpdateTwo.cfg` with `Bundles <- TwoReleases`, no faults and the property
  `AnswersLeaveFirst`: the second of two installed uploads gets no time for its
  answer to leave (`ota.rs:22-24`, `265-267`).
- `LoaderLink`, invariant `BackAtBase`, or property `Heals` under its `FairSpec`: an error between
  the two rate changes (`loader/cli/src/main.rs:684`) leaves the device at the
  fast rate, where no later run finds it (`cli/README.md:114-119`,
  `link.rs:97-98`); after Ctrl-C the device, in a chunk
  (`loader/firmware/src/main.rs:1038`), takes later greetings as its bytes
  (`loader/README.md:275-277`); with `Lossy = {"data"}` one lost token shifts the
  framing of all that follows, where `firmware/src/main.rs:330-332` calls it
  self-healing; with `Lossy = {"status"}` the lost answer to SET_BAUD leaves the
  ends at two rates, where `link.rs:324-325` says both stay put.
- `LoaderLink.cfg` with `Fragile = {"header"}`: a damaged load address is acted on,
  and success reported (`cli/README.md:156-158`).
- `SdHost`, invariant `FailedIsClean`: a parked transfer whose `start_transfer`
  fails has no guard yet (`sd/asynch.rs:423`), so the command circuit is left as
  the failure left it, where `sd/asynch.rs:81-82` says a failed transfer also
  leaves the controller clean.
- `SdBringUp`, invariant `Usable` without its exceptions: a failure while the width is
  negotiated is swallowed (`sd.rs:990`), which the comment over it says just leaves the bus
  at one bit; but a card that took the wider bus while its answer was lost is left
  at another width than the host, and the command circuit is left as it is. A high-speed clock
  that cannot be set leaves the card's clock stopped (`sd.rs:1568-1572`, `2153-2177`), where the
  comment says the card still works at a slower one.
- `SdHost`, invariant `OkMeansAll` without `foul`: a blocking transfer by the FIFO that fails
  resets nothing (`sd.rs:1417-1434`, `1455-1468`), so the next may report Ok with the words it
  left, what `sd/asynch.rs:69-73` calls silent bad data and cleans up after on its own paths.
- `UsbBus`, invariant `OneAtZero`: a device that fails to take its address stays at
  zero while the next is reset (`usb/mod.rs:366-367`); one that took it, its answer
  lost, keeps an address that is handed out again (`mod.rs:672-677`,
  `control.rs:360`), which `AddressedApart` allows for. Property `ReplugSeen`: a
  device swapped for another between two sweeps is not noticed (`usb/mod.rs:528`
  calls a missed sweep harmless).
- `UsbSlots`, property `WaitsEnd` without `wedged`: a dropped wait aborts a channel
  that may have halted a moment before (`asynch.rs:454-456`), what
  `dwc2.rs:1288-1290` says wedges the core; a future waits on such a channel for ever.
- `LoaderLink`, a path longer than 255 bytes (`longWrite`): `read_path` says it takes a
  refused path off the wire whole, lest the link be out of sync for the next command
  (`firmware/src/main.rs:958-961`), but `cmd_sd_write` returns before the sizes behind
  it are read (`main.rs:452-454`), and the loader takes those for commands: it may
  change its rate or jump.
- `SplitPoll` with `Packets <- 2`, property `TogglesAgree`: a report of several
  packets that fails after its first loses it with the toggle moved on
  (`dwc2.rs:932-935`: the toggle flips only on a successful transfer).
- `WifiCredit`, property `NeverOverruns`: a command asks for no credit, so it may
  carry the sequence past the window, and the test for equality then lets data
  follow (`wifi.rs:980`, documentation at 966-972).
- `WifiLink`, property `Announced`: a resynchronisation may leave frames in the
  chip's queue with no interrupt to come.
- `SdioWindow` with `MayReload <- TRUE` and the assumption `ChipIsSensible` of
  `MCServices`, which rules that out, taken away: `LandsWhereAsked` is violated. A load begun again on
  one link believes a window that is gone (`sdio.rs:1043` asks for a freshly
  initialised link).
- `VchiqSlots` with `MayWrap <- TRUE`, property `Delivered`: positions are compared
  as 32-bit numbers and go wrong after 4 GiB of messages.
- `MmalBuffers`, property `OneListEach` (`vchiq.rs:1062`): the queue of fetches
  rotates under its page lists (`vchiq.rs:987`), so that one is written anew while in
  use. `ListsAssumption` takes it that the firmware reads a list as it takes the
  request; without it, and with `Early = FALSE`, a buffer gets another's bytes
  (`OwnBytes`). And with fewer bulks than buffers
  (four, against `MAX_BUFFERS`) a buffer whose fetch is refused is lost.
- `BtHci`, property `CreditsComeBack`: credit counted for a link that ended while
  its completion was on the way comes back twice or not at all
  (`bluetooth.rs:1578-1579`).
- `VideoDecode` with `MayHold <- 3` over two output buffers, which `VideoAssumption`
  rules out, property `RefusedRightly`:
  a caller that polls while it holds every buffer is told `BufferTooSmall` although
  none is, and the port stays disabled. Frames whose
  fetch is under way when a change of layout is taken are discarded in the drain,
  though `end_of_stream` is documented as coming after every frame
  (`video_decode.rs:450-451`); `NothingLost` allows for those and no others.

Read in the code while modelling and excluded by a named condition of the model:

- `NvmeQueue`: after a time-out every later command takes its predecessor's
  completion, and the device may still write into buffers given back
  (`OwnUnlessLate`). `BtHci`: a late answer is taken by the next command with the
  same opcode. `AttClient`: a late answer is taken by the next request of the same
  kind, though `gatt_client.rs:15-17` says strictly one at a time (`walk.clean`).
- `BtHci`: a command's wait throws away what it was not waiting for
  (`bluetooth.rs:1842`): a credit among it is lost for good (`spilled`), and after a
  link's event the caller's view of the links is not the controller's (`missed`).
- `MmalBuffers`: a fetch is recorded before its message is sent (`vchiq.rs:1051`,
  `1088`); when the message finds no slot, or no bulk is free, every later
  completion is taken for the one before (`failed`). A buffer whose own message was not
  sent in time stays out (`Stranded`).
- `VideoDecode`: a drain given up on leaves buffers counted as the decoder's (`late`).
- `Pairing`: when the power goes after a peripheral has sent its bond and before it
  is saved, it comes back with the old one (`cut`).
- `ClassicChannels`: closes that cross, and an identifier used again, let a late
  Disconnection Response free a channel that is being opened (`stale`;
  `bredr.rs:471` does not compare the signal's identifier); an open that times out
  keeps its slot, and so does one whose request was not sent (`bredr.rs:186`).
  A Command Reject frees the newest slot, whichever command it was about
  (`bredr.rs:483`); the peer of the model has no occasion to send one.
- `DmaStream`: `feed` spins for ever once the engine has stopped on an error
  (`dma.rs:869`).

## What the models take for granted

- Memory is sequentially consistent, but for `CoreHandoff` and `DmaStream`, which
  are about caches.
- The firmware reads a page list as it takes the request for it (`ListsAssumption`).
- Other processors (the Wi-Fi chip, the VideoCore, NVMe and Bluetooth controllers,
  hubs, cards, an NTP server, peers) are external: each is a set of actions that
  does whatever its driver's comments and tests say it may, late, refusing or
  failing where the code has an answer to that. The header of each module says
  what it is taken to do.
- Libraries (embassy-executor, -time, -net, -sync, the FAT library, picoserve,
  rustls) are modelled from how `src/` uses them.
- Random numbers (sessions, pairing) never repeat; CRC-32 and the confirm values
  of pairing never collide.
- One core runs the executor, and `&mut self` methods have one caller at a time.

## What is not modelled

`PROJECT.json` lists every component with its reason. The larger part of the
source is not in any model, and by its nature would not be: some nine tenths of it
are register maps and fixed register sequences with no state between operations
(boot, clocks, PCIe, PWM, SPI, display, V3D, RP1), encodings and decodings
(descriptors, HCI and ATT layouts, bitmaps, web pages, text), assembly and memory
attributes, examples and tests. A model of those would restate the code line by
line and would have no property of its own.

Of the parts that are modelled, left out are: the blocking busy waits of the timer;
the root port's latch of the USB host; the sequence of the Wi-Fi chip's cores,
clocks and resets; scans and joins, which are commands among others; opening VCHIQ
services and MMAL's ports; page lists of NVMe; LE Secure Connections and the
security of pairing (a matter of cryptography, not of order); classic HID's two
channels (`hid_host.rs`), whose set-ups may cross so that a sound channel is
reported as rejected or both ends open one of their own; smoltcp's own
adapter for the LAN9514; TLS, mDNS and HTTP, which are glue over libraries.
Of `kickstart/src/mdns.rs` reading shows that a name or address may stay announced
for `POLL` and the gap between two announcements, not `POLL` alone as its
documentation says, and that an announcement that fails is not repeated; of
`tls/stream.rs`, that a write fails when application data waits to be read.

## What could come next

1. `LoaderLink`'s `OkMeansAchieved` by proof, for a wire that damages only what a
   checksum covers, from an invariant that ties what the device has stored to
   where the host is.
2. `NothingLost` of `services` for any sizes: the ring's and the Ethernet runner's parts
   of it are lemmas already (`RingSays`, `EtherSays`); the Wi-Fi link's and the film's
   want the order of frames along their queues.
3. `hid_host.rs` over `ClassicChannels`, both ends opening at once.
4. The mDNS responder and the TLS stream of kickstart.
