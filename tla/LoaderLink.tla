----------------------------- MODULE LoaderLink -----------------------------
(***************************************************************************)
(* The serial loader: rpi-loader on the host (loader/cli/src/link.rs, one  *)
(* run per command in main.rs) and the resident loader on the Pi           *)
(* (loader/firmware/src/main.rs), with the wire between them.              *)
(*                                                                         *)
(* What one end writes in one go is one token or a few; a reader takes as  *)
(* many tokens as the code reads bytes for.  The wire may damage or lose   *)
(* the kinds of token a configuration names, MaxFaults times in all.       *)
(* CRC-32 is taken as perfect: a checksum matches its own data only.       *)
(***************************************************************************)
EXTENDS Naturals, SequencesExt

CONSTANTS Image,      \* files the host sends: sequences of chunks
          Stored,     \* what the card may hold at first: a file, or Absent
          Chunk,      \* what a chunk may hold
          Ops,        \* commands the user may run
          Baud,       \* the rate --baud asks for
          Supports,   \* does the device's clock form that rate?
          Retries,    \* MAX_CHUNK_RETRIES
          Fragile,    \* kinds of token the wire may damage
          Lossy,      \* kinds of token the wire may lose
          Trouble,    \* what else may happen: "interrupt", "card", "slow"
          MaxFaults,  \* bound: damaged and lost tokens, interrupts, card errors, slow answers
          MaxRuns     \* bound: commands the user runs

Base == 115200

ASSUME LinkAssumption ==
  /\ Image \subseteq Seq(Chunk) /\ Stored \subseteq Seq(Chunk) \cup {<<"absent">>}
  /\ Ops \subseteq {"boot", "memWrite", "badWrite", "sdWrite", "longWrite", "sdRead", "sdDelete"}
  /\ Baud \in Nat /\ Supports \in BOOLEAN
  /\ Retries \in Nat \ {0} /\ MaxFaults \in Nat /\ MaxRuns \in Nat
  /\ Trouble \subseteq {"interrupt", "card", "slow"}

\* Where an image may go: memory at the address asked for, at another one, at one the
\* loader keeps for itself, and the file on the card.  A header may also name "nowhere":
\* a path longer than the loader's buffer.
Place == {"ram", "astray", "reserved", "file"}

\* What has never been written, or was deleted, and a file a card error left torn.
Absent == <<"absent">>
Torn == <<"torn">>

VARIABLES toDevice,  \* tokens on the wire, each way
          toHost,
          hostBaud,
          deviceBaud,
          host,      \* where the host is in its run
          op,        \* the command it runs
          image,     \* the file it sends
          at,        \* the chunk it is at
          tries,     \* how often it has sent or asked for that chunk
          copy,      \* what it has received
          result,    \* how its last run ended: "none", "ok", "failed"
          runs,
          device,    \* where the device is
          command,   \* the command it serves
          header,    \* the header it accepted
          got,       \* the chunks it has received or sent
          store,     \* store[p]: what is at place p
          jumped,    \* where it has jumped to, or "no"
          faults

wires == <<toDevice, toHost>>
hostVars == <<hostBaud, host, op, image, at, tries, copy, result, runs>>
deviceVars == <<deviceBaud, device, command, header, got, store, jumped>>
vars == <<wires, hostVars, deviceVars, faults>>

-----------------------------------------------------------------------------
(* Tokens *)

Hello == [kind |-> "hello"]
Ack == [kind |-> "ack"]
Status(ok) == [kind |-> "status", ok |-> ok]
Code == [kind |-> "code"]
Command(c) == [kind |-> "command", command |-> c]
Header(p, m) == [kind |-> "header", place |-> p, image |-> m]
Rate(b) == [kind |-> "rate", baud |-> b]
StreamHeader(n) == [kind |-> "stream", length |-> n]
Crc(d) == [kind |-> "crc", of |-> d]
Data(d) == [kind |-> "data", data |-> d]
Junk == [kind |-> "junk"]

Ok == Status(TRUE)
Fail == Status(FALSE)

\* What was sent at another rate than its reader's arrives as junk.
OnWire(tokens) == IF hostBaud = deviceBaud THEN tokens ELSE [i \in DOMAIN tokens |-> Junk]

\* A jumped device's kernel owns the UART: what is sent to it is no longer the loader's.
HostWrites(tokens) == toDevice' = IF device = "jumped" THEN toDevice ELSE toDevice \o OnWire(tokens)
DeviceReads(n, tokens) == /\ Len(toDevice) >= n
                          /\ toDevice' = SubSeq(toDevice, n + 1, Len(toDevice))
                          /\ toHost' = toHost \o OnWire(tokens)

Init == /\ toDevice = <<>> /\ toHost = <<>>
        /\ hostBaud = Base /\ deviceBaud = Base
        /\ host = "closed" /\ op = "none" /\ image = <<>> /\ at = 0 /\ tries = 0
        /\ copy = <<>> /\ result = "none" /\ runs = 0
        /\ device = "power on" /\ command = "none" /\ header = Header("file", <<>>) /\ got = <<>>
        /\ \E f \in Stored : store = [[p \in Place |-> Absent] EXCEPT !["file"] = f]
        /\ jumped = "no"
        /\ faults = 0

Trip(what) == what \in Trouble /\ faults < MaxFaults /\ faults' = faults + 1

-----------------------------------------------------------------------------
(* The wire *)

\* What damage makes of a token: a header may still look like one, nothing else does.
Damaged(t) == {Junk} \cup (IF t.kind = "header" THEN {Header("astray", t.image)} ELSE {})

Damage(t, i) == IF t[i].kind \in Fragile THEN {ReplaceAt(t, i, d) : d \in Damaged(t[i])} ELSE {}
Loss(t, i) == IF t[i].kind \in Lossy THEN {RemoveAt(t, i)} ELSE {}

WireFault == /\ faults < MaxFaults
             /\ faults' = faults + 1
             /\ \/ /\ \E i \in DOMAIN toDevice : toDevice' \in Damage(toDevice, i) \cup Loss(toDevice, i)
                   /\ UNCHANGED toHost
                \/ /\ \E i \in DOMAIN toHost : toHost' \in Damage(toHost, i) \cup Loss(toHost, i)
                   /\ UNCHANGED toDevice
             /\ UNCHANGED <<hostVars, deviceVars>>

-----------------------------------------------------------------------------
(* The device.  It blocks on every read: it has no timeout. *)

Goes(d) == device' = d

\* Tokens it blocks for.
Needs == CASE device \in {"power on", "command", "arguments", "await"} -> 1
           [] device = "chunks" -> 2
           [] OTHER -> 0
Blocked == device = "jumped" \/ Needs > Len(toDevice)

\* It works on the card, for longer than it takes to answer a byte.
Busy == device \in {"mount", "commit"}

\* wait_for_hello
WaitForHello ==
  /\ device = "power on"
  /\ \/ DeviceReads(1, <<Ack>>) /\ Head(toDevice) = Hello /\ Goes("command")
     \/ DeviceReads(1, <<>>) /\ Head(toDevice) # Hello /\ UNCHANGED device
  /\ UNCHANGED <<hostVars, deviceBaud, command, header, got, store, jumped, faults>>

\* read_command, which greets again, and the dispatch of kmain.
ReadCommand ==
  /\ device = "command"
  /\ \/ /\ DeviceReads(1, <<Ack>>) /\ Head(toDevice) = Hello
        /\ UNCHANGED <<device, command>>
     \/ /\ DeviceReads(1, <<>>) /\ Head(toDevice).kind = "command"
        /\ command' = Head(toDevice).command
        /\ Goes("arguments")
     \/ /\ DeviceReads(1, <<Fail>>) /\ Head(toDevice).kind \notin {"hello", "command"}
        /\ UNCHANGED <<device, command>>
  /\ UNCHANGED <<hostVars, deviceBaud, header, got, store, jumped, faults>>

\* The arguments are no good: FAIL, with an error code from the card's commands.
Refused == LET code == IF command \in {"sdWrite", "sdRead", "sdDelete"} THEN <<Fail, Code>> ELSE <<Fail>>
           IN DeviceReads(1, code) /\ Goes("command")

\* cmd_set_baud: the answer drains at the old rate before the rate changes.
SetBaud ==
  /\ device = "arguments" /\ command = "baud"
  /\ \/ /\ DeviceReads(1, <<Ok>>) /\ Head(toDevice).kind = "rate"
        /\ Supports \/ Head(toDevice).baud = Base
        /\ deviceBaud' = Head(toDevice).baud
        /\ Goes("command")
     \/ /\ Refused /\ ~(Head(toDevice).kind = "rate" /\ (Supports \/ Head(toDevice).baud = Base))
        /\ UNCHANGED deviceBaud
  /\ UNCHANGED <<hostVars, command, header, got, store, jumped, faults>>

\* cmd_mem_write's header: the image must fit below the loader itself.
MemWrite ==
  /\ device = "arguments" /\ command = "mem"
  /\ \/ /\ DeviceReads(1, <<Ok>>) /\ Head(toDevice).kind = "header" /\ Head(toDevice).place # "reserved"
        /\ Head(toDevice).image # <<>>
        /\ header' = Head(toDevice) /\ got' = <<>>
        /\ Goes("chunks")
     \/ /\ Refused /\ ~(Head(toDevice).kind = "header" /\ Head(toDevice).place # "reserved" /\ Head(toDevice).image # <<>>)
        /\ UNCHANGED <<header, got>>
  /\ UNCHANGED <<hostVars, deviceBaud, command, store, jumped, faults>>

\* CMD_EXEC: after the answer nothing reads the wire for the loader any more.
Exec ==
  /\ device = "arguments" /\ command = "exec"
  /\ \/ /\ DeviceReads(1, <<Ok>>) /\ Head(toDevice).kind = "header" /\ Head(toDevice).place # "reserved"
        /\ jumped' = Head(toDevice).place
        /\ Goes("jumped")
     \/ /\ Refused /\ ~(Head(toDevice).kind = "header" /\ Head(toDevice).place # "reserved")
        /\ UNCHANGED jumped
  /\ UNCHANGED <<hostVars, deviceBaud, command, header, got, store, faults>>

\* What the loader makes of the eight bytes of sizes cmd_sd_write leaves on the wire: no
\* command at all, one whose arguments come from what the host sends next, a rate to change
\* to, or an address to jump to.
Leftovers == {<<Junk>>, <<Command("baud"), Rate(Baud)>>, <<Command("exec"), Header("astray", <<>>)>>}
             \cup {<<Command(c)>> : c \in {"baud", "mem", "exec", "sdWrite", "sdRead", "sdDelete"}}

\* The arguments of a card command; then the card is mounted.  read_path takes a whole path
\* off the wire even when it refuses it, but cmd_sd_write then returns before it has read
\* the sizes that follow.
SdCommand ==
  LET readable == Head(toDevice).kind = "header" /\ Head(toDevice).place # "nowhere"
  IN /\ device = "arguments" /\ command \in {"sdWrite", "sdRead", "sdDelete"}
     /\ \/ /\ DeviceReads(1, <<>>) /\ readable
           /\ header' = Head(toDevice)
           /\ Goes("mount")
        \/ /\ Refused /\ ~readable /\ command # "sdWrite"
           /\ UNCHANGED header
        \/ /\ toDevice # <<>> /\ ~readable /\ command = "sdWrite"
           /\ \E left \in Leftovers : toDevice' = left \o Tail(toDevice)
           /\ toHost' = toHost \o OnWire(<<Fail, Code>>)
           /\ Goes("command")
           /\ UNCHANGED header
     /\ UNCHANGED <<hostVars, deviceBaud, command, got, store, jumped, faults>>

\* send_chunk: chunk i of the file.
Sends(i) == <<Crc(store["file"][i]), Data(store["file"][i])>>

\* The card comes up, the destination is checked, a file to read is in RAM, one to
\* delete is gone; or an error is reported, perhaps after the file is gone.
Mount ==
  /\ device = "mount"
  /\ \/ /\ command = "sdWrite"
        /\ DeviceReads(0, <<Ok>>)
        /\ got' = <<>>
        /\ Goes(IF header.image = <<>> THEN "commit" ELSE "chunks")
        /\ UNCHANGED <<store, faults>>
     \/ /\ command = "sdRead" /\ store["file"] \notin {Absent, Torn}
        /\ got' = <<>>
        /\ IF store["file"] = <<>>
             THEN DeviceReads(0, <<Ok, StreamHeader(0)>>) /\ Goes("command")
             ELSE DeviceReads(0, <<Ok, StreamHeader(Len(store["file"]))>> \o Sends(1)) /\ Goes("await")
        /\ UNCHANGED <<store, faults>>
     \/ /\ command = "sdDelete" /\ store["file"] # Absent
        /\ DeviceReads(0, <<Ok>>)
        /\ store' = [store EXCEPT !["file"] = Absent]
        /\ Goes("command")
        /\ UNCHANGED <<got, faults>>
     \/ /\ \/ Trip("card")
           \/ command = "sdRead" /\ store["file"] \in {Absent, Torn} /\ UNCHANGED faults
           \/ command = "sdDelete" /\ store["file"] = Absent /\ UNCHANGED faults
        /\ DeviceReads(0, <<Fail, Code>>)
        /\ \/ UNCHANGED store
           \/ command = "sdDelete" /\ store' = [store EXCEPT !["file"] = Absent]
        /\ Goes("command")
        /\ UNCHANGED got
  /\ UNCHANGED <<hostVars, deviceBaud, command, header, jumped>>

\* Mutant: the checksum is not compared.
ChunksBlind ==
  /\ device = "chunks"
  /\ DeviceReads(2, <<Ok>>)
  /\ got' = Append(got, IF toDevice[2].kind = "data" THEN toDevice[2].data ELSE "junk")
  /\ store' = IF command = "mem" THEN [store EXCEPT ![header.place] = got'] ELSE store
  /\ Goes(IF Len(got') < Len(header.image) THEN "chunks" ELSE IF command = "mem" THEN "check" ELSE "commit")
  /\ UNCHANGED <<hostVars, deviceBaud, command, header, jumped, faults>>

\* Mutant: chunks go to the card as they come.
ChunksToCard ==
  /\ device = "chunks"
  /\ LET whole == toDevice[1].kind = "crc" /\ toDevice[2] = Data(toDevice[1].of) IN
     \/ /\ DeviceReads(2, <<Ok>>) /\ whole
        /\ got' = Append(got, toDevice[2].data)
        /\ store' = [store EXCEPT ![header.place] = got']
        /\ Goes(IF Len(got') < Len(header.image) THEN "chunks"
                ELSE IF command = "mem" THEN "check" ELSE "commit")
     \/ /\ DeviceReads(2, <<Fail>>) /\ ~whole
        /\ UNCHANGED <<device, got, store>>
  /\ UNCHANGED <<hostVars, deviceBaud, command, header, jumped, faults>>

\* recv_chunk, and what cmd_mem_write and cmd_sd_write do with the chunk.
Chunks ==
  /\ device = "chunks"
  /\ LET whole == toDevice[1].kind = "crc" /\ toDevice[2] = Data(toDevice[1].of) IN
     \/ /\ DeviceReads(2, <<Ok>>) /\ whole
        /\ got' = Append(got, toDevice[2].data)
        /\ store' = IF command = "mem" THEN [store EXCEPT ![header.place] = got'] ELSE store
        /\ Goes(IF Len(got') < Len(header.image) THEN "chunks"
                ELSE IF command = "mem" THEN "check" ELSE "commit")
     \/ /\ DeviceReads(2, <<Fail>>) /\ ~whole
        /\ UNCHANGED <<device, got, store>>
  /\ UNCHANGED <<hostVars, deviceBaud, command, header, jumped, faults>>

\* cmd_mem_write: the checksum of what is in memory against the header's.
Check == /\ device = "check"
         /\ DeviceReads(0, <<Status(store[header.place] = header.image)>>)
         /\ Goes("command")
         /\ UNCHANGED <<hostVars, deviceBaud, command, header, got, store, jumped, faults>>

\* cmd_sd_write: write_file and unmount.
Commit == /\ device = "commit"
          /\ \/ DeviceReads(0, <<Ok>>) /\ store' = [store EXCEPT !["file"] = got] /\ UNCHANGED faults
             \/ /\ Trip("card")
                /\ DeviceReads(0, <<Fail, Code>>)
                /\ \E f \in {store["file"], Torn} : store' = [store EXCEPT !["file"] = f]
          /\ Goes("command")
          /\ UNCHANGED <<hostVars, deviceBaud, command, header, got, jumped>>

\* send_chunk: anything but OK has the chunk sent again.
AwaitOk ==
  /\ device = "await" /\ toDevice # <<>>
  /\ \/ /\ Head(toDevice) = Ok
        /\ got' = Append(got, store["file"][Len(got) + 1])
        /\ IF Len(got') = Len(store["file"]) THEN DeviceReads(1, <<>>) /\ Goes("command")
           ELSE DeviceReads(1, Sends(Len(got') + 1)) /\ UNCHANGED device
     \/ /\ DeviceReads(1, Sends(Len(got) + 1)) /\ Head(toDevice) # Ok
        /\ UNCHANGED <<device, got>>
  /\ UNCHANGED <<hostVars, deviceBaud, command, header, store, jumped, faults>>

Serve == \/ WaitForHello \/ ReadCommand \/ SetBaud \/ MemWrite \/ Exec
         \/ SdCommand \/ Mount \/ Chunks \/ Check \/ Commit \/ AwaitOk

\* To load again after a jump, the user switches the board off and on.
PowerCycle == /\ device = "jumped" /\ host = "closed"
              /\ device' = "power on" /\ deviceBaud' = Base /\ jumped' = "no"
              /\ toDevice' = <<>> /\ toHost' = <<>>
              /\ store' = [p \in Place |-> IF p = "file" THEN store[p] ELSE Absent]
              /\ UNCHANGED <<hostVars, command, header, got, faults>>

-----------------------------------------------------------------------------
(* The host.  Every read gives up after a while without a byte. *)

Stage(h) == host' = h

HostReads(n) == Len(toHost) >= n /\ toHost' = SubSeq(toHost, n + 1, Len(toHost)) /\ UNCHANGED toDevice
HostSends(tokens) == HostWrites(tokens) /\ UNCHANGED toHost

\* read_exact_or_timeout gives None: too few tokens come, and none will, or only later
\* than the host has patience for.
TimesOut(n) == /\ Len(toHost) < n
               /\ toHost' = <<>> /\ UNCHANGED toDevice
               /\ \/ Blocked /\ UNCHANGED faults
                  \/ Busy /\ Trip("slow")

\* bail!, and every ? on the way: the process ends as it is.
Bail == Stage("closed") /\ result' = "failed" /\ UNCHANGED <<hostBaud, op, image, at, tries, copy, runs>>

\* Link::open, at the base rate, and what handshake clears.
Open(o, m) ==
  /\ host = "closed" /\ runs < MaxRuns /\ device # "jumped"
  /\ op' = o /\ image' = m /\ at' = 1 /\ tries' = 0 /\ copy' = <<>> /\ result' = "none"
  /\ runs' = runs + 1
  /\ hostBaud' = Base
  /\ toHost' = <<>> /\ UNCHANGED toDevice
  /\ Stage("greet")
  /\ UNCHANGED <<deviceVars, faults>>

\* handshake: HELLO again and again, until ACK comes back.
Greet == /\ host = "greet"
         /\ HostSends(<<Hello>>)
         /\ Stage("greeting")
         /\ UNCHANGED <<hostBaud, op, image, at, tries, copy, result, runs, deviceVars, faults>>

AwaitAck == /\ host = "greeting"
            /\ \/ HostReads(1) /\ Head(toHost) = Ack /\ Stage("settle") /\ UNCHANGED faults
               \/ HostReads(1) /\ Head(toHost) # Ack /\ UNCHANGED <<host, faults>>
               \/ TimesOut(1) /\ Stage("greet")
            /\ UNCHANGED <<hostBaud, op, image, at, tries, copy, result, runs, deviceVars>>

Negotiates == op # "sdDelete"

\* After 20 ms the device has answered every HELLO; what it said is cleared.
Settle == /\ host = "settle" /\ (Blocked \/ Busy)
          /\ toHost' = <<>> /\ UNCHANGED toDevice
          /\ Stage(IF Negotiates /\ hostBaud # Baud THEN "raise" ELSE "start")
          /\ UNCHANGED <<hostBaud, op, image, at, tries, copy, result, runs, deviceVars, faults>>

\* What follows the transfer: boot jumps, the others are done.
AfterTransfer == IF op = "boot" THEN "exec" ELSE "done"
Lowering == IF Negotiates /\ hostBaud # Base THEN "lower" ELSE AfterTransfer

\* negotiate_baud; after a switch, what came meanwhile is cleared.
AskRate == /\ host \in {"raise", "lower"}
           /\ HostSends(<<Command("baud"), Rate(IF host = "raise" THEN Baud ELSE Base)>>)
           /\ Stage(IF host = "raise" THEN "raising" ELSE "lowering")
           /\ UNCHANGED <<hostBaud, op, image, at, tries, copy, result, runs, deviceVars, faults>>

AwaitRate == /\ host \in {"raising", "lowering"}
             /\ Stage(IF host = "raising" THEN "start" ELSE AfterTransfer)
             /\ \/ /\ toHost # <<>> /\ Head(toHost) = Ok
                   /\ toHost' = <<>> /\ UNCHANGED toDevice
                   /\ hostBaud' = IF host = "raising" THEN Baud ELSE Base
                   /\ UNCHANGED faults
                \/ HostReads(1) /\ Head(toHost) # Ok /\ UNCHANGED <<hostBaud, faults>>
                \/ TimesOut(1) /\ UNCHANGED hostBaud
             /\ UNCHANGED <<op, image, at, tries, copy, result, runs, deviceVars>>

\* mem_write, sd_write, sd_read and sd_delete, up to the leading status.
Start == /\ host = "start"
         /\ LET c == CASE op \in {"boot", "memWrite", "badWrite"} -> "mem"
                       [] op = "longWrite" -> "sdWrite"
                       [] OTHER -> op
                p == CASE op \in {"boot", "memWrite"} -> "ram"
                       [] op = "badWrite" -> "reserved"
                       [] op = "longWrite" -> "nowhere"
                       [] OTHER -> "file"
            IN HostSends(<<Command(c), Header(p, image)>>)
         /\ Stage("starting")
         /\ UNCHANGED <<hostBaud, op, image, at, tries, copy, result, runs, deviceVars, faults>>

Started == CASE op = "sdDelete" -> "done"
             [] op = "sdRead" -> "stream"
             [] OTHER -> IF image = <<>> THEN "final" ELSE "send"

AwaitStart == /\ host = "starting"
              /\ \/ /\ HostReads(1) /\ Head(toHost) = Ok
                    /\ Stage(Started)
                    /\ UNCHANGED <<hostBaud, op, image, at, tries, copy, result, runs, faults>>
                 \/ HostReads(1) /\ Head(toHost) # Ok /\ Bail /\ UNCHANGED faults
                 \/ TimesOut(1) /\ Bail
              /\ UNCHANGED deviceVars

\* send_chunked
Send == /\ host = "send"
        /\ HostSends(<<Crc(image[at]), Data(image[at])>>)
        /\ tries' = tries + 1
        /\ Stage("sending")
        /\ UNCHANGED <<hostBaud, op, image, at, copy, result, runs, deviceVars, faults>>

\* Mutant: one attempt too few.
ResendLess == \/ tries < Retries - 1 /\ Stage("send") /\ UNCHANGED <<hostBaud, op, image, at, tries, copy, result, runs>>
              \/ tries >= Retries - 1 /\ Bail

Resend == \/ tries < Retries /\ Stage("send") /\ UNCHANGED <<hostBaud, op, image, at, tries, copy, result, runs>>
          \/ tries = Retries /\ Bail

\* Mutant: attempts are counted over all chunks.
AwaitSentCounting ==
  /\ host = "sending"
  /\ \/ /\ HostReads(1) /\ Head(toHost) = Ok
        /\ at' = at + 1
        /\ Stage(IF at = Len(image) THEN "final" ELSE "send")
        /\ UNCHANGED <<hostBaud, op, image, tries, copy, result, runs, faults>>
     \/ HostReads(1) /\ Head(toHost) # Ok /\ Resend /\ UNCHANGED faults
     \/ TimesOut(1) /\ Resend
  /\ UNCHANGED deviceVars

AwaitSent == /\ host = "sending"
             /\ \/ /\ HostReads(1) /\ Head(toHost) = Ok
                   /\ at' = at + 1 /\ tries' = 0
                   /\ Stage(IF at = Len(image) THEN "final" ELSE "send")
                   /\ UNCHANGED <<hostBaud, op, image, copy, result, runs, faults>>
                \/ HostReads(1) /\ Head(toHost) # Ok /\ Resend /\ UNCHANGED faults
                \/ TimesOut(1) /\ Resend
             /\ UNCHANGED deviceVars

\* The status of the whole.
AwaitFinal == /\ host = "final"
              /\ \/ /\ HostReads(1) /\ Head(toHost) = Ok
                    /\ Stage(Lowering)
                    /\ UNCHANGED <<hostBaud, op, image, at, tries, copy, result, runs, faults>>
                 \/ HostReads(1) /\ Head(toHost) # Ok /\ Bail /\ UNCHANGED faults
                 \/ TimesOut(1) /\ Bail
              /\ UNCHANGED deviceVars

\* recv_chunked: the header says how many chunks come; a header that is none makes no
\* sense of what follows.
Stream == /\ host = "stream"
          /\ \/ /\ HostReads(1) /\ Head(toHost).kind = "stream"
                /\ at' = Head(toHost).length
                /\ Stage(IF at' = 0 THEN Lowering ELSE "receive")
                /\ UNCHANGED <<hostBaud, op, image, tries, copy, result, runs, faults>>
             \/ HostReads(1) /\ Head(toHost).kind # "stream" /\ Bail /\ UNCHANGED faults
             \/ TimesOut(1) /\ Bail
          /\ UNCHANGED deviceVars

Receive ==
  /\ host = "receive"
  /\ \/ /\ Len(toHost) >= 2
        /\ toHost' = SubSeq(toHost, 3, Len(toHost))
        /\ IF toHost[1].kind = "crc" /\ toHost[2] = Data(toHost[1].of)
             THEN /\ copy' = Append(copy, toHost[2].data) /\ tries' = 0
                  /\ HostWrites(<<Ok>>)
                  /\ Stage(IF Len(copy') = at THEN Lowering ELSE "receive")
                  /\ UNCHANGED <<hostBaud, op, image, at, result, runs>>
             ELSE /\ HostWrites(<<Fail>>)
                  /\ \/ /\ tries + 1 < Retries /\ tries' = tries + 1
                        /\ UNCHANGED <<hostBaud, host, op, image, at, copy, result, runs>>
                     \/ tries + 1 = Retries /\ Bail
        /\ UNCHANGED faults
     \/ TimesOut(2) /\ Bail
  /\ UNCHANGED deviceVars

\* boot's exec.
AskExec == /\ host = "exec"
           /\ HostSends(<<Command("exec"), Header("ram", <<>>)>>)
           /\ Stage("execing")
           /\ UNCHANGED <<hostBaud, op, image, at, tries, copy, result, runs, deviceVars, faults>>

AwaitExec == /\ host = "execing"
             /\ \/ /\ HostReads(1) /\ Head(toHost) = Ok
                   /\ Stage("done")
                   /\ UNCHANGED <<hostBaud, op, image, at, tries, copy, result, runs, faults>>
                \/ HostReads(1) /\ Head(toHost) # Ok /\ Bail /\ UNCHANGED faults
                \/ TimesOut(1) /\ Bail
             /\ UNCHANGED deviceVars

Done == /\ host = "done"
        /\ Stage("closed") /\ result' = "ok"
        /\ UNCHANGED <<wires, hostBaud, op, image, at, tries, copy, runs, deviceVars, faults>>

\* Ctrl-C: check_interrupt fails at the next read or attempt.
Interrupt == /\ host \notin {"closed", "done"}
             /\ Trip("interrupt")
             /\ Bail
             /\ UNCHANGED <<wires, deviceVars>>

Run == \/ Greet \/ AwaitAck \/ Settle \/ AskRate \/ AwaitRate \/ Start \/ AwaitStart \/ Send
       \/ AwaitSent \/ AwaitFinal \/ Stream \/ Receive \/ AskExec \/ AwaitExec \/ Done

Next == \/ Serve \/ Run \/ Interrupt \/ WireFault \/ PowerCycle
        \/ \E o \in Ops, m \in Image : Open(o, m)

\* Both ends run; the user does not have to.
Fairness == WF_vars(Serve) /\ WF_vars(Run)

Spec == Init /\ [][Next]_vars
FairSpec == Spec /\ Fairness

-----------------------------------------------------------------------------
(* Properties *)

\* Every variable keeps its type; nobody counts past its limit.
TypeOK == /\ hostBaud \in {Base, Baud} /\ deviceBaud \in {Base, Baud}
          /\ host \in {"closed", "greet", "greeting", "settle", "raise", "raising", "start", "starting", "send",
                       "sending", "final", "stream", "receive", "lower", "lowering", "exec", "execing", "done"}
          /\ op \in Ops \cup {"none"} /\ image \in Image \cup {<<>>}
          /\ at \in Nat
          /\ tries \in 0..Retries
          /\ result \in {"none", "ok", "failed"} /\ runs \in 0..MaxRuns
          /\ device \in {"power on", "command", "arguments", "mount", "chunks", "check", "commit", "await", "jumped"}
          /\ command \in {"none", "baud", "mem", "exec", "sdWrite", "sdRead", "sdDelete"}
          /\ jumped \in Place \cup {"no"} /\ faults \in 0..MaxFaults
          /\ DOMAIN store = Place

\* What a command that ended well has done.
Achieved == CASE op = "boot" -> jumped = "ram" /\ store["ram"] = image
              [] op = "memWrite" -> store["ram"] = image
              [] op = "sdWrite" -> store["file"] = image
              [] op = "sdRead" -> copy = store["file"]
              [] op = "sdDelete" -> store["file"] = Absent
              [] OTHER -> FALSE

\* cli/README.md: a marginal cable does not corrupt an image.  A command that reports
\* success has put, or fetched, exactly what it was asked to.
OkMeansAchieved == [][result # "ok" /\ result' = "ok" => Achieved]_vars

\* cmd_sd_write: a transfer abandoned partway leaves the old file.  What replaces a file
\* on the card is the whole file the host announced, unless the card itself fails.
WholeFiles == [][store'["file"] # store["file"] => store'["file"] \in {header.image, Absent, Torn}]_vars

\* recv_chunk's lockstep: the loader never takes a file's bytes for commands.
InStep == device = "command" /\ toDevice # <<>> => Head(toDevice).kind \notin {"crc", "data"}

\* link.rs: the bulk transfers always drop back before returning.
BackAtBase == host = "closed" /\ device = "command" => deviceBaud = Base

\* cmd_mem_write: the transfer heals itself.  Every command the user runs ends well.
Heals == host = "greet" ~> result = "ok"

\* README.md: never power-cycled between commands.  A host that says HELLO is answered.
Answers == host = "greet" ~> host = "settle"
=============================================================================
