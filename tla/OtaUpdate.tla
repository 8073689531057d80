------------------------------ MODULE OtaUpdate ------------------------------
(***************************************************************************)
(* An over-the-air update: kickstart/src/ota.rs receives bundles over HTTP *)
(* and asks for the reboot, loader/ota/src/bundle.rs checks them and       *)
(* loader/ota/src/apply.rs installs them on the FAT volume that            *)
(* kickstart/src/storage.rs shares.  Uploads run as tasks of one executor; *)
(* an install is synchronous, so no task runs between its steps, but the   *)
(* card may fail and the power may go at any of them.                      *)
(***************************************************************************)
EXTENDS Naturals, FiniteSets

CONSTANTS Upload,      \* requests that may be in flight together
          Bundles,     \* bundles clients send: sets of entries [role, path, data]
          File,        \* files of the volume
          Content,     \* what a file may hold
          FatFile(_),  \* the file a path names: FAT matches names case-insensitively
          Partner(_),  \* the paths that pair with a start*.elf or fixup*.dat path; {} for others
          Factory,     \* what the card holds when the board is first switched on
          Nothing,     \* no such file; no upload
          Torn,        \* a file cut off in the middle, or not what was written
          MaxEntries,  \* Format::max_entries
          NoVolume,    \* what stands for a board on which no volume was installed
          Volumes,     \* what bring-up may leave: Nothing (a volume nobody has), NoVolume
          MaxFaults,   \* bound: card faults and power cuts
          MaxBoots     \* bound: restarts of the board

ASSUME OtaAssumption ==
  /\ Nothing \notin Upload \cup Content
  /\ Torn \notin Content \cup {Nothing}
  /\ Factory \in [File -> Content \cup {Nothing}]
  /\ \A b \in Bundles : \A e \in b : /\ e.role \in {"File", "Firmware", "Config", "Kernel"}
                                     /\ FatFile(e.path) \in File
                                     /\ e.data \in Content
  /\ Volumes \subseteq {Nothing, NoVolume} /\ MaxFaults \in Nat /\ MaxBoots \in Nat

VARIABLES files,      \* files[f]: what reading f through the mounted volume gives
          disk,       \* disk[f]: what mounting the card afresh would find there
          pc,         \* pc[u]: where upload u's handler is
          bundle,     \* bundle[u]: what its client sends
          left,       \* left[u]: entries the install has not come to yet
          current,    \* current[u]: the entry it is at, as a set of one, or {}
          wrote,      \* wrote[u]: files it has started to write
          status,     \* status[u]: the HTTP status it will be answered with, or 0
          card,       \* the upload that has the volume, or Nothing, or NoVolume
          installed,  \* Reboot::installed: whose report is waiting, or Nothing
          reboot,     \* the board's reboot task: "wait" or "drain"
          owed,       \* answers that had not left when the drain began
          boots,      \* restarts so far
          faults      \* faults so far

uploadVars == <<pc, bundle, left, current, wrote, status>>
rebootVars == <<installed, reboot, owed>>
vars == <<files, disk, uploadVars, card, rebootVars, boots, faults>>

Status == {0, 200, 400, 413, 500, 503}

\* The steps of apply, during which nothing else of the board runs.
Applying == {"look", "write", "verify", "sync"}

\* How far into the order File, Firmware, Config, Kernel a role comes.
Rank == [File |-> 1, Firmware |-> 2, Config |-> 3, Kernel |-> 4]

Init == /\ files = Factory
        /\ disk = Factory
        /\ pc = [u \in Upload |-> "idle"]
        /\ bundle = [u \in Upload |-> {}]
        /\ left = [u \in Upload |-> {}]
        /\ current = [u \in Upload |-> {}]
        /\ wrote = [u \in Upload |-> {}]
        /\ status = [u \in Upload |-> 0]
        /\ card \in Volumes
        /\ installed = Nothing
        /\ reboot = "wait"
        /\ owed = {}
        /\ boots = 0
        /\ faults = 0

-----------------------------------------------------------------------------
(* Bundle::parse.  What it says of the bytes, magic, version, checksum and   *)
(* lengths, is one bit: the bytes that arrive are a bundle or they are not.  *)

OneAtMost(S) == \A e, f \in S : e = f

Unique(b) == \A e, f \in b : e.path = f.path => e = f

\* Mutant: the pairing rule is missing.
PairedNever(b) == TRUE

Paired(b) == \A e \in b : e.role = "Firmware" /\ Partner(e.path) # {} =>
               \E f \in b : f.role = "Firmware" /\ f.path \in Partner(e.path)

Accepts(b) == /\ b # {}
              /\ Cardinality(b) <= MaxEntries
              /\ Unique(b)
              /\ OneAtMost({e \in b : e.role = "Kernel"})
              /\ OneAtMost({e \in b : e.role = "Config"})
              /\ Paired(b)

-----------------------------------------------------------------------------
(* Receiving *)

\* Whatever is not part of an install waits for the one that is running.
Awake == \A u \in Upload : pc[u] \notin Applying

Goto(u, l) == pc' = [pc EXCEPT ![u] = l]
Answer(u, code) == /\ status' = [status EXCEPT ![u] = code]
                   /\ Goto(u, "finalize")

\* A request arrives; one longer than max_bundle is refused before it is read.
Arrive(u, b) == /\ Awake
                /\ pc[u] = "idle"
                /\ bundle' = [bundle EXCEPT ![u] = b]
                /\ \/ Goto(u, "receive") /\ UNCHANGED status
                   \/ Answer(u, 413)
                /\ UNCHANGED <<files, disk, left, current, wrote, card, rebootVars, boots, faults>>

\* The body is all there, or the client or the time budget gave out before.
Receive(u) == /\ Awake
              /\ pc[u] = "receive"
              /\ \/ Goto(u, "wait") /\ UNCHANGED status
                 \/ Answer(u, 400)
              /\ UNCHANGED <<files, disk, bundle, left, current, wrote, card, rebootVars, boots, faults>>

\* Shared::with gives the volume to one task, and None if there is no volume.
NoCard(u) == /\ Awake
             /\ pc[u] = "wait"
             /\ card = NoVolume
             /\ Answer(u, 503)
             /\ UNCHANGED <<files, disk, bundle, left, current, wrote, card, rebootVars, boots, faults>>

\* Bundle::parse rejects the bundle before a byte reaches the card: its bytes were
\* damaged, or its entries make no sense together.
Reject(u) == /\ Awake
             /\ pc[u] = "wait" /\ card = Nothing
             /\ Answer(u, 400)
             /\ UNCHANGED <<files, disk, bundle, left, current, wrote, card, rebootVars, boots, faults>>

\* Mutant: uploads are received into one static buffer.
BeginShared(u) == /\ Awake
                  /\ pc[u] = "wait" /\ card = Nothing
                  /\ Accepts(bundle[u])
                  /\ card' = u
                  /\ \E v \in Upload : left' = [left EXCEPT ![u] = bundle[v]]
                  /\ Goto(u, "look")
                  /\ UNCHANGED <<files, disk, bundle, current, wrote, status, rebootVars, boots, faults>>

\* apply: the bundle is accepted and its entries are to be installed.
Begin(u) == /\ Awake
            /\ pc[u] = "wait" /\ card = Nothing
            /\ Accepts(bundle[u])
            /\ card' = u
            /\ left' = [left EXCEPT ![u] = bundle[u]]
            /\ Goto(u, "look")
            /\ UNCHANGED <<files, disk, bundle, current, wrote, status, rebootVars, boots, faults>>

-----------------------------------------------------------------------------
(* Installing *)

\* Mutant: entries are installed in the order they were packed.
AnyOrder(S) == S

\* The entries that may be next: those whose role comes first of what is left.
NextUp(S) == {e \in S : \A f \in S : Rank[e.role] <= Rank[f.role]}

\* on_card: whether reading path gives data.
OnCard(e) == files[FatFile(e.path)] = e.data

\* An error in install: what is left is abandoned, and sync follows all the same.
Abandon(u) == /\ left' = [left EXCEPT ![u] = {}]
              /\ current' = [current EXCEPT ![u] = {}]
              /\ status' = [status EXCEPT ![u] = 500]
              /\ Goto(u, "sync")

Fault == faults < MaxFaults /\ faults' = faults + 1

\* The next entry is compared with the card: skip it, write it, or fail to read.
Look(u, e) ==
  /\ pc[u] = "look"
  /\ e \in NextUp(left[u])
  /\ \/ /\ OnCard(e)
        /\ left' = [left EXCEPT ![u] = @ \ {e}]
        /\ UNCHANGED <<pc, current, status, faults>>
     \/ /\ ~OnCard(e)
        /\ left' = [left EXCEPT ![u] = @ \ {e}]
        /\ current' = [current EXCEPT ![u] = {e}]
        /\ Goto(u, "write")
        /\ UNCHANGED <<status, faults>>
     \/ Fault /\ Abandon(u)
  /\ UNCHANGED <<files, disk, bundle, wrote, card, rebootVars, boots>>

\* create_parents and write_file.  The card may refuse, leaving the file as it was
\* or torn, or take the write and not store it.
Write(u, e) ==
  LET f == FatFile(e.path) IN
  /\ pc[u] = "write"
  /\ e \in current[u]
  /\ wrote' = [wrote EXCEPT ![u] = @ \cup {f}]
  /\ \/ /\ files' = [files EXCEPT ![f] = e.data]
        /\ Goto(u, "verify")
        /\ UNCHANGED <<left, current, status, faults>>
     \/ /\ Fault
        /\ files' = [files EXCEPT ![f] = Torn]
        /\ \/ Goto(u, "verify") /\ UNCHANGED <<left, current, status>>
           \/ Abandon(u)
     \/ /\ Fault
        /\ Abandon(u)
        /\ UNCHANGED files
  /\ UNCHANGED <<disk, bundle, card, rebootVars, boots>>

\* Mutant: what the card took is believed.
VerifyNot(u, e) ==
  /\ pc[u] = "verify"
  /\ e \in current[u]
  /\ current' = [current EXCEPT ![u] = {}]
  /\ Goto(u, "look")
  /\ UNCHANGED <<files, disk, bundle, left, wrote, status, card, rebootVars, boots, faults>>

\* The read-back.
Verify(u, e) ==
  /\ pc[u] = "verify"
  /\ e \in current[u]
  /\ \/ /\ OnCard(e)
        /\ current' = [current EXCEPT ![u] = {}]
        /\ Goto(u, "look")
        /\ UNCHANGED <<left, status, faults>>
     \/ /\ ~OnCard(e)
        /\ Abandon(u)
        /\ UNCHANGED faults
     \/ Fault /\ Abandon(u)
  /\ UNCHANGED <<files, disk, bundle, wrote, card, rebootVars, boots>>

InstallDone(u) == /\ pc[u] = "look"
                  /\ left[u] = {}
                  /\ Goto(u, "sync")
                  /\ UNCHANGED <<files, disk, bundle, left, current, wrote, status, card, rebootVars, boots, faults>>

\* Mutant: sync comes only after an install that worked, and its result is dropped.
SyncLoosely(u) == /\ pc[u] = "sync"
                  /\ card' = Nothing
                  /\ Answer(u, IF status[u] = 0 THEN 200 ELSE status[u])
                  /\ \/ disk' = (IF status[u] = 0 THEN files ELSE disk) /\ UNCHANGED faults
                     \/ Fault /\ UNCHANGED disk
                  /\ UNCHANGED <<files, bundle, left, current, wrote, rebootVars, boots>>

\* Mutant: a failed sync returns with the volume still held.
SyncHolding(u) == /\ pc[u] = "sync"
                  /\ \/ /\ disk' = files
                        /\ card' = Nothing
                        /\ Answer(u, IF status[u] = 0 THEN 200 ELSE status[u])
                        /\ UNCHANGED faults
                     \/ /\ Fault
                        /\ Answer(u, 500)
                        /\ UNCHANGED <<disk, card>>
                  /\ UNCHANGED <<files, bundle, left, current, wrote, rebootVars, boots>>

\* volume.sync, after a failed install too; the result needs both.
Sync(u) == /\ pc[u] = "sync"
           /\ card' = Nothing
           /\ \/ /\ disk' = files
                 /\ Answer(u, IF status[u] = 0 THEN 200 ELSE status[u])
                 /\ UNCHANGED faults
              \/ /\ Fault
                 /\ Answer(u, 500)
                 /\ UNCHANGED disk
           /\ UNCHANGED <<files, bundle, left, current, wrote, rebootVars, boots>>

-----------------------------------------------------------------------------
(* Answering and rebooting *)

\* Mutant: the reboot is asked for whatever the install did.
FinalizeAnyway(u) == /\ Awake
                     /\ pc[u] = "finalize"
                     /\ Goto(u, "answer")
                     /\ installed' = u
                     /\ UNCHANGED <<files, disk, bundle, left, current, wrote, status, card, reboot, owed, boots, faults>>

\* finalize reads what is left of the request; a connection that fails there gets
\* no answer, and an install no reboot.  Otherwise the reboot is asked for before
\* the answer is written.
Finalize(u) == /\ Awake
               /\ pc[u] = "finalize"
               /\ \/ /\ Goto(u, "answer")
                     /\ installed' = IF status[u] = 200 THEN u ELSE installed
                  \/ /\ Goto(u, "gone")
                     /\ UNCHANGED installed
               /\ UNCHANGED <<files, disk, bundle, left, current, wrote, status, card, reboot, owed, boots, faults>>

\* The answer leaves the board, or the client is gone.
AnswerLeaves(u) == /\ Awake
                   /\ pc[u] = "answer"
                   /\ Goto(u, "gone")
                   /\ owed' = owed \ {u}
                   /\ UNCHANGED <<files, disk, bundle, left, current, wrote, status, card, installed, reboot, boots, faults>>

\* Reboot::wait takes the report and starts the drain.
TakeReport == /\ Awake
              /\ reboot = "wait"
              /\ installed # Nothing
              /\ installed' = Nothing
              /\ reboot' = "drain"
              /\ owed' = {u \in Upload : pc[u] = "answer"}
              /\ UNCHANGED <<files, disk, uploadVars, card, boots, faults>>

\* The board starts again from what the card holds.  A file whose change had not
\* been synced is found old, new or torn.
Restart == /\ boots < MaxBoots
           /\ boots' = boots + 1
           /\ \E found \in [File -> Content \cup {Nothing, Torn}] :
                /\ \A f \in File : IF disk[f] = files[f] THEN found[f] = disk[f]
                                   ELSE found[f] \in {disk[f], files[f], Torn}
                /\ files' = found
                /\ disk' = found
           /\ pc' = [u \in Upload |-> "idle"]
           /\ bundle' = [u \in Upload |-> {}]
           /\ left' = [u \in Upload |-> {}]
           /\ current' = [u \in Upload |-> {}]
           /\ wrote' = [u \in Upload |-> {}]
           /\ status' = [u \in Upload |-> 0]
           /\ card' \in Volumes
           /\ installed' = Nothing
           /\ reboot' = "wait"
           /\ owed' = {}

\* DRAIN is over, long enough for the answers that were there when it began, and the
\* board's task reboots.
Reboot == Awake /\ reboot = "drain" /\ owed = {} /\ Restart /\ UNCHANGED faults

PowerCut == Fault /\ Restart

Handle(u) == \/ Receive(u) \/ NoCard(u) \/ Reject(u) \/ Begin(u)
             \/ Finalize(u) \/ AnswerLeaves(u)

Install(u) == \/ \E e \in left[u] : Look(u, e)
              \/ \E e \in current[u] : Write(u, e) \/ Verify(u, e)
              \/ InstallDone(u) \/ Sync(u)

RebootTask == TakeReport \/ Reboot

Next == \/ \E u \in Upload : \/ \E b \in Bundles : Arrive(u, b)
                             \/ Handle(u)
                             \/ Install(u)
        \/ RebootTask
        \/ PowerCut

\* The executor polls every woken task; no client has to send anything.
Fairness == /\ \A u \in Upload : WF_vars(Handle(u)) /\ WF_vars(Install(u))
            /\ WF_vars(RebootTask)

Spec == Init /\ [][Next]_vars
FairSpec == Spec /\ Fairness
-----------------------------------------------------------------------------
(* Properties *)

\* Every variable keeps its type.
TypeOK == /\ files \in [File -> Content \cup {Nothing, Torn}]
          /\ disk \in [File -> Content \cup {Nothing, Torn}]
          /\ pc \in [Upload -> {"idle", "receive", "wait", "finalize", "answer", "gone"} \cup Applying]
          /\ bundle \in [Upload -> Bundles \cup {{}}]
          /\ \A u \in Upload : left[u] \subseteq bundle[u] /\ current[u] \subseteq bundle[u]
          /\ DOMAIN left = Upload /\ DOMAIN current = Upload
          /\ wrote \in [Upload -> SUBSET File]
          /\ status \in [Upload -> Status]
          /\ card \in Upload \cup {Nothing, NoVolume}
          /\ installed \in Upload \cup {Nothing}
          /\ reboot \in {"wait", "drain"}
          /\ owed \subseteq Upload
          /\ boots \in 0..MaxBoots /\ faults \in 0..MaxFaults

\* What u's install has put or found on the card, besides e.
OthersOnCard(u, e) == \A o \in bundle[u] \ {e} : OnCard(o)

\* apply: the kernel is the commit.  Once an install has begun to write the kernel,
\* everything else the bundle carries is on the card.
CommitLast == \A u \in Upload : pc[u] \in Applying =>
                \A e \in bundle[u] : e.role = "Kernel" /\ FatFile(e.path) \in wrote[u] => OthersOnCard(u, e)

\* ota.rs: ok in the response means installed, not accepted.  When an upload is given
\* a 200, every entry of its bundle is what the volume reads and what the card holds.
OkMeansInstalled ==
  [][\A u \in Upload : status[u] # 200 /\ status'[u] = 200 =>
       \A e \in bundle[u] : files'[FatFile(e.path)] = e.data /\ disk'[FatFile(e.path)] = e.data]_vars

\* bundle.rs: the two files of a firmware release go together.  After an accepted update
\* of one of a pair, its partner on the card is of the same release.
FirmwareInPairs ==
  [][\A u \in Upload : status[u] # 200 /\ status'[u] = 200 =>
       \A e \in bundle[u] : e.role = "Firmware" /\ Partner(e.path) # {} =>
         \E p \in Partner(e.path) : files'[FatFile(p)] = e.data]_vars

\* The board restarts on its own, not because the power went.
Rebooting == boots' > boots /\ faults' = faults

\* reboot_task: the board reboots into an update that is on the card, whole.
RebootsIntoUpdate ==
  [][Rebooting => \E u \in Upload : /\ status[u] = 200
                                    /\ \A e \in bundle[u] : disk'[FatFile(e.path)] = e.data]_vars

\* Reboot::wait: nobody whose update was installed is left without the answer.
AnswersLeaveFirst == [][Rebooting => \A u \in Upload : ~(pc[u] = "answer" /\ status[u] = 200)]_vars

\* Once Reboot::request has been called a restart follows.
ReportReboots == \A n \in 0..MaxBoots - 1 : (installed # Nothing /\ boots = n) ~> boots > n

\* A restart follows an upload that was given a 200, and finds every file of its bundle as
\* the bundle has it, but for those another upload has begun to write since either began.
RestartsForUpdate ==
  [][Rebooting => \E u \in Upload :
       /\ status[u] = 200
       /\ \A e \in bundle[u] : \/ disk'[FatFile(e.path)] = e.data
                                \/ \E v \in Upload \ {u} : FatFile(e.path) \in wrote[v]]_vars

\* ota.rs: an install that is reported to the reboot task is followed by a restart, and the
\* task restarts the board for nothing else; what the restart finds of the bundle is what was
\* installed, except in files that another upload wrote (RebootsIntoUpdate is what the text
\* says without that exception, and does not hold).  Of an install whose request fails at
\* ota.rs:337, before the report, nothing is said here: InstalledReboots is about that.
UpdateTakesEffect == ReportReboots /\ RestartsForUpdate

\* ota.rs: an installed update is always followed by a restart of the board, reported or not.
InstalledReboots == \A u \in Upload, n \in 0..MaxBoots - 1 :
                      (pc[u] = "finalize" /\ status[u] = 200 /\ boots = n) ~> boots > n

\* Whatever happens to the card or to another upload, no upload waits for ever.
UploadEnds == \A u \in Upload : pc[u] # "idle" ~> pc[u] \in {"idle", "gone"}

(* The values of the constants on a small instance: a card with a kernel, a firmware pair and a    *)
(* page, and the bundles a board is sent: a release, a newer kernel, half a firmware pair, a page   *)
(* twice.                                                                                           *)

CONSTANTS u1, u2, old, new, newer

Entry(role, path, data) == [role |-> role, path |-> path, data |-> data]

MCFile == {"kernel", "start", "fixup", "page"}
MCFatFile(path) == IF path = "PAGE" THEN "page" ELSE path
MCPartner(path) == CASE path = "start" -> {"fixup"}
                     [] path = "fixup" -> {"start"}
                     [] OTHER -> {}
MCFactory == [f \in MCFile |-> IF f = "page" THEN Nothing ELSE old]

Release == {Entry("Kernel", "kernel", new), Entry("Firmware", "start", new),
            Entry("Firmware", "fixup", new), Entry("File", "page", new)}
Kernel  == {Entry("Kernel", "kernel", newer), Entry("File", "page", new)}
Half    == {Entry("Kernel", "kernel", newer), Entry("Firmware", "start", newer)}
Twice   == {Entry("File", "page", new), Entry("File", "PAGE", newer)}

MCBundles   == {Release, Kernel, Half}
MCVolumes   == {Nothing, NoVolume}
HasVolume   == {Nothing}
TwoReleases == {Release, Kernel}
OnlyTwice   == {Twice}
=============================================================================
