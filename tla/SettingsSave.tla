---------------------------- MODULE SettingsSave -----------------------------
(***************************************************************************)
(* kickstart/src/config.rs, the settings file: load at boot, and save,     *)
(* which stages the new text beside the file, checks it and renames it     *)
(* over.  A save runs without an await, so one is under way at a time; the *)
(* card may fail any step, store other than it was given, and the power    *)
(* may go between any two writes.                                          *)
(*                                                                         *)
(* The volume is external.  What it is given reaches the card with a sync; *)
(* the card may have any of the writes so far before that.  Its rename     *)
(* leaves the name to one whole file or the other at every write.          *)
(***************************************************************************)
EXTENDS Naturals

CONSTANTS Settings,  \* values a person may save
          Default,   \* the settings of a schema given an empty text
          NoFile,    \* no such file
          Torn,      \* a file cut off, or not what was written
          MaxFaults  \* bound: card faults and resets

VARIABLES step,     \* what save does next: "idle", "write", "sync", "check", "rename", "settle"
          wanted,   \* the settings being saved
          volume,   \* [path, staging]: what reading each through the volume gives
          card,     \* what mounting the card afresh would find
          running,  \* the settings the board booted on, Torn when load refused them
          result,   \* what the last save returned, "none" before it or after a boot
          before,   \* history: what the file may be if the save under way does not get through
          faults

files == <<volume, card>>
vars == <<step, wanted, files, running, result, before, faults>>

Text == Settings \cup {NoFile, Torn}
Both(p, s) == [path |-> p, staging |-> s]

\* load: a missing file is an empty text.
Load(text) == IF text = NoFile THEN Default ELSE text

Init == /\ step = "idle" /\ wanted = Default
        /\ \E f \in Settings \cup {NoFile} : volume = Both(f, NoFile)
        /\ card = volume /\ running = Load(volume.path)
        /\ result = "none" /\ before = {volume.path} /\ faults = 0

-----------------------------------------------------------------------------
(* save *)

Goto(l) == step' = l /\ UNCHANGED <<wanted, running, result, before>>
Return(r) == step' = "idle" /\ result' = r /\ UNCHANGED <<wanted, running>>
Fault == faults < MaxFaults /\ faults' = faults + 1
Steady == UNCHANGED faults

\* render has refused what does not read back as it was; nothing is written for it.
Save(c) == /\ step = "idle"
           /\ step' = "write" /\ wanted' = c /\ result' = "none"
           /\ UNCHANGED <<files, running, before, faults>>

Refuse == /\ step = "idle" /\ result' = "render"
          /\ UNCHANGED <<step, wanted, files, running, before, faults>>

\* Mutant: the file is written in place.
WriteInPlace == /\ step = "write"
                /\ \/ Goto("sync") /\ volume' = Both(wanted, wanted) /\ Steady
                   \/ Return("write") /\ UNCHANGED before /\ Fault /\ volume' = Both(Torn, Torn)
                /\ \E s \in {card.path, Torn} : card' = Both(s, s)

\* write_file: the staging file, whole in the volume, on the card in part if at all.
Write == /\ step = "write"
         /\ \/ Goto("sync") /\ volume' = Both(volume.path, wanted) /\ Steady
            \/ Goto("sync") /\ volume' = Both(volume.path, Torn) /\ Fault
            \/ Return("write") /\ UNCHANGED before /\ Fault
               /\ \E s \in {volume.staging, NoFile, Torn} : volume' = Both(volume.path, s)
         /\ \E s \in {card.staging, Torn} : card' = Both(card.path, s)

\* Mutant: the rename is asked for before the copy is on the card.
SyncNot == /\ step = "sync" /\ Goto("check") /\ UNCHANGED <<files, faults>>

\* What a sync that fails may have put on the card of one file.
Some(old, new) == {old, new, Torn}

\* sync: with the allocation table, everything written so far.
Sync == /\ step = "sync" /\ UNCHANGED volume
        /\ \/ Goto("check") /\ card' = volume /\ Steady
           \/ Return("sync") /\ UNCHANGED before /\ Fault
              /\ \E p \in {card.path, volume.path}, s \in Some(card.staging, volume.staging) : card' = Both(p, s)

\* read_all and the comparison.
Check == /\ step = "check" /\ UNCHANGED files
         /\ \/ volume.staging = wanted /\ Goto("rename") /\ Steady
            \/ volume.staging # wanted /\ Return("mismatch") /\ UNCHANGED before /\ Steady
            \/ Return("readback") /\ UNCHANGED before /\ Fault

\* rename: the name passes to the new file at one write, on the card at that write or with the sync.
Rename == /\ step = "rename"
          /\ \/ /\ Goto("settle") /\ volume' = Both(volume.staging, NoFile) /\ Steady
             \/ /\ Return("rename") /\ Fault /\ before' = before \cup {wanted}
                /\ volume' \in {volume, Both(volume.staging, NoFile)}
          /\ card' \in {card, Both(card.staging, card.staging), Both(card.staging, NoFile)}

Settle == /\ step = "settle" /\ UNCHANGED volume
          /\ \/ Return("ok") /\ before' = {wanted} /\ card' = volume /\ Steady
             \/ Return("settle") /\ before' = before \cup {wanted} /\ Fault
                /\ \E p \in {card.path, volume.path}, s \in {card.staging, volume.staging} : card' = Both(p, s)

-----------------------------------------------------------------------------

\* A reset, at any write, and the load of the boot that follows.
Reset == /\ Fault
         /\ volume' = card /\ running' = Load(card.path)
         /\ step' = "idle" /\ result' = "none"
         /\ before' = {card.path}
         /\ UNCHANGED <<wanted, card>>

Next == \/ \E c \in Settings : Save(c)
        \/ Refuse \/ Write \/ Sync \/ Check \/ Rename \/ Settle \/ Reset
Spec == Init /\ [][Next]_vars

-----------------------------------------------------------------------------
(* Properties *)

Place == [path: Text, staging: Text]
TypeOK == /\ step \in {"idle", "write", "sync", "check", "rename", "settle"}
          /\ wanted \in Settings \cup {Default} /\ volume \in Place /\ card \in Place
          /\ running \in Settings \cup {Default} /\ before \subseteq Settings \cup {NoFile} /\ faults \in 0..MaxFaults
          /\ result \in {"none", "ok", "render", "write", "sync", "readback", "mismatch", "rename", "settle"}

\* "A reset at any point leaves path the old settings or the new ones": what a boot would find is what
\* the file was before or, once the rename has begun, what is being saved; and what ok was answered
\* for is there.
OldOrNew == card.path \in before \cup (IF step = "settle" THEN {wanted} ELSE {})

\* "Up to Rename, the settings file itself was not touched": a save that fails before then changes
\* neither what the next boot runs on nor what a load would give now.
FailureLeavesOld == [][result' \in {"write", "sync", "readback", "mismatch"} /\ result = "none" /\ step # "idle"
                         => volume'.path = volume.path /\ card'.path \in before]_vars
=============================================================================
