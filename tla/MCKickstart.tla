----------------------------- MODULE MCKickstart -----------------------------
(***************************************************************************)
(* The parts of a board's program that share nothing but the executor, one *)
(* instance each: program says which of them a behaviour is of, and the    *)
(* others stand still.                                                     *)
(***************************************************************************)
EXTENDS Integers, FiniteSets

CONSTANTS N, Lifetime, Serials, Horizon, Free,                   \* Sessions'
          Settings, Default, NoFile, TornFile, SaveFaults,       \* SettingsSave's
          ReplyTimeout, DnsTimeout, FirstRetry, RetryMax, Resync, \* SntpSync's
          Late, OnWay, Unset

\* The times are counts of ticks, and the code's waits are never of none.
ASSUME KickstartAssumption ==
  /\ N \in Nat \ {0} /\ Lifetime \in Nat \ {0} /\ Serials \in Nat /\ Horizon \in Nat
  /\ Free \notin [token: Nat, expires: Nat]
  /\ SaveFaults \in Nat /\ Late \in Nat /\ OnWay \in Nat /\ ReplyTimeout \in Nat /\ DnsTimeout \in Nat
  /\ FirstRetry \in Nat \ {0} /\ RetryMax \in Nat \ {0} /\ Resync \in Nat

VARIABLES program,
          w_table, w_next_serial, w_now, w_due, w_ended,
          s_step, s_wanted, s_volume, s_card, s_running, s_result, s_before, s_faults,
          t_step, t_timer, t_retry, t_asked, t_up, t_asks, t_way, t_clock

Web == INSTANCE Sessions WITH
          table <- w_table, next_serial <- w_next_serial, now <- w_now, due <- w_due, ended <- w_ended
Save == INSTANCE SettingsSave WITH
          Torn <- TornFile, MaxFaults <- SaveFaults,
          step <- s_step, wanted <- s_wanted, volume <- s_volume, card <- s_card,
          running <- s_running, result <- s_result, before <- s_before, faults <- s_faults
Sntp == INSTANCE SntpSync WITH
          step <- t_step, timer <- t_timer, retry <- t_retry, asked <- t_asked,
          up <- t_up, asks <- t_asks, way <- t_way, clock <- t_clock

webVars == <<w_table, w_next_serial, w_now, w_due, w_ended>>
saveVars == <<s_step, s_wanted, s_volume, s_card, s_running, s_result, s_before, s_faults>>
sntpVars == <<t_step, t_timer, t_retry, t_asked, t_up, t_asks, t_way, t_clock>>
allVars == <<program, webVars, saveVars, sntpVars>>

MCInit == /\ program \in {"sessions", "save", "sntp"}
          /\ Web!Init /\ Save!Init /\ Sntp!Init
          /\ program = "save" \/ s_volume.path = NoFile
MCNext == /\ UNCHANGED program
          /\ \/ program = "sessions" /\ Web!Next /\ UNCHANGED <<saveVars, sntpVars>>
             \/ program = "save" /\ Save!Next /\ UNCHANGED <<webVars, sntpVars>>
             \/ program = "sntp" /\ Sntp!Next /\ UNCHANGED <<webVars, saveVars>>

Syncing(A) == program = "sntp" /\ A
SyncFairness == /\ WF_sntpVars(Syncing(Sntp!Tick)) /\ WF_sntpVars(Syncing(Sntp!WaitConfigUp))
                /\ WF_sntpVars(Syncing(Sntp!Ask \/ Sntp!FailsEarly))
                /\ WF_sntpVars(Syncing(Sntp!TimesOut \/ Sntp!Set)) /\ WF_sntpVars(Syncing(Sntp!Wake))
MCSpec == MCInit /\ [][MCNext]_allVars /\ SyncFairness

\* Every part keeps its types.
TypesOK == Web!TypeOK /\ Save!TypeOK /\ Sntp!TypeOK

\* SettingsSave: a reset at any point finds the old settings or the new, after ok the new, and a
\* save that fails before its rename leaves the file as it was.
SavedWhole == [][Save!OldOrNew']_saveVars /\ Save!FailureLeavesOld

\* Sessions: a session is worth what it was opened for, no longer than its time and no shorter than
\* the table must make it.  SntpSync: the clock is off by no more than half the round trip it was
\* set by, whatever answers to earlier exchanges come beside its own.
TimesKept == Web!SessionsKept /\ Sntp!WithinHalfTrip

\* SntpSync: a board that has a lease keeps asking for the time, and an exchange ends whatever
\* arrives during it.
KeepsSyncing == (program = "sntp" => Sntp!KeepsAsking) /\ Sntp!ExchangeEnds
=============================================================================
