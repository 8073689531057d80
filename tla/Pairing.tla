-------------------------------- MODULE Pairing --------------------------------
(***************************************************************************)
(* LE Legacy pairing between the two state machines of smp.rs: a           *)
(* peripheral (Smp) and a central (Initiator), both bonding, over a link   *)
(* that keeps order and may drop at any moment.  Each end has an inbox of  *)
(* the PDUs and controller events still to be polled.  What is drawn from  *)
(* the controller's generator is a number never drawn before, a confirm    *)
(* value commits to the random it hides (c1), and a Short Term Key is the  *)
(* pair of randoms (s1).  A bond is known by the draw that made it.        *)
(***************************************************************************)
EXTENDS Naturals, Sequences

CONSTANTS Draws,      \* numbers drawn before the model stops pairing (bound)
          Attempts    \* pairings and reconnections the central begins on one link (bound)

VARIABLES up,         \* the two are connected
          began,      \* what the central began on this link
          toR, toI,   \* the inboxes of the peripheral and of the central
          r,          \* Smp: state, prnd, mconfirm, stk, bond, distributed
          i,          \* Initiator: state, mrand, sconfirm, stk, ltk, ident, haveBond
          draws,      \* numbers drawn so far
          secret,     \* the key the central has the controller encrypt with, none before
          sealed,     \* the link is encrypted
          saved,      \* the bond the peripheral's caller keeps over a reboot
          cut,        \* the peripheral lost power between distributing a bond and saving it
          clash       \* the controllers were given two different keys

vars == <<up, began, toR, toI, r, i, draws, secret, sealed, saved, cut, clash>>

Zero == 0                       \* nothing drawn, no bond, and the EDIV and Rand of an STK
NoKey == <<Zero, Zero>>
Msg(t, v) == [type |-> t, value |-> v]
Ltk(b) == <<b, b>>              \* the Long Term Key of bond b: no pair of randoms

\* Smp::begin and Smp::reset, and the same of the Initiator: a stored bond stays.
CleanR(b) == [state |-> "Idle", prnd |-> r.prnd, mconfirm |-> r.mconfirm, stk |-> NoKey,
              bond |-> b, distributed |-> FALSE]
CleanI == [i EXCEPT !.state = "Idle", !.stk = NoKey]

Init == /\ up = FALSE /\ began = 0 /\ toR = <<>> /\ toI = <<>>
        /\ r = [state |-> "Idle", prnd |-> Zero, mconfirm |-> Zero, stk |-> NoKey, bond |-> Zero,
                distributed |-> FALSE]
        /\ i = [state |-> "Idle", mrand |-> Zero, sconfirm |-> Zero, stk |-> NoKey,
                ltk |-> Zero, ident |-> Zero, haveBond |-> FALSE]
        /\ draws = 0 /\ secret = NoKey /\ sealed = FALSE /\ saved = Zero
        /\ cut = FALSE /\ clash = FALSE

(* ------------------------------ the link -------------------------------- *)

\* A connection, once both callers have polled the end of the last one.
Connect ==
  /\ ~up /\ toR = <<>> /\ toI = <<>>
  /\ up' = TRUE /\ began' = 0 /\ r' = CleanR(r.bond) /\ i' = CleanI
  /\ UNCHANGED <<toR, toI, draws, secret, sealed, saved, cut, clash>>

\* What of each inbox the radio had carried, then the Disconnected event.
Cut(kept, got) == /\ toR' = Append(SubSeq(toR, 1, kept), Msg("Down", Zero))
                  /\ toI' = Append(SubSeq(toI, 1, got), Msg("Down", Zero))
                  /\ up' = FALSE /\ sealed' = FALSE /\ secret' = NoKey
Drop ==
  /\ up /\ \E kept \in 0..Len(toR), got \in 0..Len(toI) : Cut(kept, got)
  /\ UNCHANGED <<began, r, i, draws, saved, cut, clash>>

(* ---------------------------- the peripheral ---------------------------- *)

NextR == toR # <<>> /\ toR' = Tail(toR)
Fresh == draws + 1
Draw == draws < Draws /\ draws' = Fresh
\* What an end sends reaches the other's inbox, or nothing once the link is down.
ToI(m) == toI' = IF up THEN Append(toI, m) ELSE toI
ToR(m) == toR' = IF up THEN Append(toR, m) ELSE toR
FromR == UNCHANGED <<up, began, i, secret, sealed, saved, cut, clash>>

\* A Pairing Request starts over in any state; the STK of an earlier pairing stays.
OnRequest ==
  /\ NextR /\ Head(toR).type = "Request" /\ Draw
  /\ r' = [r EXCEPT !.prnd = Fresh, !.state = "WaitConfirm"]
  /\ ToI(Msg("Response", Zero)) /\ FromR

\* A PDU its state does not await is answered by Pairing Failed; the state stays.
Refused(t, s) == Head(toR).type = t /\ r.state # s
RefusesR ==
  /\ NextR /\ (Refused("Confirm", "WaitConfirm") \/ Refused("Random", "WaitRandom"))
  /\ ToI(Msg("Failed", Zero)) /\ UNCHANGED <<r, draws>> /\ FromR

OnConfirmR ==
  /\ NextR /\ Head(toR).type = "Confirm" /\ r.state = "WaitConfirm"
  /\ r' = [r EXCEPT !.mconfirm = Head(toR).value, !.state = "WaitRandom"]
  /\ ToI(Msg("Confirm", r.prnd)) /\ UNCHANGED draws /\ FromR

OnRandomR ==
  /\ NextR /\ Head(toR).type = "Random" /\ r.state = "WaitRandom"
  /\ IF Head(toR).value # r.mconfirm
       THEN r' = [r EXCEPT !.state = "Idle"] /\ ToI(Msg("Failed", Zero))
       ELSE /\ r' = [r EXCEPT !.stk = <<r.prnd, Head(toR).value>>, !.state = "WaitLtk"]
            /\ ToI(Msg("Random", r.prnd))
  /\ UNCHANGED draws /\ FromR

OnFailedR ==
  /\ NextR /\ Head(toR).type = "Failed" /\ r' = [r EXCEPT !.state = "Idle"]
  /\ UNCHANGED <<toI, draws>> /\ FromR

\* A command to the controller fails inside handle: nothing is sent, the state stays, and a
\* random half drawn is no longer the one committed to.
Stumbles ==
  /\ NextR /\ UNCHANGED toI /\ FromR
  /\ \/ Head(toR).type = "Request" /\ Draw /\ r' = [r EXCEPT !.prnd = Fresh]
     \/ /\ Head(toR).type = "Confirm" /\ r.state = "WaitConfirm"
        /\ r' = [r EXCEPT !.mconfirm = Head(toR).value] /\ UNCHANGED draws

\* long_term_key: the STK for a request that identifies nothing, the bond for one that
\* identifies it, and nothing else.
LongTermKey(ident) == IF ident = Zero /\ r.stk # NoKey THEN r.stk
                      ELSE IF r.bond # Zero /\ ident = r.bond THEN Ltk(r.bond)
                      ELSE NoKey

Answer == LongTermKey(Head(toR).value)
FromKey == UNCHANGED <<began, r, i, draws, saved, cut>>

\* The answer to the controller: none, and the central is told; the key the central has, and
\* both ends are told the link is encrypted; or another, and the first packet that does not
\* decrypt takes the link down.
KeyRequested == NextR /\ Head(toR).type = "KeyRequest"
AnswersNone ==
  /\ KeyRequested /\ Answer = NoKey
  /\ ToI(Msg("Plain", Zero)) /\ secret' = NoKey /\ UNCHANGED <<up, sealed, clash>> /\ FromKey
AnswersKey ==
  /\ toR # <<>> /\ Head(toR).type = "KeyRequest" /\ Answer # NoKey
  /\ IF ~up THEN toR' = Tail(toR) /\ UNCHANGED <<up, toI, secret, sealed, clash>>
     ELSE IF Answer = secret
       THEN /\ toR' = Append(Tail(toR), Msg("Sealed", Zero)) /\ ToI(Msg("Sealed", Zero))
            /\ sealed' = TRUE /\ UNCHANGED <<up, secret, clash>>
       ELSE /\ toR' = Append(Tail(toR), Msg("Down", Zero)) /\ ToI(Msg("Down", Zero))
            /\ up' = FALSE /\ sealed' = FALSE /\ secret' = NoKey /\ clash' = TRUE
  /\ FromKey

\* EncryptionChange: a pairing that derived an STK hands out a fresh bond, once a connection,
\* and the caller saves it; drawing it may fail, and so may the save.
OnSealedR ==
  /\ NextR /\ Head(toR).type = "Sealed"
  /\ \/ /\ r.stk # NoKey /\ ~r.distributed /\ Draw
        /\ r' = [r EXCEPT !.bond = Fresh, !.distributed = TRUE]
        /\ toI' = IF up THEN toI \o <<Msg("Ltk", Fresh), Msg("Ident", Fresh)>> ELSE toI
        /\ saved' \in {saved, Fresh}
     \/ UNCHANGED <<toI, r, draws, saved>>
  /\ UNCHANGED <<up, began, i, secret, sealed, cut, clash>>

OnDownR == /\ NextR /\ Head(toR).type = "Down" /\ r' = CleanR(r.bond)
           /\ UNCHANGED <<toI, draws>> /\ FromR

\* A reboot: Smp::new and restore_bond of what was saved.
PowerCycle ==
  /\ toR' = <<>> /\ r' = CleanR(saved) /\ cut' = (cut \/ saved # r.bond)
  /\ IF up THEN \E got \in 0..Len(toI) : toI' = Append(SubSeq(toI, 1, got), Msg("Down", Zero))
           ELSE UNCHANGED toI
  /\ up' = FALSE /\ sealed' = FALSE /\ secret' = NoKey
  /\ UNCHANGED <<began, i, draws, saved, clash>>

(* ------------------------------ the central ----------------------------- *)

NextI == toI # <<>> /\ toI' = Tail(toI)
FromI == UNCHANGED <<up, began, r, sealed, saved, cut, clash>>
Begin == up /\ began < Attempts /\ began' = began + 1
FromBegin == UNCHANGED <<up, r, sealed, saved, cut, clash>>

\* start_pairing, at first or again after one that came to nothing: it failed, or the caller has
\* waited until nothing more can come of it.
CameToNothing == i.state = "Idle" \/ (toR = <<>> /\ toI = <<>>)
StartPairing ==
  /\ Begin /\ secret = NoKey /\ draws < Draws /\ CameToNothing
  /\ i' = [i EXCEPT !.state = "WaitResponse"] /\ ToR(Msg("Request", Zero))
  /\ UNCHANGED <<toI, draws, secret>> /\ FromBegin

\* le_start_encryption with the stored bond, on a new connection.
Reconnect ==
  /\ Begin /\ began = 0 /\ i.haveBond /\ secret' = Ltk(i.ltk)
  /\ ToR(Msg("KeyRequest", i.ident)) /\ UNCHANGED <<toI, i, draws>> /\ FromBegin

\* A PDU its state does not await ends the exchange.
Fails == i' = [i EXCEPT !.state = "Idle"] /\ ToR(Msg("Failed", Zero)) /\ UNCHANGED <<draws, secret>>
Unawaited(t, s) == Head(toI).type = t /\ i.state # s
RefusesI ==
  /\ NextI /\ Fails /\ FromI
  /\ \/ Unawaited("Response", "WaitResponse") \/ Unawaited("Confirm", "WaitConfirm")
     \/ Unawaited("Random", "WaitRandom")

OnResponse ==
  /\ NextI /\ Head(toI).type = "Response" /\ i.state = "WaitResponse" /\ Draw
  /\ i' = [i EXCEPT !.mrand = Fresh, !.state = "WaitConfirm"]
  /\ ToR(Msg("Confirm", Fresh)) /\ UNCHANGED secret /\ FromI

OnConfirmI ==
  /\ NextI /\ Head(toI).type = "Confirm" /\ i.state = "WaitConfirm"
  /\ i' = [i EXCEPT !.sconfirm = Head(toI).value, !.state = "WaitRandom"]
  /\ ToR(Msg("Random", i.mrand)) /\ UNCHANGED <<draws, secret>> /\ FromI

\* The responder's random, against its confirm; then the caller starts encryption with the STK,
\* identified by nothing.
OnRandomI ==
  /\ NextI /\ Head(toI).type = "Random" /\ i.state = "WaitRandom" /\ FromI
  /\ IF Head(toI).value # i.sconfirm THEN Fails
     ELSE LET stk == <<Head(toI).value, i.mrand>> IN
          /\ i' = [i EXCEPT !.stk = stk, !.state = "WaitEncryption"]
          /\ ToR(Msg("KeyRequest", Zero)) /\ secret' = (IF up THEN stk ELSE secret)
          /\ UNCHANGED draws

\* The bond comes in two PDUs, each stored as it comes: the key, then what identifies it.
OnLtk == /\ NextI /\ Head(toI).type = "Ltk" /\ i' = [i EXCEPT !.ltk = Head(toI).value]
         /\ UNCHANGED <<toR, draws, secret>> /\ FromI
OnIdent ==
  /\ NextI /\ Head(toI).type = "Ident"
  /\ i' = [i EXCEPT !.ident = Head(toI).value, !.haveBond = TRUE]
  /\ UNCHANGED <<toR, draws, secret>> /\ FromI

OnFailedI == /\ NextI /\ Head(toI).type = "Failed" /\ i' = [i EXCEPT !.state = "Idle"]
             /\ UNCHANGED <<toR, draws, secret>> /\ FromI
OnDownI == /\ NextI /\ Head(toI).type = "Down" /\ i' = CleanI
           /\ UNCHANGED <<toR, draws, secret>> /\ FromI
\* Whether the link is encrypted is the caller's to know; the Initiator is not told.
OnChangeI == /\ NextI /\ Head(toI).type \in {"Sealed", "Plain"}
             /\ UNCHANGED <<i, toR, draws, secret>> /\ FromI

Peripheral == \/ OnRequest \/ RefusesR \/ OnConfirmR \/ OnRandomR \/ OnFailedR \/ Stumbles
              \/ AnswersNone \/ AnswersKey \/ OnSealedR \/ OnDownR
Central == \/ StartPairing \/ Reconnect \/ RefusesI \/ OnResponse \/ OnConfirmI \/ OnRandomI
           \/ OnLtk \/ OnIdent \/ OnFailedI \/ OnDownI \/ OnChangeI
Next == Connect \/ Drop \/ PowerCycle \/ Peripheral \/ Central
Spec == Init /\ [][Next]_vars

(* ----------------------------- properties ------------------------------- *)

Numbers == 0..Draws
Kinds == {"Request", "Confirm", "Random", "Failed", "KeyRequest", "Sealed", "Down", "Response",
          "Ltk", "Ident", "Plain"}
Message == [type : Kinds, value : Numbers]
TypeOK == /\ up \in BOOLEAN /\ sealed \in BOOLEAN /\ cut \in BOOLEAN /\ clash \in BOOLEAN
          /\ began \in 0..Attempts /\ draws \in Numbers /\ saved \in Numbers
          /\ secret \in Numbers \X Numbers
          /\ toR \in Seq(Message) /\ toI \in Seq(Message)
          /\ r.state \in {"Idle", "WaitConfirm", "WaitRandom", "WaitLtk"}
          /\ i.state \in {"Idle", "WaitResponse", "WaitConfirm", "WaitRandom", "WaitEncryption"}

\* smp.rs Smp::long_term_key, Initiator::handle: whatever was dropped, retried, half drawn or
\* half received, the peripheral answers a request for a key with the key the central encrypts
\* with, or with none; unless it lost power between handing out a bond and saving it.
KeysAgree == clash => cut

\* smp.rs Initiator::handle, Smp::distribute_keys: though its two halves come apart when the link
\* drops between them, the bond the central holds under the identity the peripheral knows is
\* the peripheral's, unless power was lost before the save.
BondsAgree == (i.haveBond /\ i.ident = r.bond /\ ~cut) => i.ltk = i.ident
================================================================================
