--------------------------- MODULE ClassicChannels ---------------------------
(***************************************************************************)
(* The Classic L2CAP endpoint (bredr.rs L2cap) and its peer over one ACL   *)
(* link that keeps order.  The endpoint reads its inbox only inside a call *)
(* (open, recv, close); a local CID is that of its slot, so a slot used    *)
(* again is the same CID again, and nothing the peer sends says which use  *)
(* of it is meant.  The peer numbers its channels afresh, refuses a CID it *)
(* still holds a channel for, and may close a channel at any moment.       *)
(* A message to it is sent while the controller has a buffer for it, or     *)
(* not at all, and a caller whose close failed leaves that channel be.      *)
(***************************************************************************)
EXTENDS Naturals, Sequences

CONSTANTS Slots,      \* MAX_CHANNELS
          Opens,      \* channels the peer gives out before it refuses the rest (bound)
          Slow        \* timeouts of calls and messages there is no buffer for (bound)

VARIABLES channels,   \* the table of slots
          call,       \* the call in progress, the slot it is about, and how the last open ended
          toPeer, toUs,
          theirs,     \* the peer's channels: the CID of ours each goes with, and its state
          used,       \* channels the peer has given out
          up,         \* the link stands
          held,       \* the slots whose open returned Ok and that nobody has closed since
          slow,       \* timeouts and unsent messages so far
          stale,      \* slots reused while an answer about an earlier use is still to come
          got         \* the frame recv returned last: the slot, and the peer's channel it is of

vars == <<channels, call, toPeer, toUs, theirs, used, up, held, slow, stale, got>>

Zero == 0
Empty == [inUse |-> FALSE, remote |-> Zero, connected |-> FALSE, rsp |-> FALSE, req |-> FALSE]
Idle == [op |-> "None", slot |-> Zero, end |-> "Ok"]
\* A signalling command or a data frame: our CID, the peer's, and a result.
Msg(t, ours, peers, ok) == [type |-> t, ours |-> ours, peers |-> peers, ok |-> ok]
Pick(s) == CHOOSE x \in s : \A y \in s : x <= y
Newest(s) == CHOOSE x \in s : \A y \in s : x >= y

Init == /\ channels = [s \in 1..Slots |-> Empty] /\ call = Idle /\ toPeer = <<>> /\ toUs = <<>>
        /\ theirs = [c \in 1..Opens |-> [ours |-> Zero, state |-> "Closed", asked |-> FALSE]]
        /\ used = 0 /\ up = TRUE /\ held = {} /\ slow = 0 /\ stale = {} /\ got = <<Zero, Zero>>

\* is_open, of a slot of a table; the free slots; the slots mid-open.
IsOpen(t, s) == t[s].connected /\ t[s].rsp /\ t[s].req
Free == {s \in 1..Slots : ~channels[s].inUse}
MidOpen == {s \in 1..Slots : channels[s].inUse /\ ~IsOpen(channels, s)}
\* channel_by_local_cid
ByCid(s) == s \in 1..Slots /\ channels[s].inUse

SendAll(ms) == toPeer' = IF up THEN toPeer \o ms ELSE toPeer
Send(m) == SendAll(<<m>>)
Quiet == UNCHANGED toPeer
\* send_sig: no buffer of the controller's is free, and the call ends with that error.
Unsent == /\ slow < Slow /\ slow' = slow + 1 /\ UNCHANGED toPeer
          /\ call' = [Idle EXCEPT !.end = "Failed"]

(* ------------------------------- the calls ------------------------------ *)

\* A caller told of the end of the link calls no more.
Calls == call.op = "None" /\ call.end # "Down"

\* Something about an earlier use of slot s that the peer is still to send, or to be sent.
Pending(s) == \/ \E k \in DOMAIN toUs : toUs[k].ours = s \/ toUs[k].type = "Reject"
              \/ \E k \in DOMAIN toPeer : toPeer[k].ours = s
              \/ \E c \in 1..Opens : theirs[c].ours = s /\ theirs[c].state # "Closed"
\* open: the first free slot, and a Connection Request for it; unsent, the slot stays in use.
Takes(s) == /\ channels' = [channels EXCEPT ![s] = [Empty EXCEPT !.inUse = TRUE]]
            /\ stale' = IF Pending(s) THEN stale \union {s} ELSE stale
            /\ got' = <<Zero, Zero>> /\ UNCHANGED <<toUs, theirs, used, up, held>>
Open ==
  /\ Calls /\ Free # {}
  /\ LET s == Pick(Free) IN
     /\ Takes(s) /\ call' = [op |-> "open", slot |-> s, end |-> "Ok"]
     /\ Send(Msg("ConnReq", s, Zero, TRUE)) /\ UNCHANGED slow
OpenUnsent == Calls /\ Free # {} /\ Takes(Pick(Free)) /\ Unsent

Recv == /\ Calls /\ held # {} /\ call' = [op |-> "recv", slot |-> Zero, end |-> "Ok"]
        /\ got' = <<Zero, Zero>>
        /\ UNCHANGED <<channels, toPeer, toUs, theirs, used, up, held, slow, stale>>

\* close: a Disconnection Request; nothing at all for a slot the peer has closed.  Unsent, the
\* channel is the caller's still.
Close ==
  /\ Calls /\ \E s \in held :
       /\ channels[s].inUse /\ call' = [op |-> "close", slot |-> s, end |-> "Ok"]
       /\ Send(Msg("DiscReq", s, channels[s].remote, TRUE)) /\ held' = held \ {s}
  /\ got' = <<Zero, Zero>> /\ UNCHANGED <<channels, toUs, theirs, used, up, slow, stale>>
CloseUnsent == /\ Calls /\ (\E s \in held : channels[s].inUse) /\ Unsent
               /\ got' = <<Zero, Zero>> /\ UNCHANGED <<channels, toUs, theirs, used, up, held, stale>>

\* A call's budget runs out: open leaves its slot in use, close frees it.
TimesOut ==
  /\ call.op # "None" /\ (call.op = "recv" \/ slow < Slow)
  /\ slow' = IF call.op = "recv" THEN slow ELSE slow + 1
  /\ channels' = IF call.op = "close" THEN [channels EXCEPT ![call.slot] = Empty] ELSE channels
  /\ call' = [Idle EXCEPT !.end = "Timeout"]
  /\ UNCHANGED <<toPeer, toUs, theirs, used, up, held, stale, got>>

(* --------------------------- what a poll brings ------------------------- *)

Polled(t) == call.op # "None" /\ toUs # <<>> /\ Head(toUs).type = t /\ toUs' = Tail(toUs)
It == Head(toUs)

\* After each frame the loop of the call looks at its slot: table is the table the frame leaves.
Goes(table) ==
  /\ channels' = table
  /\ held' = {s \in held : table[s].inUse}
             \union {s \in {call.slot} \cap DOMAIN table : call.op = "open" /\ IsOpen(table, s)}
  /\ call' = IF call.op = "open" /\ ~table[call.slot].inUse THEN [Idle EXCEPT !.end = "Rejected"]
             ELSE IF call.op = "open" /\ IsOpen(table, call.slot) THEN Idle
             ELSE IF call.op = "close" /\ ~table[call.slot].inUse THEN Idle
             ELSE call
Ours == UNCHANGED <<theirs, used, up, slow, stale, got>>

\* on_connection_rsp: our Configuration Request follows a success, a refusal frees the slot.
OnConnectionRsp ==
  /\ Polled("ConnRsp") /\ Ours
  /\ IF ~ByCid(It.ours) THEN Goes(channels) /\ Quiet
     ELSE IF It.ok
       THEN /\ Goes([channels EXCEPT ![It.ours].remote = It.peers, ![It.ours].connected = TRUE])
            /\ Send(Msg("ConfReq", Zero, It.peers, TRUE))
       ELSE Goes([channels EXCEPT ![It.ours] = Empty]) /\ Quiet

\* on_config_req: accepted, whatever the slot has got to, in the name of the CID it has then.
OnConfigReq ==
  /\ Polled("ConfReq") /\ Ours
  /\ IF ~ByCid(It.ours) THEN Goes(channels) /\ Quiet
     ELSE /\ Goes([channels EXCEPT ![It.ours].req = TRUE])
          /\ Send(Msg("ConfRsp", Zero, channels[It.ours].remote, TRUE))

OnConfigRsp ==
  /\ Polled("ConfRsp") /\ Ours /\ Quiet
  /\ Goes(IF It.ok /\ ByCid(It.ours) THEN [channels EXCEPT ![It.ours].rsp = TRUE] ELSE channels)

Freed(s) == IF ByCid(s) THEN [channels EXCEPT ![s] = Empty] ELSE channels
OnDisconnectionReq ==
  /\ Polled("DiscReq") /\ Ours /\ Goes(Freed(It.ours))
  /\ Send(Msg("DiscRsp", It.ours, It.peers, TRUE))
OnDisconnectionRsp == Polled("DiscRsp") /\ Ours /\ Quiet /\ Goes(Freed(It.ours))

\* A handler's message unsent: the frame is gone, and with it what the handler had not done yet.
Unanswered ==
  /\ Unsent /\ UNCHANGED <<held, theirs, used, up, stale, got>>
  /\ \/ /\ Polled("ConnRsp") /\ It.ok /\ ByCid(It.ours)
        /\ channels' = [channels EXCEPT ![It.ours].remote = It.peers, ![It.ours].connected = TRUE]
     \/ /\ Polled("ConfReq") /\ ByCid(It.ours)
        /\ channels' = [channels EXCEPT ![It.ours].req = TRUE]
     \/ Polled("DiscReq") /\ UNCHANGED channels

\* on_command_reject frees the newest slot not yet open, whichever command was rejected.
OnCommandReject ==
  /\ Polled("Reject") /\ Ours /\ Quiet
  /\ Goes(IF MidOpen = {} THEN channels ELSE [channels EXCEPT ![Newest(MidOpen)] = Empty])

\* Data ends a recv if its CID is a slot in use; open and close have no room for it.
OnData ==
  /\ Polled("Data") /\ Quiet /\ UNCHANGED <<channels, held, theirs, used, up, slow, stale>>
  /\ IF call.op = "recv" /\ ByCid(It.ours)
       THEN got' = <<It.ours, It.peers>> /\ call' = Idle
       ELSE UNCHANGED <<got, call>>

\* The end of the link ends the call; what the table holds no longer matters.
OnDown == /\ Polled("Down") /\ call' = [Idle EXCEPT !.end = "Down"]
          /\ UNCHANGED <<channels, toPeer, held, theirs, used, up, slow, stale, got>>

(* -------------------------------- the peer ------------------------------ *)

Reads(t) == up /\ toPeer # <<>> /\ Head(toPeer).type = t /\ toPeer' = Tail(toPeer)
Asked == Head(toPeer)
Answers(m) == toUs' = Append(toUs, m)
Peers == UNCHANGED <<channels, call, up, held, slow, stale, got>>
Holds(s) == {c \in 1..Opens : theirs[c].ours = s /\ theirs[c].state # "Closed"}

\* A request is accepted, or refused: always if the CID has a channel already.
PeerAccepts ==
  /\ Reads("ConnReq") /\ Holds(Asked.ours) = {} /\ used < Opens /\ used' = used + 1
  /\ theirs' = [theirs EXCEPT ![used'] = [ours |-> Asked.ours, state |-> "Config", asked |-> FALSE]]
  /\ Answers(Msg("ConnRsp", Asked.ours, used', TRUE)) /\ Peers
PeerRefuses ==
  /\ Reads("ConnReq") /\ Answers(Msg("ConnRsp", Asked.ours, Zero, FALSE))
  /\ UNCHANGED <<theirs, used>> /\ Peers

\* Its own Configuration Request, at any time after it accepted; the answers to it and to ours.
PeerConfigures ==
  /\ up /\ \E c \in 1..Opens :
       /\ theirs[c].state = "Config" /\ ~theirs[c].asked
       /\ theirs' = [theirs EXCEPT ![c].asked = TRUE]
       /\ Answers(Msg("ConfReq", theirs[c].ours, c, TRUE))
  /\ UNCHANGED <<toPeer, used>> /\ Peers
Live(c) == c \in 1..Opens /\ theirs[c].state \in {"Config", "Open"}
PeerAnswersConfig ==
  /\ Reads("ConfReq") /\ UNCHANGED <<theirs, used>> /\ Peers
  /\ IF Live(Asked.peers) THEN Answers(Msg("ConfRsp", theirs[Asked.peers].ours, Asked.peers, TRUE))
                          ELSE Answers(Msg("Reject", Zero, Zero, TRUE))
PeerConfigured ==
  /\ Reads("ConfRsp") /\ UNCHANGED <<toUs, used>> /\ Peers
  /\ theirs' = IF Live(Asked.peers) THEN [theirs EXCEPT ![Asked.peers].state = "Open"] ELSE theirs

PeerSends ==
  /\ up /\ \E c \in 1..Opens : /\ theirs[c].state = "Open" /\ Len(toUs) < 2
                               /\ Answers(Msg("Data", theirs[c].ours, c, TRUE))
  /\ UNCHANGED <<toPeer, theirs, used>> /\ Peers

\* It closes a channel, and holds it until we acknowledge; a close of ours that crosses with it
\* is acknowledged too, one of a channel it holds no longer is rejected.
PeerCloses ==
  /\ up /\ \E c \in 1..Opens :
       /\ theirs[c].state = "Open" /\ theirs' = [theirs EXCEPT ![c].state = "Closing"]
       /\ Answers(Msg("DiscReq", theirs[c].ours, c, TRUE))
  /\ UNCHANGED <<toPeer, used>> /\ Peers
PeerClosed ==
  /\ Reads("DiscRsp") /\ UNCHANGED <<toUs, used>> /\ Peers
  /\ theirs' = [theirs EXCEPT ![Asked.peers].state = "Closed"]
PeerAnswersClose ==
  /\ Reads("DiscReq") /\ UNCHANGED used /\ Peers
  /\ LET c == Asked.peers IN
     IF c \in 1..Opens /\ theirs[c].state # "Closed"
       THEN /\ Answers(Msg("DiscRsp", Asked.ours, c, TRUE))
            /\ theirs' = IF Live(c) THEN [theirs EXCEPT ![c].state = "Closed"] ELSE theirs
       ELSE Answers(Msg("Reject", Zero, Zero, TRUE)) /\ UNCHANGED theirs

\* The link goes, with what of each direction the radio had not carried.
Drop ==
  /\ up /\ up' = FALSE /\ toPeer' = <<>>
  /\ \E kept \in 0..Len(toUs) : toUs' = Append(SubSeq(toUs, 1, kept), Msg("Down", Zero, Zero, TRUE))
  /\ UNCHANGED <<channels, call, theirs, used, held, slow, stale, got>>

Poll == \/ OnConnectionRsp \/ OnConfigReq \/ OnConfigRsp \/ OnDisconnectionReq
        \/ OnDisconnectionRsp \/ Unanswered \/ OnCommandReject \/ OnData \/ OnDown
Replies == \/ PeerAccepts \/ PeerRefuses \/ PeerConfigures \/ PeerAnswersConfig \/ PeerConfigured
           \/ PeerClosed \/ PeerAnswersClose
Next == Open \/ OpenUnsent \/ Recv \/ Close \/ CloseUnsent \/ TimesOut \/ Poll \/ Replies \/ PeerSends \/ PeerCloses \/ Drop

\* poll is called again and again while a call lasts, and this peer answers.
Fairness == WF_vars(Poll) /\ WF_vars(Replies)
Spec == Init /\ [][Next]_vars /\ Fairness

(* ----------------------------- properties ------------------------------- *)

TypeOK == /\ call.op \in {"None", "open", "recv", "close"} /\ call.slot \in 0..Slots
          /\ held \subseteq 1..Slots /\ stale \subseteq 1..Slots
          /\ used \in 0..Opens /\ slow \in 0..Slow /\ up \in BOOLEAN
          /\ \A s \in 1..Slots : channels[s].remote \in 0..Opens

\* bredr.rs L2cap::open, on_*: while the link stands, a channel the caller was given is one the
\* peer holds for that very CID, or has closed with its request still to be answered.
HeldIsAgreed ==
  \A s \in held : up =>
     /\ IsOpen(channels, s) /\ channels[s].remote # Zero
     /\ theirs[channels[s].remote].ours = s /\ theirs[channels[s].remote].state # "Closed"

\* bredr.rs L2cap::recv, on_acl_data: what recv hands over was sent on the channel the caller
\* holds under that CID, not on one that had the CID before.  Not so of a stale slot, used again
\* while something about an earlier use was still to come: a CID does not tell the uses apart, and
\* nothing compares the signal's identifier (bredr.rs:471).  A frame for a slot the caller does not
\* hold comes only after a timeout or an unsent message left that slot in use.
FrameIsOwn ==
  [][(call.op = "recv" /\ call'.op = "None" /\ call'.end = "Ok") =>
        LET s == got'[1] IN
        IF s \in held THEN s \in stale \/ channels[s].remote = got'[2] ELSE slow > 0]_vars

\* bredr.rs on_connection_rsp, on_disconnection_rsp: an open is told it was rejected only by the
\* peer's refusal or close of that channel, unless its slot is a stale one.  A Command Reject,
\* which frees whatever slot is newest (bredr.rs:483), never comes from this peer: it has every
\* channel it is sent a command about.
RejectionsAreReal ==
  [][(call.op = "open" /\ call'.end = "Rejected" /\ call.slot \notin stale) =>
        (It.ours = call.slot /\ (It.type = "DiscReq" \/ (It.type = "ConnRsp" /\ ~It.ok)))]_vars

\* bredr.rs L2cap::open, close: with a peer that answers, a call ends without its timeout.
Calling == call.op \in {"open", "close"}
CallsEnd == Calling ~> ~Calling
==============================================================================
