------------------------------ MODULE LinksProofs ------------------------------
(***************************************************************************)
(* The inductive invariants of MCLinks' instances, for any sizes: the      *)
(* watch over the Wi-Fi link, the Ethernet runner, VCHIQ's ring of slots   *)
(* and the Classic channels.  ServicesProofs composes them with those of   *)
(* the others.  What is there is found along chains: from one header to    *)
(* the next, in a batch of frames or in a ring of slots, and from a slot   *)
(* to the peer's channel and what is on its way about it.                  *)
(* The first lemmas are PeersProofs' too: neither module takes the other,  *)
(* for a prover is given every definition a module has.                    *)
(***************************************************************************)
EXTENDS MCLinks, Integers, FiniteSetTheorems, SequenceTheorems, WellFoundedInduction, TLAPS

LEMMA AtEnd ==
  ASSUME NEW S, NEW s \in Seq(S), NEW e \in S
  PROVE  /\ Append(s, e) \in Seq(S) /\ Len(s) \in Nat
         /\ Len(Append(s, e)) = Len(s) + 1 /\ DOMAIN s = 1..Len(s)
         /\ DOMAIN Append(s, e) = 1..(Len(s) + 1)
         /\ \A k \in 1..Len(s) : Append(s, e)[k] = s[k]
         /\ Append(s, e)[Len(s) + 1] = e
BY AppendProperties, LenProperties

LEMMA AtFront ==
  ASSUME NEW S, NEW s \in Seq(S), s # <<>>
  PROVE  /\ Tail(s) \in Seq(S) /\ Len(s) \in Nat \ {0}
         /\ Len(Tail(s)) = Len(s) - 1 /\ DOMAIN s = 1..Len(s)
         /\ DOMAIN Tail(s) = 1..(Len(s) - 1)
         /\ \A k \in 1..(Len(s) - 1) : Tail(s)[k] = s[k + 1]
         /\ Head(s) = s[1] /\ Head(s) \in S /\ 1 \in DOMAIN s
<1>1. Tail(s) \in Seq(S) /\ Len(Tail(s)) = Len(s) - 1 /\ Head(s) \in S BY HeadTailProperties
<1>2. Len(s) \in Nat \ {0} /\ DOMAIN s = 1..Len(s) BY LenProperties, EmptySeq
<1>3. DOMAIN Tail(s) = 1..(Len(s) - 1) BY <1>1, LenProperties
<1>4. \A k \in 1..(Len(s) - 1) : Tail(s)[k] = s[k + 1] BY <1>1, <1>2
<1>5. Head(s) = s[1] OBVIOUS
<1> QED BY <1>1, <1>2, <1>3, <1>4, <1>5

LEMMA Smallest == ASSUME NEW S, S \subseteq Nat, S # {} PROVE \E x \in S : \A y \in S : x <= y
<1>1. \E x \in S : \A y \in S : ~(<<y, x>> \in OpToRel(<, Nat))
  BY NatLessThanWellFounded, WFMin, Zenon
<1>2. PICK x \in S : \A y \in S : ~(<<y, x>> \in OpToRel(<, Nat))
  BY <1>1, Zenon
<1>3. \A y \in S : ~(y < x)
  BY <1>2, Zenon DEF OpToRel
<1> QED
  BY <1>3

LEMMA ByOne == ASSUME NEW S, 0 \in S, \A n \in Nat : n \in S => n + 1 \in S PROVE Nat \subseteq S
<1> DEFINE T == Nat \ S
<1> SUFFICES ASSUME T # {} PROVE FALSE OBVIOUS
<1>1. T \subseteq Nat OBVIOUS
<1>2. PICK x \in T : \A y \in T : x <= y
  <2> HIDE DEF T
  <2> QED BY <1>1, Smallest
<1>3. x - 1 \in Nat /\ x - 1 \in S /\ x = (x - 1) + 1 BY <1>2
<1> QED BY <1>2, <1>3

(* The watch over the Wi-Fi link. *)

\* How long a link may have been gone unnoticed, by the watch's next look and by the silence so far.
Unnoticed == w_link /\ w_radio # "on" => w_lost + w_due <= Silence /\ (w_quiet < Silence => w_lost <= w_quiet)
\* A link shown is one the watch probes, in time; after a pass it has been, or there was no silence.
Probing == /\ w_link <=> w_state = "Up"
           /\ w_state = "Up" => w_due <= Probe /\ (w_turn = "world" /\ w_due = 0 => w_quiet < Silence)
           /\ w_radio = "on" => w_lost = 0
WatchInv == Watch!TypeOK /\ Probing /\ Unnoticed

LEMMA WatchInit == Watch!Init => WatchInv
<1> SUFFICES ASSUME Watch!Init PROVE WatchInv OBVIOUS
<1>a. w_due \in 0..Silence + Retry + JoinPoll /\ w_deadline \in 0..Budget /\ w_quiet \in 0..Silence /\ w_lost \in 0..Silence + 1
  BY WatchAssumption DEF Watch!Init
<1>1. Watch!TypeOK BY <1>a, Zenon DEF Watch!Init, Watch!TypeOK
<1>2. Probing /\ Unnoticed BY WatchAssumption DEF Watch!Init, Probing, Unnoticed
<1> QED BY <1>1, <1>2 DEF WatchInv

LEMMA WatchPass == WatchInv /\ Watch!Pass => WatchInv'
<1> SUFFICES ASSUME WatchInv, Watch!Pass PROVE WatchInv' OBVIOUS
<1> USE WatchAssumption DEF WatchInv, Watch!TypeOK, Probing, Unnoticed
<1>1. /\ w_turn = "pass" /\ w_turn' = "world" /\ w_reconnect' = w_reconnect /\ w_net' = w_net /\ w_mute' = w_mute
      /\ w_lost' = w_lost /\ w_quiet' \in 0..Silence /\ (w_quiet' = w_quiet \/ (w_quiet' = 0 /\ w_radio = "on"))
  BY DEF Watch!Pass
<1>2. CASE w_due > 0 /\ Watch!NotYet
  <2>1. /\ w_state' = w_state /\ w_due' = w_due /\ w_deadline' = w_deadline /\ w_link' = w_link
        /\ w_joins' = w_joins /\ w_radio' = w_radio
    BY <1>2 DEF Watch!NotYet, Watch!watch
  <2>2. Watch!TypeOK' BY <1>1, <2>1
  <2>3. Probing' /\ Unnoticed' BY <1>1, <1>2, <2>1
  <2> QED BY <2>2, <2>3, Zenon
<1>3. ASSUME Watch!Join, w_radio # "on" \/ w_mute, w_state # "Joining" PROVE WatchInv'
  <2>1. w_joins' \in BOOLEAN /\ w_link' = FALSE /\ w_state' \in {"Down", "Joining"} /\ w_radio' \in {w_radio, "joining"}
    BY <1>3 DEF Watch!Join
  <2>2. w_due' \in {Probe, Retry, JoinPoll} /\ w_deadline' \in {w_deadline, Budget} BY <1>3 DEF Watch!Join
  <2>a. w_due' \in 0..Silence + Retry + JoinPoll /\ w_deadline' \in 0..Budget BY <2>2
  <2>b. w_reconnect \in BOOLEAN /\ w_net \in BOOLEAN /\ w_mute \in BOOLEAN /\ w_radio \in {"on", "joining", "off"} OBVIOUS
  <2>c. w_lost \in 0..Silence + 1 OBVIOUS
  <2>3. Watch!TypeOK' BY <1>1, <2>1, <2>a, <2>b, <2>c, Zenon
  <2>4. Probing' /\ Unnoticed' BY <1>1, <2>1
  <2> QED BY <2>3, <2>4, Zenon
<1>4. ASSUME Watch!Associate, w_radio = "on" PROVE WatchInv' BY <1>1, <1>4 DEF Watch!Associate
<1>5. CASE Watch!WhenUp
  <2>1. CASE w_quiet' < Silence /\ Watch!NotYet BY <1>1, <1>5, <2>1 DEF Watch!WhenUp, Watch!NotYet, Watch!watch
  <2>2. CASE Watch!Probed /\ w_due' = Probe /\ UNCHANGED <<w_state, w_deadline, w_link, w_joins, w_radio>>
    BY <1>1, <1>5, <2>2 DEF Watch!WhenUp, Watch!Probed
  <2>3. CASE ~Watch!Probed /\ Watch!Join BY <1>3, <1>5, <2>3 DEF Watch!WhenUp, Watch!Probed
  <2> QED BY <1>5, <2>1, <2>2, <2>3 DEF Watch!WhenUp
<1>6. CASE Watch!WhenJoining
  <2>1. CASE Watch!Probed /\ Watch!Associate BY <1>4, <2>1 DEF Watch!Probed
  <2>2. CASE ~Watch!Probed BY <1>1, <1>6, <2>2 DEF Watch!WhenJoining
  <2> QED BY <1>6, <2>1, <2>2 DEF Watch!WhenJoining
<1>7. CASE Watch!WhenDown BY <1>3, <1>4, <1>7 DEF Watch!WhenDown, Watch!Probed
<1> QED BY <1>2, <1>5, <1>6, <1>7 DEF Watch!Pass

LEMMA WatchTick == WatchInv /\ Watch!Tick => WatchInv'
BY WatchAssumption DEF WatchInv, Watch!TypeOK, Probing, Unnoticed, Watch!Tick, Watch!Sub1, Watch!world

LEMMA WatchChanges ==
  ASSUME WatchInv, NEW r \in {"on", "joining", "off"}, NEW n \in BOOLEAN, NEW m \in BOOLEAN, Watch!Changes(r, n, m),
         r = w_radio \/ r = "on" \/ (r = "off" /\ w_radio # "off")
  PROVE  WatchInv'
BY WatchAssumption DEF WatchInv, Watch!TypeOK, Probing, Unnoticed, Watch!Changes, Watch!watch

LEMMA WatchStep == WatchInv /\ [Watch!Next]_wVars => WatchInv'
<1> SUFFICES ASSUME WatchInv, [Watch!Next]_wVars PROVE WatchInv' OBVIOUS
<1>1. CASE Watch!Pass BY <1>1, WatchPass
<1>2. CASE Watch!Tick BY <1>2, WatchTick
<1>3. CASE Watch!Drops \/ Watch!Returns \/ Watch!Roams \/ Watch!Lands \/ Watch!Mutes
  <2>1. w_radio \in {"on", "joining", "off"} /\ w_net \in BOOLEAN /\ w_mute \in BOOLEAN
    BY DEF WatchInv, Watch!TypeOK
  <2>2. (~w_mute) \in BOOLEAN /\ TRUE \in BOOLEAN OBVIOUS
  <2> QED BY <1>3, <2>1, <2>2, WatchChanges DEF Watch!Drops, Watch!Returns, Watch!Roams, Watch!Lands, Watch!Mutes
<1>4. CASE UNCHANGED wVars BY <1>4 DEF wVars, WatchInv, Watch!TypeOK, Probing, Unnoticed
<1> QED BY <1>1, <1>2, <1>3, <1>4 DEF Watch!Next

LEMMA WatchSays ==
  WatchInv => Watch!NoticedInTime /\ ([Watch!Next]_wVars => (w_joins' # w_joins /\ ~w_mute => w_radio # "on")
                                                            /\ (~w_link /\ w_link' => w_radio = "on"))
<1> SUFFICES ASSUME WatchInv
             PROVE  Watch!NoticedInTime /\ ([Watch!Next]_wVars => (w_joins' # w_joins /\ ~w_mute => w_radio # "on")
                                                            /\ (~w_link /\ w_link' => w_radio = "on"))
  OBVIOUS
<1>1. Watch!NoticedInTime BY WatchAssumption DEF WatchInv, Watch!TypeOK, Unnoticed, Watch!NoticedInTime
<1>2. ASSUME [Watch!Next]_wVars
      PROVE  (w_joins' # w_joins /\ ~w_mute => w_radio # "on") /\ (~w_link /\ w_link' => w_radio = "on")
  <2>1. CASE Watch!Pass
    BY <2>1 DEF Watch!Pass, Watch!NotYet, Watch!WhenUp, Watch!WhenJoining, Watch!WhenDown, Watch!Probed, Watch!Join,
                Watch!Associate, Watch!watch
  <2>2. CASE Watch!Tick \/ UNCHANGED wVars BY <2>2 DEF Watch!Tick, wVars
  <2>3. CASE Watch!Drops \/ Watch!Returns \/ Watch!Roams \/ Watch!Lands \/ Watch!Mutes
    BY <2>3 DEF Watch!Drops, Watch!Returns, Watch!Roams, Watch!Lands, Watch!Mutes, Watch!Changes, Watch!watch
  <2> QED BY <1>2, <2>1, <2>2, <2>3 DEF Watch!Next
<1> QED BY <1>1, <1>2

(* The Ethernet runner. *)

Frame == [n : Nat, len : Nat, bad : BOOLEAN]
HeaderOf(p) == IF p = "Lan9514" THEN 4 ELSE 10
Next4(n) == 4 * ((n + 3) \div 4)

LEMMA Fours ==
  \A n \in Nat : /\ Next4(n) \in Nat /\ n <= Next4(n) /\ Next4(n) < n + 4 /\ Next4(n) % 4 = 0
                 /\ n % 4 = 0 => Next4(n) = n
BY DEF Next4

LEMMA FoursUp == \A m, n \in Nat : m <= n => Next4(m) <= Next4(n)
BY DEF Next4

\* The two chips' ways to the next header are one.
LEMMA Pads ==
  \A o, l \in Nat : o % 4 = 0 => o + 10 + l + ((4 - ((l + 2) % 4)) % 4) = Next4(o + 10 + l)
BY DEF Next4

\* Where headers stand: a function of how much each frame takes.
Stand(h, fs, n, f) == f = [k \in 1..n |-> IF k = 1 THEN 0 ELSE Next4(f[k - 1] + h + fs[k - 1].len)]
LEMMA Stands == \A h, fs : \A n \in Nat : \E f : Stand(h, fs, n, f)
<1> SUFFICES ASSUME NEW h, NEW fs PROVE \A n \in Nat : \E f : Stand(h, fs, n, f) OBVIOUS
<1> DEFINE S == {n \in Nat : \E f : Stand(h, fs, n, f)}
<1>1. 0 \in S
  <2>1. Stand(h, fs, 0, [k \in 1..0 |-> 0]) BY DEF Stand
  <2> QED BY <2>1
<1>2. ASSUME NEW n \in Nat, n \in S PROVE n + 1 \in S
  <2>1. PICK f : Stand(h, fs, n, f) BY <1>2
  <2> DEFINE g == [k \in 1..(n + 1) |-> IF k = 1 THEN 0 ELSE Next4(f[k - 1] + h + fs[k - 1].len)]
  <2>2. \A k \in 1..n : f[k] = g[k] BY <2>1 DEF Stand
  <2>3. \A k \in 1..(n + 1) : k # 1 => k - 1 \in 1..n OBVIOUS
  <2>4. \A k \in 1..(n + 1) : g[k] = IF k = 1 THEN 0 ELSE Next4(g[k - 1] + h + fs[k - 1].len) BY <2>2, <2>3
  <2>5. DOMAIN g = 1..(n + 1) /\ g = [k \in 1..(n + 1) |-> g[k]] OBVIOUS
  <2> HIDE DEF g
  <2>6. Stand(h, fs, n + 1, g) BY <2>4, <2>5 DEF Stand
  <2> QED BY <2>6
<1> HIDE DEF S
<1>3. Nat \subseteq S BY <1>1, <1>2, ByOne
<1> QED BY <1>3 DEF S

LEMMA AtStands == ASSUME NEW fs PROVE Len(fs) \in Nat => Stand(HeaderOf(e_part), fs, Len(fs) + 1, Ether!At(fs))
<1> SUFFICES ASSUME Len(fs) \in Nat PROVE Stand(HeaderOf(e_part), fs, Len(fs) + 1, Ether!At(fs)) OBVIOUS
<1>0. Len(fs) + 1 \in Nat OBVIOUS
<1>1. \E f : Stand(HeaderOf(e_part), fs, Len(fs) + 1, f) BY <1>0, Stands, Zenon
<1>2. Ether!At(fs) = CHOOSE f : Stand(HeaderOf(e_part), fs, Len(fs) + 1, f)
  BY Zenon DEF Ether!At, Stand, Ether!Header, HeaderOf, Ether!Aligned, Next4
<1> QED BY <1>1, <1>2

\* Headers stand at multiples of four, each after the frame before it.
LEMMA AtIs ==
  ASSUME NEW fs \in Seq(Frame), NEW at, NEW h \in {4, 10}, Stand(h, fs, Len(fs) + 1, at)
  PROVE  /\ at[1] = 0 /\ \A k \in 1..(Len(fs) + 1) : at[k] \in Nat /\ at[k] % 4 = 0
         /\ \A k \in 1..Len(fs) : at[k + 1] = Next4(at[k] + h + fs[k].len)
         /\ \A j, k \in 1..(Len(fs) + 1) : j < k => at[j] < at[k]
<1> DEFINE n == Len(fs)
<1>0. h \in Nat /\ h > 0 OBVIOUS
<1>1. n \in Nat /\ \A k \in 1..n : fs[k].len \in Nat
  <2>1. n \in Nat /\ \A k \in 1..n : fs[k] \in Frame BY LenProperties, ElementOfSeq
  <2> QED BY <2>1 DEF Frame
<1> HIDE DEF n
<1>2. \A k \in 1..(n + 1) : at[k] = IF k = 1 THEN 0 ELSE Next4(at[k - 1] + h + fs[k - 1].len) BY DEF Stand, n
<1>3. \A k \in 1..n : k + 1 \in 1..(n + 1) /\ k + 1 # 1 /\ (k + 1) - 1 = k BY <1>1
<1>4. at[1] = 0 /\ \A k \in 1..n : at[k + 1] = Next4(at[k] + h + fs[k].len)
  <2>1. 1 \in 1..(n + 1) BY <1>1
  <2> QED BY <1>2, <1>3, <2>1
<1> DEFINE S == {k \in Nat : k + 1 <= n + 1 => /\ at[k + 1] \in Nat /\ at[k + 1] % 4 = 0
                                               /\ \A j \in 1..k : at[j] \in Nat /\ at[j] < at[k + 1]}
<1>5. 0 \in S BY <1>4
<1>6. ASSUME NEW k \in Nat, k \in S PROVE k + 1 \in S
  <2> SUFFICES ASSUME k + 2 <= n + 1
               PROVE  at[k + 2] \in Nat /\ at[k + 2] % 4 = 0 /\ \A j \in 1..(k + 1) : at[j] \in Nat /\ at[j] < at[k + 2]
    OBVIOUS
  <2>1. k + 1 \in 1..n /\ k + 1 <= n + 1 BY <1>1
  <2>2. at[k + 1] \in Nat /\ \A j \in 1..k : at[j] \in Nat /\ at[j] < at[k + 1] BY <1>6, <2>1
  <2>3. fs[k + 1].len \in Nat /\ (k + 1) + 1 = k + 2 BY <1>1, <2>1
  <2>4. at[k + 2] = Next4(at[k + 1] + h + fs[k + 1].len) BY <1>4, <2>1, <2>3
  <2> DEFINE a == at[k + 1]
             l == fs[k + 1].len
             c == at[k + 2]
  <2>5. a \in Nat /\ l \in Nat /\ c = Next4(a + h + l) BY <2>2, <2>3, <2>4
  <2> HIDE DEF a, l, c
  <2>a. a + h + l \in Nat /\ a + h + l > a BY <1>0, <2>5
  <2>b. c \in Nat /\ c % 4 = 0 /\ a + h + l <= c BY <2>5, <2>a, Fours
  <2>c. a < c BY <1>0, <2>5, <2>a, <2>b
  <2>6. at[k + 2] \in Nat /\ at[k + 2] % 4 = 0 /\ at[k + 1] < at[k + 2] BY <2>b, <2>c DEF a, c
  <2>7. \A j \in 1..(k + 1) : j \in 1..k \/ j = k + 1 OBVIOUS
  <2>8. ASSUME NEW j \in 1..(k + 1) PROVE at[j] \in Nat /\ at[j] < at[k + 2]
    <3>1. CASE j = k + 1 BY <2>2, <2>6, <3>1
    <3>2. CASE j \in 1..k BY <2>2, <2>6, <3>2
    <3> QED BY <2>7, <3>1, <3>2
  <2> QED BY <2>6, <2>8
<1> HIDE DEF S
<1>7. Nat \subseteq S BY <1>5, <1>6, ByOne
<1>8. ASSUME NEW k \in 1..(n + 1) PROVE at[k] \in Nat /\ at[k] % 4 = 0 /\ \A j \in 1..(n + 1) : j < k => at[j] < at[k]
  <2>1. k - 1 \in Nat /\ (k - 1) + 1 = k /\ k <= n + 1 BY <1>1
  <2>2. k - 1 \in S BY <1>7, <2>1
  <2>3. at[k] \in Nat /\ at[k] % 4 = 0 /\ \A j \in 1..(k - 1) : at[j] < at[k] BY <2>1, <2>2 DEF S
  <2> QED BY <2>3
<1> QED BY <1>4, <1>8 DEF n

Heads(h, fs) == CHOOSE f : Stand(h, fs, Len(fs) + 1, f)

LEMMA HeadsAre ==
  ASSUME NEW fs \in Seq(Frame), NEW h \in {4, 10}
  PROVE  /\ Heads(h, fs)[1] = 0 /\ \A k \in 1..(Len(fs) + 1) : Heads(h, fs)[k] \in Nat /\ Heads(h, fs)[k] % 4 = 0
         /\ \A k \in 1..Len(fs) : Heads(h, fs)[k + 1] = Next4(Heads(h, fs)[k] + h + fs[k].len)
         /\ \A j, k \in 1..(Len(fs) + 1) : j < k => Heads(h, fs)[j] < Heads(h, fs)[k]
<1>1. Len(fs) + 1 \in Nat BY LenProperties
<1>2. \E f : Stand(h, fs, Len(fs) + 1, f) BY <1>1, Stands, Zenon
<1>3. Stand(h, fs, Len(fs) + 1, Heads(h, fs)) BY <1>2, Zenon DEF Heads
<1> QED BY <1>3, AtIs, Zenon

\* Each frame after the one before it; what is left to give from a place on.
Ascending(fs) == \A j, k \in DOMAIN fs : j < k => fs[j].n < fs[k].n
Rest(fs, k) == {fs[j].n : j \in {i \in DOMAIN fs : i >= k /\ ~fs[i].bad}}
\* A transfer is its frames, each behind its header, the last padded or not.
Whole(h, fs, size) == LET n == Len(fs) end == Heads(h, fs)[n] + h + fs[n].len
                      IN IF n = 0 THEN size = 0 ELSE size \in {end, Next4(end)}

EtherTypes == /\ e_part \in {"Lan9514", "Lan7800"}
              /\ e_fifo \in Seq(Frame) /\ e_batch \in [frames : Seq(Frame), size : Nat] /\ e_offset \in Nat
              /\ e_rxq \in Seq(Nat) /\ e_txq \in Seq(Nat)
              /\ e_chip \in [bir : BOOLEAN, on : BOOLEAN, link : BOOLEAN]
              /\ e_stage \in {"Reset", "Enable", "Multicast", "Await", "Run", "Parked"}
              /\ e_link \in {"Up", "Down"} /\ e_pending \in BOOLEAN
              /\ Len(e_fifo) <= Fifo /\ Len(e_rxq) <= NetQueue /\ Len(e_txq) <= NetQueue
              /\ e_arrived \in 0..Frames /\ e_sent \in 0..(NetQueue + 1) /\ e_faults \in 0..Faults
\* How far the bring-up is.
Ready == /\ e_stage \notin {"Reset", "Parked"} => e_chip.bir
         /\ e_stage \in {"Multicast", "Await", "Run"} => e_chip.on
         /\ e_link = "Up" \/ e_pending => e_stage = "Run"
Numbered == /\ Ascending(e_fifo) /\ \A k \in DOMAIN e_fifo : e_fifo[k].n <= e_arrived
            /\ Ascending(e_batch.frames)
\* The walk over a transfer stands at a header, or after the last frame, and what is before it has been given.
Walking == /\ Whole(HeaderOf(e_part), e_batch.frames, e_batch.size)
           /\ \E k \in 1..(Len(e_batch.frames) + 1) :
                e_offset = Heads(HeaderOf(e_part), e_batch.frames)[k] /\ e_due = Rest(e_batch.frames, k)
           /\ e_pending => e_batch.frames = <<>>
EtherInv == EtherTypes /\ Ready /\ Numbered /\ Walking

LEMMA EtherHeader == EtherTypes => HeaderOf(e_part) \in {4, 10} /\ Ether!Header = HeaderOf(e_part)
BY DEF EtherTypes, HeaderOf, Ether!Header

LEMMA WalkEmpty ==
  ASSUME NEW h \in {4, 10}
  PROVE  /\ Whole(h, <<>>, 0) /\ Heads(h, <<>>)[1] = 0 /\ Rest(<<>>, 1) = {} /\ Len(<<>>) = 0 /\ <<>> \in Seq(Frame)
         /\ Ascending(<<>>)
<1>1. <<>> \in Seq(Frame) /\ Len(<<>>) = 0 BY EmptySeq
<1>2. Heads(h, <<>>)[1] = 0 BY <1>1, HeadsAre
<1>3. Whole(h, <<>>, 0) BY <1>1 DEF Whole
<1> QED BY <1>1, <1>2, <1>3 DEF Rest, Ascending

LEMMA EtherInit == Ether!Init => EtherInv
<1> SUFFICES ASSUME Ether!Init PROVE EtherInv OBVIOUS
<1>1. e_batch = [frames |-> <<>>, size |-> 0] /\ e_fifo = <<>> /\ e_rxq = <<>> /\ e_txq = <<>>
  BY DEF Ether!Init, Ether!Empty
<1>2. <<>> \in Seq(Nat) /\ <<>> \in Seq(Frame) /\ Len(<<>>) = 0 BY EmptySeq
<1>3. EtherTypes
  <2>1. e_batch \in [frames : Seq(Frame), size : Nat] BY <1>1, <1>2
  <2>2. e_chip \in [bir : BOOLEAN, on : BOOLEAN, link : BOOLEAN] BY DEF Ether!Init
  <2>3. e_fifo \in Seq(Frame) /\ e_rxq \in Seq(Nat) /\ e_txq \in Seq(Nat) BY <1>1, <1>2
  <2>4. Len(e_fifo) = 0 /\ Len(e_rxq) = 0 /\ Len(e_txq) = 0 BY <1>1, <1>2
  <2>5. /\ Len(e_fifo) <= Fifo /\ Len(e_rxq) <= NetQueue /\ Len(e_txq) <= NetQueue
        /\ e_arrived \in 0..Frames /\ e_sent \in 0..(NetQueue + 1) /\ e_faults \in 0..Faults /\ e_offset \in Nat
    BY <2>4, EtherAssumption DEF Ether!Init
  <2>6. /\ e_part \in {"Lan9514", "Lan7800"} /\ e_link = "Down" /\ e_pending = FALSE /\ e_stage = "Reset"
    BY DEF Ether!Init
  <2> QED BY <2>1, <2>2, <2>3, <2>5, <2>6, Zenon DEF EtherTypes
<1>4. Ready BY DEF Ether!Init, Ready
<1>5. Numbered /\ Walking
  <2>1. HeaderOf(e_part) \in {4, 10} BY <1>3, EtherHeader
  <2>2. 1 \in 1..(Len(<<>>) + 1) BY <1>2
  <2>3. Walking BY <1>1, <2>1, <2>2, WalkEmpty DEF Walking, Ether!Init
  <2>4. Numbered BY <1>1, <2>1, WalkEmpty DEF Numbered
  <2> QED BY <2>3, <2>4
<1> QED BY <1>3, <1>4, <1>5 DEF EtherInv

\* No frame of a transfer goes past its end, and the walk ends with it.
LEMMA WithinSize ==
  ASSUME NEW h \in {4, 10}, NEW fs \in Seq(Frame), NEW size \in Nat, Whole(h, fs, size), NEW k \in 1..(Len(fs) + 1)
  PROVE  /\ k \in 1..Len(fs) => Heads(h, fs)[k] + h + fs[k].len <= size
         /\ k = Len(fs) + 1 => size <= Heads(h, fs)[k] /\ Heads(h, fs)[k] <= Next4(size)
<1> DEFINE n == Len(fs)
           a == Heads(h, fs)
<1>1. /\ a[1] = 0 /\ \A j \in 1..(n + 1) : a[j] \in Nat
      /\ \A j \in 1..n : a[j + 1] = Next4(a[j] + h + fs[j].len)
      /\ \A i, j \in 1..(n + 1) : i < j => a[i] < a[j]
  BY HeadsAre
<1>2. n \in Nat /\ \A j \in 1..n : fs[j].len \in Nat
  <2>1. n \in Nat /\ \A j \in 1..n : fs[j] \in Frame BY LenProperties, ElementOfSeq
  <2> QED BY <2>1 DEF Frame
<1> HIDE DEF n, a
<1>3. CASE n = 0
  <2>1. size = 0 /\ k = 1 BY <1>3 DEF Whole, n
  <2> QED BY <1>1, <1>3, <2>1 DEF n, a, Next4
<1>4. CASE n > 0
  <2> DEFINE end == a[n] + h + fs[n].len
  <2>1. n \in 1..n /\ n \in 1..(n + 1) /\ n + 1 \in 1..(n + 1) BY <1>2, <1>4
  <2>2. end \in Nat /\ end > a[n] /\ a[n + 1] = Next4(end)
    <3> DEFINE x == a[n]
               l == fs[n].len
    <3>1. x \in Nat /\ l \in Nat /\ h \in Nat /\ h > 0 BY <1>1, <1>2, <2>1
    <3>2. a[n + 1] = Next4(x + h + l) BY <1>1, <2>1
    <3> HIDE DEF x, l
    <3>3. x + h + l \in Nat /\ x + h + l > x BY <3>1
    <3> QED BY <3>2, <3>3 DEF x, l
  <2>3. size \in {end, Next4(end)} BY <1>2, <1>4 DEF Whole, n, a
  <2> HIDE DEF end
  <2>4. end <= size /\ size <= Next4(end)
    <3>1. end <= Next4(end) /\ Next4(end) \in Nat BY <2>2, Fours
    <3> QED BY <2>2, <2>3, <3>1
  <2>5. Next4(end) <= Next4(size) BY <2>2, <2>4, FoursUp
  <2>6. CASE k = n + 1 BY <2>2, <2>4, <2>5, <2>6, <1>2 DEF n, a
  <2>7. CASE k = n BY <1>2, <2>4, <2>7 DEF n, a, end
  <2>8. CASE k \in 1..(n - 1)
    <3> DEFINE x == a[k]
               l == fs[k].len
    <3>1. k \in 1..n /\ k + 1 \in 1..(n + 1) /\ (k + 1 < n \/ k + 1 = n) BY <1>2, <2>8
    <3>a. a[n] \in Nat /\ a[k + 1] \in Nat /\ (k + 1 < n => a[k + 1] < a[n]) BY <1>1, <2>1, <3>1
    <3>b. a[k + 1] <= a[n]
      <4>1. CASE k + 1 = n BY <3>a, <4>1
      <4>2. CASE k + 1 < n
        <5> DEFINE p == a[k + 1]
                   q == a[n]
        <5>1. p \in Nat /\ q \in Nat /\ p < q BY <3>a, <4>2
        <5> HIDE DEF p, q
        <5>2. p <= q BY <5>1
        <5> QED BY <5>2 DEF p, q
      <4> QED BY <3>1, <4>1, <4>2
    <3>2. x \in Nat /\ l \in Nat /\ a[k + 1] = Next4(x + h + l) /\ a[n] \in Nat /\ a[k + 1] \in Nat /\ a[k + 1] <= a[n]
      BY <1>1, <1>2, <3>1, <3>a, <3>b
    <3> HIDE DEF x, l
    <3>3. x + h + l \in Nat BY <3>2
    <3>4. x + h + l <= a[k + 1] BY <3>2, <3>3, Fours
    <3>5. x + h + l <= size BY <2>2, <2>4, <3>2, <3>3, <3>4
    <3>6. k # n + 1 BY <1>2, <2>8
    <3> QED BY <3>5, <3>6 DEF x, l, n, a
  <2>9. k = n + 1 \/ k = n \/ k \in 1..(n - 1) BY <1>2, <1>4 DEF n
  <2> QED BY <2>6, <2>7, <2>8, <2>9
<1> QED BY <1>2, <1>3, <1>4

\* While a transfer is drained the walk finds a frame.
LEMMA DrainFinds ==
  ASSUME EtherInv, e_offset < e_batch.size
  PROVE  \E k \in 1..Len(e_batch.frames) :
           /\ e_offset = Heads(HeaderOf(e_part), e_batch.frames)[k] /\ e_due = Rest(e_batch.frames, k)
           /\ Ether!Plausible /\ Ether!This = e_batch.frames[k] /\ e_batch.frames[k] \in Frame
           /\ Ether!NextOffset(Ether!This.len) = Heads(HeaderOf(e_part), e_batch.frames)[k + 1]
<1> DEFINE fs == e_batch.frames
           size == e_batch.size
           h == HeaderOf(e_part)
           a == Heads(h, fs)
           n == Len(fs)
<1>1. /\ fs \in Seq(Frame) /\ size \in Nat /\ h \in {4, 10} /\ Ether!Header = h /\ e_offset \in Nat
      /\ Whole(h, fs, size) /\ Ether!At(fs) = a
  <2>1. fs \in Seq(Frame) /\ size \in Nat /\ e_offset \in Nat BY DEF EtherInv, EtherTypes
  <2>2. h \in {4, 10} /\ Ether!Header = h BY EtherHeader DEF EtherInv
  <2>3. Ether!At(fs) = a BY Zenon DEF Ether!At, Heads, Stand, Ether!Header, HeaderOf, Ether!Aligned, Next4
  <2> QED BY <2>1, <2>2, <2>3 DEF EtherInv, Walking
<1>2. PICK k \in 1..(n + 1) : e_offset = a[k] /\ e_due = Rest(fs, k) BY DEF EtherInv, Walking
<1>3. /\ \A j \in 1..(n + 1) : a[j] \in Nat /\ a[j] % 4 = 0
      /\ \A j \in 1..n : a[j + 1] = Next4(a[j] + h + fs[j].len)
      /\ \A i, j \in 1..(n + 1) : i < j => a[i] < a[j]
  BY <1>1, HeadsAre
<1>4. n \in Nat /\ DOMAIN fs = 1..n /\ \A j \in 1..n : fs[j] \in Frame BY <1>1, LenProperties, ElementOfSeq
<1>5. /\ k \in 1..n => a[k] + h + fs[k].len <= size
      /\ k = n + 1 => size <= a[k]
  BY <1>1, WithinSize
<1> HIDE DEF fs, size, h, a, n
<1>6. k \in 1..n BY <1>1, <1>2, <1>3, <1>4, <1>5 DEF size
<1>7. {j \in DOMAIN fs : a[j] = e_offset} = {k}
  <2>1. \A j \in 1..n : j # k => a[j] # a[k] BY <1>3, <1>4, <1>6
  <2> QED BY <1>2, <1>4, <1>6, <2>1
<1>8. Ether!Headers = {k} BY <1>1, <1>7 DEF Ether!Headers, fs
<1>9. (CHOOSE j \in Ether!Headers : TRUE) = k BY <1>8
<1>10. Ether!This = fs[k] BY <1>9 DEF Ether!This, fs
<1>11. fs[k].len \in Nat /\ a[k] \in Nat /\ a[k] % 4 = 0 BY <1>3, <1>4, <1>6 DEF Frame
<1> DEFINE o == a[k]
           l == fs[k].len
<1>12. o \in Nat /\ l \in Nat /\ o % 4 = 0 /\ o + h + l <= size /\ e_offset = o BY <1>2, <1>5, <1>6, <1>11
<1> HIDE DEF o
<1>13. Ether!Plausible
  <2>1. Ether!Remaining >= Ether!Header /\ Ether!Header + l <= Ether!Remaining
    <3> HIDE DEF l
    <3>1. Ether!Remaining = size - o BY <1>12 DEF Ether!Remaining, size
    <3> QED BY <1>1, <1>12, <3>1
  <2> QED BY <1>8, <1>9, <2>1 DEF Ether!Plausible, fs
<1>14. Ether!NextOffset(l) = Next4(o + h + l)
  <2> HIDE DEF l
  <2>1. CASE e_part = "Lan9514"
    BY <1>12, <2>1 DEF Ether!NextOffset, Ether!Aligned, Next4, Ether!Header, h, HeaderOf
  <2>2. CASE e_part # "Lan9514"
    <3>1. h = 10 /\ Ether!Header = 10 BY <1>1, <2>2 DEF h, HeaderOf
    <3>2. Ether!NextOffset(l) = o + 10 + l + ((4 - ((l + 2) % 4)) % 4)
      BY <1>12, <2>2, <3>1 DEF Ether!NextOffset, Ether!Padding
    <3> QED BY <1>12, <3>1, <3>2, Pads
  <2> QED BY <2>1, <2>2
<1>15. a[k + 1] = Next4(o + h + l) BY <1>3, <1>6 DEF o
<1> QED BY <1>2, <1>4, <1>6, <1>10, <1>13, <1>14, <1>15 DEF fs, h, a, n

\* Drained to its end, a transfer has nothing left to give.
LEMMA DrainEnds == EtherInv /\ e_offset >= e_batch.size => e_due = {}
<1> SUFFICES ASSUME EtherInv, e_offset >= e_batch.size PROVE e_due = {} OBVIOUS
<1> DEFINE fs == e_batch.frames
           size == e_batch.size
           h == HeaderOf(e_part)
           n == Len(fs)
<1>1. fs \in Seq(Frame) /\ size \in Nat /\ h \in {4, 10} /\ Whole(h, fs, size)
  <2>1. fs \in Seq(Frame) /\ size \in Nat BY DEF EtherInv, EtherTypes
  <2>2. h \in {4, 10} BY EtherHeader DEF EtherInv
  <2> QED BY <2>1, <2>2 DEF EtherInv, Walking
<1>2. PICK k \in 1..(n + 1) : e_offset = Heads(h, fs)[k] /\ e_due = Rest(fs, k) BY DEF EtherInv, Walking
<1>3. k \in 1..n => Heads(h, fs)[k] + h + fs[k].len <= size BY <1>1, WithinSize
<1>4. n \in Nat /\ DOMAIN fs = 1..n /\ \A j \in 1..n : fs[j] \in Frame BY <1>1, LenProperties, ElementOfSeq
<1>5. Heads(h, fs)[k] \in Nat BY <1>1, HeadsAre
<1>6. ASSUME k \in 1..n PROVE FALSE
  <2> DEFINE x == Heads(h, fs)[k]
             l == fs[k].len
  <2>1. x \in Nat BY <1>5
  <2>2. l \in Nat BY <1>4, <1>6 DEF Frame
  <2>3. x + h + l <= size BY <1>3, <1>6
  <2>4. x >= size BY <1>2
  <2>5. h \in Nat /\ h > 0 /\ size \in Nat BY <1>1
  <2> HIDE DEF x, l, size, h
  <2> QED BY <2>1, <2>2, <2>3, <2>4, <2>5
<1>7. k = n + 1 BY <1>4, <1>6
<1>8. Rest(fs, n + 1) = {} BY <1>4 DEF Rest
<1> QED BY <1>2, <1>7, <1>8

LEMMA RestNext ==
  ASSUME NEW fs \in Seq(Frame), Ascending(fs), NEW k \in 1..Len(fs)
  PROVE  /\ fs[k].bad => Rest(fs, k + 1) = Rest(fs, k)
         /\ ~fs[k].bad => /\ Rest(fs, k + 1) = Rest(fs, k) \ {fs[k].n} /\ fs[k].n \in Rest(fs, k)
                          /\ \A m \in Rest(fs, k) : fs[k].n <= m
<1> DEFINE n == Len(fs)
<1>1. n \in Nat /\ DOMAIN fs = 1..n /\ \A j \in 1..n : fs[j] \in Frame BY LenProperties, ElementOfSeq
<1>2. \A j \in 1..n : fs[j].n \in Nat BY <1>1 DEF Frame
<1>3. \A j \in 1..n : j > k => fs[k].n < fs[j].n BY <1>1 DEF Ascending
<1>4. \A j \in 1..n : j > k => fs[j].n # fs[k].n BY <1>2, <1>3
<1>5. \A j \in 1..n : j >= k + 1 <=> j >= k /\ j # k BY <1>1
<1>6. \A j \in 1..n : j >= k => fs[k].n <= fs[j].n BY <1>1, <1>2, <1>3
<1>7. \A m : m \in Rest(fs, k) <=> \E j \in 1..n : j >= k /\ ~fs[j].bad /\ m = fs[j].n BY <1>1 DEF Rest
<1>8. \A m : m \in Rest(fs, k + 1) <=> \E j \in 1..n : j >= k /\ j # k /\ ~fs[j].bad /\ m = fs[j].n
  BY <1>1, <1>5 DEF Rest
<1>9. k \in 1..n /\ k >= k /\ \A j \in 1..n : j >= k /\ j # k => fs[j].n # fs[k].n BY <1>1, <1>4
<1> HIDE DEF n
<1>10. ASSUME fs[k].bad PROVE Rest(fs, k + 1) = Rest(fs, k) BY <1>7, <1>8, <1>10, Zenon
<1>11. ASSUME ~fs[k].bad PROVE fs[k].n \in Rest(fs, k) BY <1>7, <1>9, <1>11, Zenon
<1>12. ASSUME NEW m \in Rest(fs, k) PROVE fs[k].n <= m
  <2>1. PICK j \in 1..n : j >= k /\ m = fs[j].n BY <1>7, <1>12, Zenon
  <2> QED BY <1>6, <2>1
<1>13. ASSUME ~fs[k].bad PROVE Rest(fs, k + 1) = Rest(fs, k) \ {fs[k].n}
  <2>1. ASSUME NEW m PROVE m \in Rest(fs, k + 1) <=> m \in Rest(fs, k) /\ m # fs[k].n
    <3>1. ASSUME m \in Rest(fs, k + 1) PROVE m \in Rest(fs, k) /\ m # fs[k].n
      <4>1. PICK j \in 1..n : j >= k /\ j # k /\ ~fs[j].bad /\ m = fs[j].n BY <1>8, <3>1
      <4> QED BY <1>7, <1>9, <4>1
    <3>2. ASSUME m \in Rest(fs, k), m # fs[k].n PROVE m \in Rest(fs, k + 1)
      <4>1. PICK j \in 1..n : j >= k /\ ~fs[j].bad /\ m = fs[j].n BY <1>7, <3>2
      <4>2. j # k BY <3>2, <4>1
      <4> QED BY <1>8, <4>1, <4>2
    <3> QED BY <3>1, <3>2
  <2> QED BY <2>1
<1> QED BY <1>10, <1>11, <1>12, <1>13

LEMMA WalkSame ==
  ASSUME Walking, UNCHANGED <<e_part, e_batch, e_offset, e_due>>, e_pending' => e_pending
  PROVE  Walking'
<1>1. e_part' = e_part /\ e_batch' = e_batch /\ e_offset' = e_offset /\ e_due' = e_due OBVIOUS
<1>2. e_batch'.frames = e_batch.frames /\ e_batch'.size = e_batch.size BY <1>1
<1> QED BY <1>1, <1>2 DEF Walking

\* The bring-up touches the chip, the stage and the link the stack is told of.
EtherNow == /\ e_chip \in [bir : BOOLEAN, on : BOOLEAN, link : BOOLEAN]
            /\ e_stage \in {"Reset", "Enable", "Multicast", "Await", "Run", "Parked"}
            /\ e_link \in {"Up", "Down"} /\ e_faults \in 0..Faults

LEMMA EtherLoops == ASSUME EtherInv, Ether!Loops, EtherNow', Ready' PROVE EtherInv'
<1>1. /\ e_part' = e_part /\ e_fifo' = e_fifo /\ e_pending' = e_pending /\ e_batch' = e_batch /\ e_offset' = e_offset
      /\ e_rxq' = e_rxq /\ e_txq' = e_txq /\ e_arrived' = e_arrived /\ e_sent' = e_sent /\ e_due' = e_due
  BY DEF Ether!Loops
<1>2. EtherTypes' BY <1>1, Zenon DEF EtherInv, EtherTypes, EtherNow
<1>3. Numbered' BY <1>1 DEF EtherInv, Numbered
<1>4. Walking' BY <1>1, WalkSame DEF EtherInv
<1> QED BY <1>2, <1>3, <1>4 DEF EtherInv

LEMMA EtherFails == EtherTypes /\ (Ether!Fails \/ UNCHANGED e_faults) => e_faults' \in 0..Faults
BY EtherAssumption DEF EtherTypes, Ether!Fails

LEMMA EtherBringUp == EtherInv /\ Ether!BringUp => EtherInv'
<1> SUFFICES ASSUME EtherInv, Ether!BringUp PROVE EtherInv' OBVIOUS
<1>1. EtherNow /\ Ready /\ e_pending \in BOOLEAN BY DEF EtherInv, EtherTypes, EtherNow
<1>2. Ether!Loops /\ e_faults' \in 0..Faults /\ e_pending' = e_pending
  <2>1. Ether!Loops /\ (Ether!Fails \/ UNCHANGED e_faults)
    BY DEF Ether!BringUp, Ether!Resets, Ether!Enables, Ether!StartFails, Ether!Multicasts, Ether!ReportsUp, Ether!WaitEnds
  <2>2. e_faults' \in 0..Faults BY <2>1, EtherFails DEF EtherInv
  <2> QED BY <2>1, <2>2 DEF Ether!Loops
<1> HIDE DEF EtherInv
<1>3. CASE Ether!Resets
  <2>1. e_stage = "Reset" /\ e_stage' = "Enable" /\ e_link' = e_link BY <1>3 DEF Ether!Resets
  <2>2. e_chip' \in [bir : BOOLEAN, on : BOOLEAN, link : BOOLEAN] /\ e_chip'.bir BY <1>1, <1>3 DEF Ether!Resets, EtherNow
  <2>3. EtherNow' BY <1>1, <1>2, <2>1, <2>2 DEF EtherNow
  <2>4. Ready' BY <1>1, <1>2, <2>1, <2>2 DEF Ready
  <2> QED BY <1>2, <2>3, <2>4, EtherLoops
<1>4. CASE Ether!Enables
  <2>1. e_stage = "Enable" /\ e_stage' = "Multicast" /\ e_link' = e_link BY <1>4 DEF Ether!Enables
  <2>2. e_chip' \in [bir : BOOLEAN, on : BOOLEAN, link : BOOLEAN] /\ e_chip'.bir = e_chip.bir /\ e_chip'.on
    BY <1>1, <1>4 DEF Ether!Enables, EtherNow
  <2>3. EtherNow' BY <1>1, <1>2, <2>1, <2>2 DEF EtherNow
  <2>4. Ready' BY <1>1, <1>2, <2>1, <2>2 DEF Ready
  <2> QED BY <1>2, <2>3, <2>4, EtherLoops
<1>5. CASE Ether!StartFails
  <2>1. e_stage \in {"Reset", "Enable"} /\ e_stage' = "Parked" /\ e_link' = "Down" /\ e_chip' = e_chip
    BY <1>5 DEF Ether!StartFails
  <2>2. EtherNow' BY <1>1, <1>2, <2>1 DEF EtherNow
  <2>3. Ready' BY <1>1, <1>2, <2>1 DEF Ready
  <2> QED BY <1>2, <2>2, <2>3, EtherLoops
<1>6. CASE Ether!Multicasts
  <2>1. e_stage = "Multicast" /\ e_stage' = "Await" /\ e_link' = e_link /\ e_chip' = e_chip BY <1>6 DEF Ether!Multicasts
  <2>2. EtherNow' BY <1>1, <1>2, <2>1 DEF EtherNow
  <2>3. Ready' BY <1>1, <1>2, <2>1 DEF Ready
  <2> QED BY <1>2, <2>2, <2>3, EtherLoops
<1>7. CASE Ether!ReportsUp \/ Ether!WaitEnds
  <2>1. e_stage = "Await" /\ e_stage' = "Run" /\ e_link' = "Up" /\ e_chip' = e_chip
    BY <1>7 DEF Ether!ReportsUp, Ether!WaitEnds
  <2>2. EtherNow' BY <1>1, <1>2, <2>1 DEF EtherNow
  <2>3. Ready' BY <1>1, <1>2, <2>1 DEF Ready
  <2> QED BY <1>2, <2>2, <2>3, EtherLoops
<1> QED BY <1>3, <1>4, <1>5, <1>6, <1>7 DEF Ether!BringUp

LEMMA EtherSubmit == EtherInv /\ Ether!Submit => EtherInv' 
<1> SUFFICES ASSUME EtherInv, Ether!Submit PROVE EtherInv' OBVIOUS
<1>1. /\ e_stage = "Run" /\ e_offset >= e_batch.size /\ e_pending' = TRUE /\ e_batch' = Ether!Empty /\ e_offset' = 0
      /\ UNCHANGED <<e_fifo, e_rxq, e_faults, e_due, e_part, e_stage, e_chip, e_link, e_txq, e_arrived, e_sent>>
  BY DEF Ether!Submit, Ether!Rest
<1>2. e_due = {} BY <1>1, DrainEnds
<1>3. e_batch'.frames = <<>> /\ e_batch'.size = 0 /\ e_batch' \in [frames : Seq(Frame), size : Nat]
  <2>1. <<>> \in Seq(Frame) BY EmptySeq
  <2> QED BY <1>1, <2>1 DEF Ether!Empty
<1>4. EtherTypes'
  <2>1. e_offset' \in Nat /\ e_pending' \in BOOLEAN BY <1>1
  <2> QED BY <1>1, <1>3, <2>1, Zenon DEF EtherInv, EtherTypes
<1>5. Ready' BY <1>1 DEF EtherInv, Ready
<1>6. HeaderOf(e_part') \in {4, 10} BY <1>1, EtherHeader DEF EtherInv
<1>7. Numbered' BY <1>1, <1>3, <1>6, WalkEmpty DEF EtherInv, Numbered
<1>8. Walking'
  <2>1. 1 \in 1..(Len(<<>>) + 1) BY <1>6, WalkEmpty
  <2> QED BY <1>1, <1>2, <1>3, <1>6, <2>1, WalkEmpty DEF Walking
<1> QED BY <1>4, <1>5, <1>7, <1>8 DEF EtherInv

\* A frame found is stepped over: its header is followed by the next one's, and it is given or damaged.
LEMMA EtherWalks ==
  ASSUME EtherInv, Ether!Draining, UNCHANGED <<e_fifo, e_pending, e_batch, e_faults>>, Ether!Rest,
         e_offset' = Ether!NextOffset(Ether!This.len), e_rxq' \in Seq(Nat), Len(e_rxq') <= NetQueue,
         e_due' = IF Ether!This.bad THEN e_due ELSE e_due \ {Ether!This.n}
  PROVE  EtherInv'
<1> DEFINE fs == e_batch.frames
           h == HeaderOf(e_part)
<1>1. e_offset < e_batch.size BY DEF Ether!Draining
<1>2. PICK k \in 1..Len(fs) :
        /\ e_offset = Heads(h, fs)[k] /\ e_due = Rest(fs, k) /\ Ether!This = fs[k]
        /\ Ether!NextOffset(Ether!This.len) = Heads(h, fs)[k + 1]
  BY <1>1, DrainFinds
<1>3. fs \in Seq(Frame) /\ Ascending(fs) /\ h \in {4, 10}
  <2>1. h \in {4, 10} BY EtherHeader DEF EtherInv
  <2> QED BY <2>1 DEF EtherInv, EtherTypes, Numbered
<1>4. e_due' = Rest(fs, k + 1) BY <1>2, <1>3, RestNext
<1>5. k + 1 \in 1..(Len(fs) + 1) /\ e_offset' = Heads(h, fs)[k + 1] /\ e_offset' \in Nat
  <2>1. Len(fs) \in Nat BY <1>3, LenProperties
  <2>2. k + 1 \in 1..(Len(fs) + 1) BY <2>1
  <2> QED BY <1>2, <1>3, <2>2, HeadsAre
<1>6. /\ UNCHANGED <<e_fifo, e_pending, e_batch, e_faults, e_part, e_stage, e_chip, e_link, e_txq, e_arrived, e_sent>>
  BY DEF Ether!Rest
<1>7. EtherTypes' BY <1>5, <1>6, Zenon DEF EtherInv, EtherTypes
<1>8. Ready' BY <1>6 DEF EtherInv, Ready
<1>9. Numbered' BY <1>6 DEF EtherInv, Numbered
<1>10. Walking'
  <2>1. e_part' = e_part /\ e_batch' = e_batch /\ e_pending' = e_pending BY <1>6
  <2>2. Whole(h, fs, e_batch.size) /\ (e_pending => fs = <<>>) BY DEF EtherInv, Walking
  <2> HIDE DEF h
  <2>3. HeaderOf(e_part') = h /\ e_batch'.frames = fs /\ e_batch'.size = e_batch.size BY <2>1 DEF h
  <2> HIDE DEF fs
  <2> QED BY <1>4, <1>5, <2>1, <2>2, <2>3 DEF Walking
<1> QED BY <1>7, <1>8, <1>9, <1>10 DEF EtherInv

LEMMA EtherSkips == EtherInv /\ Ether!SkipsBad => EtherInv'
<1> SUFFICES ASSUME EtherInv, Ether!SkipsBad PROVE EtherInv' OBVIOUS
<1>1. /\ Ether!Draining /\ UNCHANGED <<e_fifo, e_pending, e_batch, e_faults>> /\ Ether!Rest
      /\ e_offset' = Ether!NextOffset(Ether!This.len) /\ Ether!This.bad /\ e_due' = e_due /\ e_rxq' = e_rxq
  BY DEF Ether!SkipsBad
<1>2. e_rxq' \in Seq(Nat) /\ Len(e_rxq') <= NetQueue BY <1>1 DEF EtherInv, EtherTypes
<1>3. e_due' = IF Ether!This.bad THEN e_due ELSE e_due \ {Ether!This.n} BY <1>1
<1> QED BY <1>1, <1>2, <1>3, EtherWalks

LEMMA EtherDelivers == EtherInv /\ Ether!Delivers => EtherInv'
<1> SUFFICES ASSUME EtherInv, Ether!Delivers PROVE EtherInv' OBVIOUS
<1>1. /\ Ether!Draining /\ UNCHANGED <<e_fifo, e_pending, e_batch, e_faults>> /\ Ether!Rest
      /\ e_offset' = Ether!NextOffset(Ether!This.len) /\ ~Ether!This.bad /\ e_due' = e_due \ {Ether!This.n}
      /\ e_rxq' = Append(e_rxq, Ether!This.n) /\ Len(e_rxq) < NetQueue
  BY DEF Ether!Delivers
<1>2. e_rxq' \in Seq(Nat) /\ Len(e_rxq') <= NetQueue
  <2>1. Ether!This \in Frame
    <3>1. e_offset < e_batch.size BY <1>1 DEF Ether!Draining
    <3>2. PICK k \in 1..Len(e_batch.frames) : Ether!This = e_batch.frames[k] /\ e_batch.frames[k] \in Frame
      BY <3>1, DrainFinds
    <3> QED BY <3>2
  <2>2. Ether!This.n \in Nat BY <2>1 DEF Frame
  <2>3. e_rxq \in Seq(Nat) BY DEF EtherInv, EtherTypes
  <2> DEFINE m == Ether!This.n
  <2> HIDE DEF m
  <2>4. m \in Nat /\ e_rxq' = Append(e_rxq, m) BY <1>1, <2>2 DEF m
  <2>5. e_rxq' \in Seq(Nat) /\ Len(e_rxq') = Len(e_rxq) + 1 /\ Len(e_rxq) \in Nat BY <2>3, <2>4, AtEnd
  <2> QED BY <1>1, <2>5, EtherAssumption
<1>3. e_due' = IF Ether!This.bad THEN e_due ELSE e_due \ {Ether!This.n} BY <1>1
<1> QED BY <1>1, <1>2, <1>3, EtherWalks

LEMMA Cut ==
  ASSUME NEW fs \in Seq(Frame), NEW n \in 0..Len(fs), Ascending(fs)
  PROVE  /\ SubSeq(fs, n + 1, Len(fs)) \in Seq(Frame) /\ SubSeq(fs, 1, n) \in Seq(Frame)
         /\ Len(SubSeq(fs, n + 1, Len(fs))) <= Len(fs) /\ Len(SubSeq(fs, 1, n)) = n
         /\ Ascending(SubSeq(fs, n + 1, Len(fs))) /\ Ascending(SubSeq(fs, 1, n))
         /\ \A k \in DOMAIN SubSeq(fs, n + 1, Len(fs)) : \E j \in DOMAIN fs : SubSeq(fs, n + 1, Len(fs))[k] = fs[j]
<1>1. Len(fs) \in Nat /\ DOMAIN fs = 1..Len(fs) /\ \A j \in 1..Len(fs) : fs[j] \in Frame BY LenProperties, ElementOfSeq
<1> DEFINE a == SubSeq(fs, n + 1, Len(fs))
           b == SubSeq(fs, 1, n)
<1>2. a \in Seq(Frame) /\ Len(a) = Len(fs) - n /\ \A k \in 1..(Len(fs) - n) : a[k] = fs[n + k]
  <2>1. n \in Nat /\ n + 1 \in 1..(Len(fs) + 1) /\ Len(fs) \in 0..Len(fs) BY <1>1
  <2> DEFINE l == Len(fs)
             m == n + 1
  <2>2. m \in 1..(l + 1) /\ l \in (m - 1)..l /\ l \in Nat /\ n \in Nat /\ n <= l BY <1>1, <2>1
  <2>3. a = SubSeq(fs, m, l) OBVIOUS
  <2> HIDE DEF l, a
  <2>4. m \in 1..(Len(fs) + 1) /\ l \in (m - 1)..Len(fs) BY <2>2 DEF l
  <2>5. SubSeq(fs, m, l) \in Seq(Frame) /\ Len(SubSeq(fs, m, l)) = (l - m) + 1
        /\ \A i \in 1..((l - m) + 1) : SubSeq(fs, m, l)[i] = fs[(m + i) - 1]
    BY <2>4, SubSeqProperties
  <2>6. (l - m) + 1 = l - n /\ \A i \in 1..(l - n) : (m + i) - 1 = n + i BY <2>2
  <2> QED BY <2>3, <2>5, <2>6 DEF l
<1>3. b \in Seq(Frame) /\ Len(b) = n /\ \A k \in 1..n : b[k] = fs[k]
  BY <1>1
<1>4. DOMAIN a = 1..(Len(fs) - n) /\ DOMAIN b = 1..n BY <1>2, <1>3, LenProperties
<1> HIDE DEF a, b
<1>5. Ascending(a)
  <2> SUFFICES ASSUME NEW j \in 1..(Len(fs) - n), NEW k \in 1..(Len(fs) - n), j < k PROVE a[j].n < a[k].n
    BY <1>4 DEF Ascending
  <2>1. n + j \in DOMAIN fs /\ n + k \in DOMAIN fs /\ n + j < n + k BY <1>1
  <2> QED BY <1>2, <2>1 DEF Ascending
<1>6. Ascending(b)
  <2> SUFFICES ASSUME NEW j \in 1..n, NEW k \in 1..n, j < k PROVE b[j].n < b[k].n
    BY <1>4 DEF Ascending
  <2>1. j \in DOMAIN fs /\ k \in DOMAIN fs BY <1>1
  <2> QED BY <1>3, <2>1 DEF Ascending
<1>7. ASSUME NEW k \in DOMAIN a PROVE \E j \in DOMAIN fs : a[k] = fs[j]
  <2>1. n + k \in DOMAIN fs BY <1>1, <1>4
  <2> QED BY <1>2, <1>4, <2>1
<1>8. Len(a) <= Len(fs) BY <1>1, <1>2
<1> QED BY <1>2, <1>3, <1>5, <1>6, <1>7, <1>8, Zenon DEF a, b

LEMMA EtherAt == EtherInv => \A fs : Ether!At(fs) = Heads(HeaderOf(e_part), fs)
BY Zenon DEF Ether!At, Heads, Stand, Ether!Header, HeaderOf, Ether!Aligned, Next4

LEMMA SoundIs == ASSUME NEW fs \in Seq(Frame) PROVE Ether!Sound(fs) = Rest(fs, 1)
<1>1. DOMAIN fs = 1..Len(fs) /\ Len(fs) \in Nat BY LenProperties
<1>2. {j \in DOMAIN fs : ~fs[j].bad} = {i \in DOMAIN fs : i >= 1 /\ ~fs[i].bad} BY <1>1
<1> QED BY <1>2 DEF Ether!Sound, Rest

LEMMA EtherCompletes == EtherInv /\ Ether!Completes => EtherInv'
<1> SUFFICES ASSUME EtherInv, Ether!Completes PROVE EtherInv' OBVIOUS
<1> DEFINE h == HeaderOf(e_part)
<1>1. /\ e_pending /\ e_pending' = FALSE
      /\ UNCHANGED <<e_rxq, e_faults, e_offset, e_part, e_stage, e_chip, e_link, e_txq, e_arrived, e_sent>>
  BY DEF Ether!Completes, Ether!Rest
<1>2. Ready' BY <1>1 DEF EtherInv, Ready
<1>3. CASE UNCHANGED <<e_fifo, e_batch, e_due>>
  <2>1. EtherTypes' BY <1>1, <1>3 DEF EtherInv, EtherTypes
  <2>2. Numbered' BY <1>1, <1>3 DEF EtherInv, Numbered
  <2>3. Walking' BY <1>1, <1>3, WalkSame DEF EtherInv
  <2> QED BY <1>2, <2>1, <2>2, <2>3 DEF EtherInv
<1>4. ASSUME NEW n \in 1..Len(e_fifo), e_fifo' = SubSeq(e_fifo, n + 1, Len(e_fifo)),
             e_due' = Ether!Sound(SubSeq(e_fifo, 1, n)),
             NEW size \in {Ether!At(SubSeq(e_fifo, 1, n))[n] + Ether!Header + SubSeq(e_fifo, 1, n)[n].len,
                            Ether!Aligned(Ether!At(SubSeq(e_fifo, 1, n))[n] + Ether!Header + SubSeq(e_fifo, 1, n)[n].len)},
             e_batch' = [frames |-> SubSeq(e_fifo, 1, n), size |-> size]
      PROVE  EtherInv'
  <2> DEFINE fs == SubSeq(e_fifo, 1, n)
             end == Heads(h, fs)[n] + h + fs[n].len
  <2>1. e_fifo \in Seq(Frame) /\ Ascending(e_fifo) BY DEF EtherInv, EtherTypes, Numbered
  <2>2. Len(e_fifo) \in Nat /\ n \in 0..Len(e_fifo) /\ n \in Nat /\ n # 0 BY <2>1, LenProperties
  <2>3. /\ e_fifo' \in Seq(Frame) /\ Len(e_fifo') <= Len(e_fifo) /\ Ascending(e_fifo')
        /\ fs \in Seq(Frame) /\ Len(fs) = n /\ Ascending(fs)
        /\ \A k \in DOMAIN e_fifo' : \E j \in DOMAIN e_fifo : e_fifo'[k] = e_fifo[j]
    BY <1>4, <2>1, <2>2, Cut
  <2>4. h \in {4, 10} /\ Ether!Header = h /\ Ether!At(fs) = Heads(h, fs) BY EtherHeader, EtherAt DEF EtherInv
  <2>5. size \in {end, Next4(end)} BY <1>4, <2>4 DEF Ether!Aligned, Next4
  <2>6. end \in Nat
    <3>1. n \in 1..Len(fs) /\ n \in 1..(Len(fs) + 1) BY <2>2, <2>3
    <3>2. Heads(h, fs)[n] \in Nat BY <2>3, <2>4, <3>1, HeadsAre
    <3>3. fs[n] \in Frame BY <2>3, <3>1, ElementOfSeq
    <3>4. fs[n].len \in Nat BY <3>3 DEF Frame
    <3> DEFINE x == Heads(h, fs)[n]
               l == fs[n].len
    <3>5. x \in Nat /\ l \in Nat /\ h \in Nat BY <2>4, <3>2, <3>4
    <3>6. end = x + h + l OBVIOUS
    <3> HIDE DEF x, l, h, end
    <3> QED BY <3>5, <3>6
  <2>7. Whole(h, fs, size) BY <2>2, <2>3, <2>5 DEF Whole
  <2>8. Rest(fs, 1) = e_due' BY <1>4, <2>3, SoundIs
  <2>9. e_batch'.frames = fs /\ e_batch'.size = size /\ size \in Nat
    <3>1. Next4(end) \in Nat BY <2>6, Fours
    <3> QED BY <1>4, <2>5, <2>6, <3>1
  <2>10. e_offset = 0
    <3>1. e_batch.frames = <<>> /\ <<>> \in Seq(Frame) /\ Len(<<>>) = 0 BY <1>1, EmptySeq DEF EtherInv, Walking
    <3>2. PICK k \in 1..(Len(<<>>) + 1) : e_offset = Heads(h, <<>>)[k] BY <3>1 DEF EtherInv, Walking
    <3>3. k = 1 BY <3>1
    <3> QED BY <2>4, <3>2, <3>3, WalkEmpty
  <2>11. EtherTypes'
    <3>1. e_batch' \in [frames : Seq(Frame), size : Nat] BY <1>4, <2>3, <2>9
    <3>2. e_fifo' \in Seq(Frame) /\ Len(e_fifo') <= Fifo
      <4>1. Len(e_fifo) <= Fifo /\ Len(e_fifo') \in Nat BY <2>3, LenProperties DEF EtherInv, EtherTypes
      <4> QED BY <2>2, <2>3, <4>1, EtherAssumption
    <3> QED BY <1>1, <3>1, <3>2, Zenon DEF EtherInv, EtherTypes
  <2>12. Numbered' BY <1>1, <2>3, <2>9 DEF EtherInv, Numbered
  <2>13. Walking'
    <3>1. HeaderOf(e_part') = h BY <1>1
    <3>2. 1 \in 1..(Len(fs) + 1) BY <2>2, <2>3
    <3>3. e_offset' = Heads(h, fs)[1] BY <1>1, <2>3, <2>4, <2>10, HeadsAre
    <3> HIDE DEF h, fs
    <3> QED BY <1>1, <2>7, <2>8, <2>9, <3>1, <3>2, <3>3 DEF Walking
  <2> QED BY <1>2, <2>11, <2>12, <2>13 DEF EtherInv
<1> QED BY <1>3, <1>4 DEF Ether!Completes

LEMMA EtherTransferFails == EtherInv /\ Ether!TransferFails => EtherInv'
<1> SUFFICES ASSUME EtherInv, Ether!TransferFails PROVE EtherInv' OBVIOUS
<1>1. /\ e_pending /\ Ether!Fails /\ e_pending' = FALSE
      /\ UNCHANGED <<e_batch, e_offset, e_rxq, e_due, e_part, e_stage, e_chip, e_link, e_txq, e_arrived, e_sent>>
  BY DEF Ether!TransferFails, Ether!Rest
<1>2. PICK n \in 0..Len(e_fifo) : e_fifo' = SubSeq(e_fifo, n + 1, Len(e_fifo)) BY DEF Ether!TransferFails
<1>3. e_fifo \in Seq(Frame) /\ Ascending(e_fifo) BY DEF EtherInv, EtherTypes, Numbered
<1>4. /\ e_fifo' \in Seq(Frame) /\ Len(e_fifo') <= Len(e_fifo) /\ Ascending(e_fifo')
      /\ \A k \in DOMAIN e_fifo' : \E j \in DOMAIN e_fifo : e_fifo'[k] = e_fifo[j]
  BY <1>2, <1>3, Cut
<1>5. Len(e_fifo') <= Fifo
  <2>1. Len(e_fifo) <= Fifo /\ Len(e_fifo) \in Nat /\ Len(e_fifo') \in Nat BY <1>3, <1>4, LenProperties DEF EtherInv, EtherTypes
  <2> QED BY <1>4, <2>1, EtherAssumption
<1>6. e_faults' \in 0..Faults BY <1>1, EtherFails DEF EtherInv
<1>7. EtherTypes' BY <1>1, <1>4, <1>5, <1>6 DEF EtherInv, EtherTypes
<1>8. Ready' BY <1>1 DEF EtherInv, Ready
<1>9. Numbered' BY <1>1, <1>4 DEF EtherInv, Numbered
<1>10. Walking' BY <1>1, WalkSame DEF EtherInv
<1> QED BY <1>7, <1>8, <1>9, <1>10 DEF EtherInv

LEMMA EtherQueues ==
  ASSUME EtherInv, UNCHANGED <<e_part, e_stage, e_chip, e_fifo, e_link, e_pending, e_batch, e_offset, e_arrived, e_due>>,
         e_rxq' \in Seq(Nat), Len(e_rxq') <= NetQueue, e_txq' \in Seq(Nat), Len(e_txq') <= NetQueue,
         e_sent' \in 0..(NetQueue + 1), e_faults' \in 0..Faults
  PROVE  EtherInv'
<1>1. EtherTypes' BY DEF EtherInv, EtherTypes
<1>2. Ready' BY DEF EtherInv, Ready
<1>3. Numbered' BY DEF EtherInv, Numbered
<1>4. Walking' BY WalkSame DEF EtherInv
<1> QED BY <1>1, <1>2, <1>3, <1>4 DEF EtherInv

LEMMA EtherShorter ==
  ASSUME NEW s \in Seq(Nat), s # <<>>, Len(s) <= NetQueue PROVE Tail(s) \in Seq(Nat) /\ Len(Tail(s)) <= NetQueue
<1>1. Tail(s) \in Seq(Nat) /\ Len(Tail(s)) = Len(s) - 1 /\ Len(s) \in Nat \ {0} BY AtFront
<1> QED BY <1>1, EtherAssumption

LEMMA EtherStack == EtherInv /\ (Ether!Transmits \/ Ether!StackTakes \/ Ether!StackSends) => EtherInv'
<1> SUFFICES ASSUME EtherInv, Ether!Transmits \/ Ether!StackTakes \/ Ether!StackSends PROVE EtherInv' OBVIOUS
<1>1. /\ e_rxq \in Seq(Nat) /\ Len(e_rxq) <= NetQueue /\ e_txq \in Seq(Nat) /\ Len(e_txq) <= NetQueue
      /\ e_sent \in 0..(NetQueue + 1) /\ e_faults \in 0..Faults
  BY DEF EtherInv, EtherTypes
<1>2. CASE Ether!Transmits
  <2>1. e_txq # <<>> /\ e_txq' = Tail(e_txq) /\ (Ether!Fails \/ UNCHANGED e_faults)
        /\ UNCHANGED <<e_part, e_stage, e_chip, e_fifo, e_link, e_pending, e_batch, e_offset, e_rxq, e_arrived, e_sent, e_due>>
    BY <1>2 DEF Ether!Transmits
  <2>2. e_txq' \in Seq(Nat) /\ Len(e_txq') <= NetQueue BY <1>1, <2>1, EtherShorter
  <2>3. e_faults' \in 0..Faults BY <2>1, EtherFails DEF EtherInv
  <2> QED BY <1>1, <2>1, <2>2, <2>3, EtherQueues
<1>3. CASE Ether!StackTakes
  <2>1. e_rxq # <<>> /\ e_rxq' = Tail(e_rxq)
        /\ UNCHANGED <<e_part, e_stage, e_chip, e_fifo, e_link, e_pending, e_batch, e_offset, e_txq, e_arrived, e_sent,
                       e_faults, e_due>>
    BY <1>3 DEF Ether!StackTakes
  <2>2. e_rxq' \in Seq(Nat) /\ Len(e_rxq') <= NetQueue BY <1>1, <2>1, EtherShorter
  <2> QED BY <1>1, <2>1, <2>2, EtherQueues
<1>4. CASE Ether!StackSends
  <2>1. e_sent <= NetQueue /\ Len(e_txq) < NetQueue /\ e_sent' = e_sent + 1 /\ e_txq' = Append(e_txq, e_sent')
        /\ UNCHANGED <<e_part, e_stage, e_chip, e_fifo, e_link, e_pending, e_batch, e_offset, e_rxq, e_arrived, e_faults, e_due>>
    BY <1>4 DEF Ether!StackSends
  <2>2. e_sent' \in 0..(NetQueue + 1) /\ e_sent' \in Nat BY <1>1, <2>1, EtherAssumption
  <2>3. e_txq' \in Seq(Nat) /\ Len(e_txq') = Len(e_txq) + 1 /\ Len(e_txq) \in Nat BY <1>1, <2>1, <2>2, AtEnd
  <2>4. Len(e_txq') <= NetQueue BY <2>1, <2>3, EtherAssumption
  <2> QED BY <1>1, <2>1, <2>2, <2>3, <2>4, EtherQueues
<1> QED BY <1>2, <1>3, <1>4

LEMMA EtherCable == EtherInv /\ Ether!Cable => EtherInv'
<1> SUFFICES ASSUME EtherInv, Ether!Cable PROVE EtherInv' OBVIOUS
<1>1. /\ UNCHANGED <<e_part, e_stage, e_fifo, e_link, e_pending, e_batch, e_offset, e_rxq, e_txq, e_arrived, e_sent,
                     e_faults, e_due>>
      /\ e_chip' = [e_chip EXCEPT !.link = ~@]
  BY DEF Ether!Cable
<1>2. e_chip' \in [bir : BOOLEAN, on : BOOLEAN, link : BOOLEAN] /\ e_chip'.bir = e_chip.bir /\ e_chip'.on = e_chip.on
  BY <1>1 DEF EtherInv, EtherTypes
<1>3. EtherTypes' BY <1>1, <1>2, Zenon DEF EtherInv, EtherTypes
<1>4. Ready' BY <1>1, <1>2 DEF EtherInv, Ready
<1>5. Numbered' BY <1>1 DEF EtherInv, Numbered
<1>6. Walking' BY <1>1, WalkSame DEF EtherInv
<1> QED BY <1>3, <1>4, <1>5, <1>6 DEF EtherInv

LEMMA EtherArrives == EtherInv /\ Ether!Arrives => EtherInv'
<1> SUFFICES ASSUME EtherInv, Ether!Arrives PROVE EtherInv' OBVIOUS
<1>1. /\ e_arrived < Frames /\ e_arrived' = e_arrived + 1
      /\ UNCHANGED <<e_part, e_stage, e_chip, e_link, e_pending, e_batch, e_offset, e_rxq, e_txq, e_sent, e_faults, e_due>>
  BY DEF Ether!Arrives
<1>2. e_arrived \in Nat /\ e_arrived' \in 0..Frames /\ e_fifo \in Seq(Frame) /\ Len(e_fifo) <= Fifo
  BY <1>1, EtherAssumption DEF EtherInv, EtherTypes
<1>3. PICK len \in Lengths, bad \in BOOLEAN :
        e_fifo' = IF Len(e_fifo) < Fifo THEN Append(e_fifo, [n |-> e_arrived', len |-> len, bad |-> bad]) ELSE e_fifo
  BY DEF Ether!Arrives
<1>4. Ascending(e_fifo) /\ \A k \in DOMAIN e_fifo : e_fifo[k].n <= e_arrived BY DEF EtherInv, Numbered
<1>5. e_fifo' \in Seq(Frame) /\ Len(e_fifo') <= Fifo /\ Ascending(e_fifo') /\ \A k \in DOMAIN e_fifo' : e_fifo'[k].n <= e_arrived'
  <2> DEFINE e == [n |-> e_arrived', len |-> len, bad |-> bad]
             m == Len(e_fifo)
  <2>1. e \in Frame /\ e.n = e_arrived + 1 BY <1>1, <1>2, EtherAssumption DEF Frame
  <2>2. m \in Nat /\ DOMAIN e_fifo = 1..m /\ \A k \in 1..m : e_fifo[k] \in Frame BY <1>2, LenProperties, ElementOfSeq
  <2>3. \A k \in 1..m : e_fifo[k].n \in Nat BY <2>2 DEF Frame
  <2>4. \A k \in 1..m : e_fifo[k].n < e_arrived + 1 BY <1>2, <1>4, <2>2, <2>3
  <2>5. CASE m < Fifo
    <3> HIDE DEF e
    <3>1. e_fifo' = Append(e_fifo, e) BY <1>3, <2>5 DEF e
    <3>2. /\ Append(e_fifo, e) \in Seq(Frame) /\ Len(Append(e_fifo, e)) = m + 1 /\ DOMAIN Append(e_fifo, e) = 1..(m + 1)
          /\ \A k \in 1..m : Append(e_fifo, e)[k] = e_fifo[k]
          /\ Append(e_fifo, e)[m + 1] = e
      BY <1>2, <2>1, AtEnd
    <3> HIDE DEF m
    <3>3. /\ e_fifo' \in Seq(Frame) /\ Len(e_fifo') = m + 1 /\ DOMAIN e_fifo' = 1..(m + 1)
          /\ \A k \in 1..m : e_fifo'[k] = e_fifo[k]
          /\ e_fifo'[m + 1] = e
      BY <3>1, <3>2
    <3>4. \A k \in 1..(m + 1) : k \in 1..m \/ k = m + 1 BY <2>2
    <3>5. \A j, k \in 1..(m + 1) : j < k => j \in 1..m BY <2>2
    <3>6. \A k \in 1..m : e_fifo'[k].n < e_arrived + 1 /\ e_fifo'[k].n \in Nat BY <2>3, <2>4, <3>3
    <3>7. Ascending(e_fifo')
      <4> SUFFICES ASSUME NEW j \in 1..(m + 1), NEW k \in 1..(m + 1), j < k PROVE e_fifo'[j].n < e_fifo'[k].n
        BY <3>3 DEF Ascending
      <4>1. CASE k \in 1..m BY <1>4, <2>2, <3>3, <3>5, <4>1 DEF Ascending
      <4>2. CASE k = m + 1 BY <2>1, <3>3, <3>5, <3>6, <4>2
      <4> QED BY <3>4, <4>1, <4>2
    <3>8. \A k \in DOMAIN e_fifo' : e_fifo'[k].n <= e_arrived'
      <4> SUFFICES ASSUME NEW k \in 1..(m + 1) PROVE e_fifo'[k].n <= e_arrived' BY <3>3
      <4>1. CASE k \in 1..m BY <1>1, <1>2, <3>6, <4>1
      <4>2. CASE k = m + 1 BY <1>1, <1>2, <2>1, <3>3, <4>2
      <4> QED BY <3>4, <4>1, <4>2
    <3>9. Len(e_fifo') <= Fifo BY <2>2, <2>5, <3>3, EtherAssumption
    <3> QED BY <3>3, <3>7, <3>8, <3>9
  <2>6. CASE ~(m < Fifo)
    <3>1. e_fifo' = e_fifo BY <1>3, <2>6
    <3>2. \A k \in 1..m : e_fifo[k].n <= e_arrived + 1 BY <1>2, <1>4, <2>2, <2>3
    <3> QED BY <1>1, <1>2, <1>4, <2>2, <3>1, <3>2
  <2> QED BY <2>5, <2>6
<1>6. EtherTypes' BY <1>1, <1>2, <1>5, Zenon DEF EtherInv, EtherTypes
<1>7. Ready' BY <1>1 DEF EtherInv, Ready
<1>8. Numbered' BY <1>1, <1>5 DEF EtherInv, Numbered
<1>9. Walking' BY <1>1, WalkSame DEF EtherInv
<1> QED BY <1>6, <1>7, <1>8, <1>9 DEF EtherInv

LEMMA EtherStops == EtherInv => ~Ether!StopsAt
<1> SUFFICES ASSUME EtherInv, Ether!StopsAt PROVE FALSE OBVIOUS
<1>1. e_offset < e_batch.size /\ ~Ether!Plausible BY DEF Ether!StopsAt, Ether!Draining
<1> QED BY <1>1, DrainFinds

LEMMA EtherStep == EtherInv /\ [Ether!Next]_eVars => EtherInv'
<1> SUFFICES ASSUME EtherInv, [Ether!Next]_eVars PROVE EtherInv' OBVIOUS
<1>1. CASE UNCHANGED eVars
  <2>1. UNCHANGED <<e_part, e_stage, e_chip, e_fifo, e_link, e_pending, e_batch, e_offset, e_arrived, e_due,
                    e_rxq, e_txq, e_sent, e_faults>> BY <1>1 DEF eVars
  <2>2. EtherTypes' BY <2>1 DEF EtherInv, EtherTypes
  <2>3. Ready' BY <2>1 DEF EtherInv, Ready
  <2>4. Numbered' BY <2>1 DEF EtherInv, Numbered
  <2>5. Walking' BY <2>1, WalkSame DEF EtherInv
  <2> QED BY <2>2, <2>3, <2>4, <2>5 DEF EtherInv
<1>2. CASE Ether!BringUp BY <1>2, EtherBringUp
<1>3. CASE Ether!Receive
  BY <1>3, EtherSubmit, EtherCompletes, EtherTransferFails, EtherStops, EtherSkips, EtherDelivers DEF Ether!Receive
<1>4. CASE Ether!Transmits \/ Ether!StackTakes \/ Ether!StackSends BY <1>4, EtherStack
<1>5. CASE Ether!Arrives BY <1>5, EtherArrives
<1>6. CASE Ether!Cable BY <1>6, EtherCable
<1> QED BY <1>1, <1>2, <1>3, <1>4, <1>5, <1>6 DEF Ether!Next

LEMMA EtherSays ==
  ASSUME EtherInv
  PROVE  /\ Ether!TypeOK /\ Ether!UpIsReady /\ Ether!Drained
         /\ [Ether!Next]_eVars => (Len(e_rxq') > Len(e_rxq) =>
              e_rxq'[Len(e_rxq')] \in e_due /\ \A n \in e_due : e_rxq'[Len(e_rxq')] <= n)
<1>1. Ether!TypeOK
  <2> DEFINE fs == e_batch.frames
             size == e_batch.size
             h == HeaderOf(e_part)
  <2>1. fs \in Seq(Frame) /\ size \in Nat /\ h \in {4, 10} /\ Ether!Header = h /\ Whole(h, fs, size)
    <3>1. fs \in Seq(Frame) /\ size \in Nat BY DEF EtherInv, EtherTypes
    <3>2. h \in {4, 10} /\ Ether!Header = h BY EtherHeader DEF EtherInv
    <3> QED BY <3>1, <3>2 DEF EtherInv, Walking
  <2>2. PICK k \in 1..(Len(fs) + 1) : e_offset = Heads(h, fs)[k] BY DEF EtherInv, Walking
  <2>3. /\ k \in 1..Len(fs) => Heads(h, fs)[k] + h + fs[k].len <= size
        /\ k = Len(fs) + 1 => Heads(h, fs)[k] <= Next4(size)
    BY <2>1, WithinSize
  <2>4. Heads(h, fs)[k] \in Nat BY <2>1, HeadsAre
  <2>5. e_offset <= Next4(size)
    <3> DEFINE o == Heads(h, fs)[k]
               l == fs[k].len
    <3>1. CASE k \in 1..Len(fs)
      <4>1. fs[k] \in Frame BY <2>1, <3>1, ElementOfSeq
      <4>2. l \in Nat BY <4>1 DEF Frame
      <4>3. o \in Nat /\ h \in Nat /\ o + h + l <= size /\ e_offset = o BY <2>1, <2>2, <2>3, <2>4, <3>1
      <4>4. size \in Nat /\ Next4(size) \in Nat /\ size <= Next4(size) BY <2>1, Fours
      <4> DEFINE q == Next4(size)
      <4>5. q \in Nat /\ size <= q BY <4>4
      <4> HIDE DEF o, l, h, size, q
      <4>6. e_offset <= q BY <4>2, <4>3, <4>4, <4>5
      <4> QED BY <4>6 DEF q
    <3>2. Len(fs) \in Nat BY <2>1, LenProperties
    <3>3. CASE k = Len(fs) + 1 BY <2>2, <2>3, <3>3
    <3> QED BY <3>1, <3>2, <3>3
  <2>6. e_offset \in 0..(Ether!Aligned(e_batch.size) + Ether!Header + 16)
    <3>a. e_offset \in Nat BY DEF EtherInv, EtherTypes
    <3>b. Next4(size) \in Nat BY <2>1, Fours
    <3>1. Next4(size) \in Nat /\ e_offset \in Nat /\ h \in Nat BY <2>1, <3>a, <3>b
    <3>2. Ether!Aligned(e_batch.size) = Next4(size) BY DEF Ether!Aligned, Next4
    <3> DEFINE q == Next4(size)
    <3>3. q \in Nat /\ e_offset \in Nat /\ h \in Nat /\ e_offset <= q BY <2>5, <3>1
    <3> HIDE DEF q, h
    <3>4. e_offset \in 0..(q + h + 16) BY <3>3
    <3> QED BY <2>1, <3>2, <3>4 DEF q
  <2> QED BY <2>6 DEF EtherInv, EtherTypes, Ether!TypeOK
<1>2. Ether!UpIsReady BY DEF EtherInv, Ready, Ether!UpIsReady
<1>3. Ether!Drained
  <2>1. CASE e_offset >= e_batch.size BY <2>1, DrainEnds DEF Ether!Drained
  <2>2. CASE e_pending
    <3>1. e_batch.frames = <<>> /\ Len(<<>>) = 0 BY <2>2, EmptySeq DEF EtherInv, Walking
    <3>2. e_batch.size = 0 /\ e_offset \in Nat BY <3>1 DEF EtherInv, Walking, Whole, EtherTypes
    <3> QED BY <3>2, DrainEnds DEF Ether!Drained
  <2> QED BY <2>1, <2>2 DEF Ether!Drained
<1>4. ASSUME [Ether!Next]_eVars, Len(e_rxq') > Len(e_rxq)
      PROVE  e_rxq'[Len(e_rxq')] \in e_due /\ \A n \in e_due : e_rxq'[Len(e_rxq')] <= n
  <2>1. e_rxq \in Seq(Nat) /\ Len(e_rxq) \in Nat BY LenProperties DEF EtherInv, EtherTypes
  <2>2. e_rxq' # e_rxq BY <1>4, <2>1
  <2>3. Ether!Delivers \/ Ether!StackTakes
    <3>1. UNCHANGED eVars => e_rxq' = e_rxq BY DEF eVars
    <3>2. Ether!BringUp => e_rxq' = e_rxq
      BY DEF Ether!BringUp, Ether!Resets, Ether!Enables, Ether!StartFails, Ether!Multicasts, Ether!ReportsUp, Ether!WaitEnds,
             Ether!Loops
    <3>3. Ether!Receive => e_rxq' = e_rxq \/ Ether!Delivers
      BY DEF Ether!Receive, Ether!Submit, Ether!Completes, Ether!TransferFails, Ether!StopsAt, Ether!SkipsBad
    <3>4. Ether!Transmits \/ Ether!StackSends \/ Ether!Arrives \/ Ether!Cable => e_rxq' = e_rxq
      BY DEF Ether!Transmits, Ether!StackSends, Ether!Arrives, Ether!Cable
    <3> QED BY <1>4, <2>2, <3>1, <3>2, <3>3, <3>4 DEF Ether!Next
  <2>4. ~Ether!StackTakes
    <3> SUFFICES ASSUME Ether!StackTakes PROVE FALSE OBVIOUS
    <3>1. e_rxq # <<>> /\ e_rxq' = Tail(e_rxq) BY DEF Ether!StackTakes
    <3>2. Len(e_rxq') = Len(e_rxq) - 1 BY <2>1, <3>1, AtFront
    <3> QED BY <1>4, <2>1, <3>2
  <2>5. Ether!Delivers BY <2>3, <2>4
  <2>6. e_offset < e_batch.size /\ ~Ether!This.bad /\ e_rxq' = Append(e_rxq, Ether!This.n)
    BY <2>5 DEF Ether!Delivers, Ether!Draining
  <2>7. PICK k \in 1..Len(e_batch.frames) :
          e_due = Rest(e_batch.frames, k) /\ Ether!This = e_batch.frames[k] /\ e_batch.frames[k] \in Frame
    BY <2>6, DrainFinds
  <2>8. e_batch.frames \in Seq(Frame) /\ Ascending(e_batch.frames) BY DEF EtherInv, EtherTypes, Numbered
  <2> DEFINE m == Ether!This.n
  <2>9. m \in Nat /\ m \in e_due /\ \A n \in e_due : m <= n BY <2>6, <2>7, <2>8, RestNext DEF Frame
  <2>10. e_rxq' = Append(e_rxq, m) BY <2>6
  <2> HIDE DEF m
  <2>11. Len(e_rxq') = Len(e_rxq) + 1 /\ e_rxq'[Len(e_rxq) + 1] = m BY <2>1, <2>9, <2>10, AtEnd
  <2> QED BY <2>9, <2>11
<1> QED BY <1>1, <1>2, <1>3, <1>4

(* The ring of slots. *)

LEMMA MulUp == \A d \in Nat \ {0} : \A b, c \in Nat : b < c => d * b + d <= d * c
OBVIOUS

LEMMA Division ==
  ASSUME NEW d \in Nat \ {0}, NEW p \in Nat
  PROVE  p \div d \in Nat /\ p % d \in 0..(d - 1) /\ p = d * (p \div d) + (p % d)
OBVIOUS

LEMMA Unique ==
  ASSUME NEW d \in Nat \ {0}, NEW b \in Nat, NEW c \in Nat, NEW o \in 0..(d - 1), NEW r \in 0..(d - 1),
         d * b + o = d * c + r
  PROVE  b = c /\ o = r
<1> DEFINE x == d * b
           y == d * c
<1>1. x \in Nat /\ y \in Nat OBVIOUS
<1>2. ~(b < c)
  <2>1. b < c => x + d <= y BY MulUp
  <2> HIDE DEF x, y
  <2> QED BY <1>1, <2>1
<1>3. ~(c < b)
  <2>1. c < b => y + d <= x BY MulUp
  <2> HIDE DEF x, y
  <2> QED BY <1>1, <2>1
<1> QED BY <1>2, <1>3

Block(p) == p \div SlotSize
Offset(p) == p % SlotSize

\* Positions by block and place.
LEMMA Blocks ==
  /\ \A p \in Nat : Block(p) \in Nat /\ Offset(p) \in 0..(SlotSize - 1)
  /\ \A p, q \in Nat : p <= q => Block(p) <= Block(q)
  /\ \A p, q \in Nat : p < q /\ Offset(q) = 0 => Block(p) < Block(q)
  /\ \A p, q \in Nat : Block(p) = Block(q) /\ Offset(p) = Offset(q) => p = q
  /\ \A p, l \in Nat : l < SlotSize - Offset(p) => Block(p + l) = Block(p) /\ Offset(p + l) = Offset(p) + l
  /\ \A p, l \in Nat : l = SlotSize - Offset(p) => Block(p + l) = Block(p) + 1 /\ Offset(p + l) = 0
<1>0. SlotSize \in Nat \ {0} BY RingAssumption
<1> DEFINE d == SlotSize
<1> SUFFICES  /\ \A p \in Nat : p \div d \in Nat /\ p % d \in 0..(d - 1)
              /\ \A p, q \in Nat : p <= q => p \div d <= q \div d
              /\ \A p, q \in Nat : p < q /\ q % d = 0 => p \div d < q \div d
              /\ \A p, q \in Nat : p \div d = q \div d /\ p % d = q % d => p = q
              /\ \A p, l \in Nat : l < d - (p % d) => (p + l) \div d = p \div d /\ (p + l) % d = (p % d) + l
              /\ \A p, l \in Nat : l = d - (p % d) => (p + l) \div d = (p \div d) + 1 /\ (p + l) % d = 0
  BY DEF Block, Offset
<1>1. d \in Nat \ {0} BY <1>0
<1> HIDE DEF d
<1>2. \A p \in Nat : p \div d \in Nat /\ p % d \in 0..(d - 1) BY <1>1
<1>3. \A p, q \in Nat : p <= q => p \div d <= q \div d BY <1>1
<1>4. ASSUME NEW p \in Nat, NEW q \in Nat, p < q, q % d = 0 PROVE p \div d < q \div d
  <2>1. p \div d <= q \div d BY <1>3, <1>4
  <2>2. p \div d # q \div d
    <3> SUFFICES ASSUME p \div d = q \div d PROVE FALSE OBVIOUS
    <3> DEFINE x == d * (p \div d)
    <3>a. p \div d \in Nat /\ p % d \in 0..(d - 1) /\ p = d * (p \div d) + (p % d) BY <1>1, Division
    <3>b. q = d * (q \div d) + (q % d) BY <1>1, Division
    <3>c. x \in Nat BY <1>1, <3>a
    <3>d. q = x + (q % d) BY <3>b
    <3>1. p = x + (p % d) /\ q = x + (q % d) /\ p % d \in Nat /\ x \in Nat BY <1>1, <3>a, <3>c, <3>d
    <3> HIDE DEF x
    <3> QED BY <1>4, <3>1
  <2> QED BY <1>2, <2>1, <2>2
<1>5. ASSUME NEW p \in Nat, NEW q \in Nat, p \div d = q \div d, p % d = q % d PROVE p = q
  BY <1>1, <1>5, Division
<1>6. ASSUME NEW p \in Nat, NEW l \in Nat, l < d - (p % d) PROVE (p + l) \div d = p \div d /\ (p + l) % d = (p % d) + l
  BY <1>1, <1>6
<1>7. ASSUME NEW p \in Nat, NEW l \in Nat, l = d - (p % d) PROVE (p + l) \div d = (p \div d) + 1 /\ (p + l) % d = 0
  <2> DEFINE b == p \div d
             n == p + l
             c == n \div d
             r == n % d
  <2>1. b \in Nat /\ p % d \in 0..(d - 1) /\ p = d * b + (p % d) BY <1>1, Division
  <2>2. n = d * b + d BY <1>1, <1>7, <2>1
  <2>3. d * (b + 1) = d * b + d BY <1>1, <2>1
  <2>4. n \in Nat /\ c \in Nat /\ r \in 0..(d - 1) /\ n = d * c + r
    <3>1. n \in Nat OBVIOUS
    <3> QED BY <1>1, <3>1, Division
  <2>5. 0 \in 0..(d - 1) /\ b + 1 \in Nat /\ d * (b + 1) \in Nat BY <1>1, <2>1
  <2>6. d * c + r = d * (b + 1) + 0 BY <2>2, <2>3, <2>4, <2>5
  <2> HIDE DEF b, c, r, n
  <2>7. c = b + 1 /\ r = 0
    <3> DEFINE e == b + 1
    <3>1. e \in Nat /\ d * c + r = d * e + 0 BY <2>5, <2>6
    <3> HIDE DEF e
    <3>2. c = e /\ r = 0 BY <1>1, <2>4, <2>5, <3>1, Unique
    <3> QED BY <3>2 DEF e
  <2> QED BY <2>7 DEF b, c, r, n
<1> QED BY <1>2, <1>3, <1>4, <1>5, <1>6, <1>7

\* Entries of the queue less than its length apart are different entries.
LEMMA EntriesApart == \A q, r \in Nat : q < r /\ r - q < QueueLen => q % QueueLen # r % QueueLen
BY RingAssumption

Cell == [kind : {"pad", "message"}, len : 0..SlotSize, tag : 0..2]
\* Of the queue, what the q-th slot begun is; of memory, what is at a position.
Entry(q) == v_queue[q % QueueLen]
Found(p) == v_mem[Entry(Block(p))][Offset(p)]
\* Blocks begun by this side, and those the queue tells of: from the firmware's on.
Begun == IF Offset(v_tx) = 0 THEN Block(v_tx) ELSE Block(v_tx) + 1
Heralds == Block(v_rx)..(v_recycled - 1)
\* As far as memory is written: a message under way not counted.
Front == IF v_step = "fill" THEN v_tx - v_len ELSE v_tx

RingTypes == /\ v_step \in {"idle", "reserve", "fill", "publish"} /\ v_len \in Sizes
             /\ v_tx \in 0..(Width - 1) /\ v_published \in 0..(Width - 1) /\ v_rx \in 0..(Width - 1)
             /\ v_data \in 1..RingSlots /\ v_room \in Nat /\ v_recycled \in Nat
             /\ v_tag \in 0..2 /\ v_expect \in 0..2
             /\ v_queue \in [0..(QueueLen - 1) -> 1..RingSlots]
             /\ v_mem \in [1..RingSlots -> [0..(SlotSize - 1) -> Cell]]
             /\ v_full \subseteq 1..RingSlots /\ v_owned \subseteq 1..RingSlots
\* Every slot is told of or is read to its end, and only slots given back are begun.
RingBooks == /\ v_recycled + Cardinality(v_full) = RingSlots + Block(v_rx)
             /\ Begun <= v_room /\ v_room <= v_recycled
             /\ v_rx <= v_published /\ v_published <= Front
             /\ v_step = "fill" => v_len <= v_tx /\ Offset(Front) + v_len <= SlotSize
FarApart == /\ \A q, r \in Heralds : q # r => Entry(q) # Entry(r)
         /\ \A q \in Heralds : Entry(q) \notin v_full
Held == /\ v_owned = v_full \union {Entry(q) : q \in Block(v_rx)..(Begun - 1)}
        /\ Block(v_rx) < Begun => v_data = Entry(Begun - 1)
\* From where the firmware reads to where memory is written one header follows another, in order.
Follows(K, T, h) ==
  /\ Found(h).len \in 1..(SlotSize - Offset(h)) /\ h + Found(h).len \in K
  /\ \A x \in K : x > h => x >= h + Found(h).len
  /\ IF Found(h).kind = "message" THEN Found(h).tag = T[h] /\ T[h + Found(h).len] = Vchiq!NextTag(T[h])
                                  ELSE T[h + Found(h).len] = T[h]
Chained(K, T) == /\ v_rx \in K /\ v_published \in K /\ Front \in K /\ \A h \in K : v_rx <= h /\ h <= Front
                 /\ T[v_rx] = v_expect /\ T[Front] = v_tag
                 /\ \A h \in K : h < Front => Follows(K, T, h)
RingInv == /\ RingTypes /\ RingBooks /\ FarApart /\ Held /\ v_broken = FALSE
           /\ \E K \in SUBSET Nat : \E T : Chained(K, T)

LEMMA RingNumbers ==
  RingTypes => /\ v_tx \in Nat /\ v_rx \in Nat /\ v_published \in Nat /\ v_room \in Nat /\ v_recycled \in Nat
               /\ v_len \in 1..SlotSize /\ v_tx < Width
               /\ Block(v_tx) \in Nat /\ Block(v_rx) \in Nat /\ Begun \in Nat /\ SlotSize \in Nat
               /\ Offset(v_tx) \in 0..(SlotSize - 1)
<1> SUFFICES ASSUME RingTypes
             PROVE  /\ v_tx \in Nat /\ v_rx \in Nat /\ v_published \in Nat /\ v_room \in Nat /\ v_recycled \in Nat
                    /\ v_len \in 1..SlotSize /\ v_tx < Width
                    /\ Block(v_tx) \in Nat /\ Block(v_rx) \in Nat /\ Begun \in Nat /\ SlotSize \in Nat
                    /\ Offset(v_tx) \in 0..(SlotSize - 1)
  OBVIOUS
<1>1. /\ v_tx \in Nat /\ v_rx \in Nat /\ v_published \in Nat /\ v_room \in Nat /\ v_recycled \in Nat
      /\ v_len \in 1..SlotSize /\ v_tx < Width /\ SlotSize \in Nat
  BY RingAssumption DEF RingTypes
<1>2. Block(v_tx) \in Nat /\ Block(v_rx) \in Nat /\ Offset(v_tx) \in 0..(SlotSize - 1) BY <1>1, Blocks
<1>3. Begun \in Nat BY <1>2 DEF Begun
<1> QED BY <1>1, <1>2, <1>3

\* What stands before the front is in a block told of.
LEMMA RingFront ==
  ASSUME RingTypes, RingBooks
  PROVE  /\ Front \in Nat /\ Front <= v_tx /\ v_rx <= Front
         /\ \A h \in Nat : h < v_tx => Block(h) < Begun
         /\ \A h \in Nat : v_rx <= h /\ h < v_tx => Block(h) \in Heralds
         /\ Begun <= v_recycled /\ Block(v_rx) <= Begun
         /\ v_step = "fill" => Front < v_tx /\ Front = v_tx - v_len /\ Begun = Block(Front) + 1
<1>1. /\ v_tx \in Nat /\ v_rx \in Nat /\ v_published \in Nat /\ v_room \in Nat /\ v_recycled \in Nat
      /\ v_len \in 1..SlotSize
      /\ Block(v_tx) \in Nat /\ Block(v_rx) \in Nat /\ Begun \in Nat /\ SlotSize \in Nat
      /\ Offset(v_tx) \in 0..(SlotSize - 1)
  BY RingNumbers
<1>2. Front \in Nat /\ Front <= v_tx /\ (v_step = "fill" => Front < v_tx /\ Front = v_tx - v_len)
  BY <1>1 DEF RingBooks, Front
<1>3. v_rx <= Front BY <1>1, <1>2 DEF RingBooks
<1>4. ASSUME NEW h \in Nat, h < v_tx PROVE Block(h) < Begun
  <2>1. Block(h) \in Nat /\ Block(h) <= Block(v_tx) BY <1>1, <1>4, Blocks
  <2>2. Offset(v_tx) = 0 => Block(h) < Block(v_tx) BY <1>1, <1>4, Blocks
  <2> QED BY <1>1, <2>1, <2>2 DEF Begun
<1>5. Begun <= v_recycled BY <1>1 DEF RingBooks
<1>6. ASSUME NEW h \in Nat, v_rx <= h, h < v_tx PROVE Block(h) \in Heralds
  <2>1. Block(h) < Begun BY <1>4, <1>6
  <2>2. Block(h) \in Nat /\ Block(v_rx) <= Block(h) BY <1>1, <1>6, Blocks
  <2> QED BY <1>1, <1>5, <2>1, <2>2 DEF Heralds
<1>7. Block(v_rx) <= Begun
  <2>1. Block(v_rx) <= Block(v_tx) BY <1>1, <1>2, <1>3, Blocks
  <2> QED BY <1>1, <2>1 DEF Begun
<1>8. ASSUME v_step = "fill" PROVE Begun = Block(Front) + 1
  <2>1. Offset(Front) + v_len <= SlotSize /\ v_tx = Front + v_len BY <1>1, <1>2, <1>8 DEF RingBooks
  <2>2. Offset(Front) \in 0..(SlotSize - 1) /\ Block(Front) \in Nat BY <1>2, Blocks
  <2>3. CASE v_len < SlotSize - Offset(Front)
    <3>1. Block(v_tx) = Block(Front) /\ Offset(v_tx) = Offset(Front) + v_len BY <1>1, <1>2, <2>1, <2>3, Blocks
    <3>2. Offset(v_tx) # 0 BY <1>1, <2>2, <3>1
    <3> QED BY <3>1, <3>2 DEF Begun
  <2>4. CASE v_len = SlotSize - Offset(Front)
    <3>1. Block(v_tx) = Block(Front) + 1 /\ Offset(v_tx) = 0 BY <1>1, <1>2, <2>1, <2>4, Blocks
    <3> QED BY <3>1 DEF Begun
  <2> QED BY <1>1, <2>1, <2>2, <2>3, <2>4
<1> QED BY <1>2, <1>3, <1>4, <1>5, <1>6, <1>7, <1>8

LEMMA RingInit == Vchiq!Init => RingInv
<1> SUFFICES ASSUME Vchiq!Init PROVE RingInv OBVIOUS
<1>1. /\ v_step = "idle" /\ v_len = 1 /\ v_tx = 0 /\ v_data = 1 /\ v_room = 0 /\ v_tag = 0
      /\ v_recycled = RingSlots /\ v_published = 0 /\ v_rx = 0 /\ v_expect = 0 /\ v_full = {} /\ v_owned = {}
      /\ v_broken = FALSE
      /\ v_queue = [i \in 0..(QueueLen - 1) |-> IF i < RingSlots THEN i + 1 ELSE 1]
  BY DEF Vchiq!Init
<1>2. v_mem = [s \in 1..RingSlots |-> [o \in 0..(SlotSize - 1) |-> Vchiq!Pad]] BY DEF Vchiq!Init, Vchiq!Slot
<1>3. Block(0) = 0 /\ Offset(0) = 0
  <2>1. SlotSize \in Nat \ {0} BY RingAssumption
  <2> QED BY <2>1 DEF Block, Offset
<1>4. RingTypes
  <2>1. Vchiq!Pad \in Cell BY RingAssumption DEF Vchiq!Pad, Cell
  <2>2. v_mem \in [1..RingSlots -> [0..(SlotSize - 1) -> Cell]] BY <1>2, <2>1, Zenon
  <2>3. v_queue \in [0..(QueueLen - 1) -> 1..RingSlots] BY <1>1, RingAssumption
  <2>4. /\ v_tx \in 0..(Width - 1) /\ v_published \in 0..(Width - 1) /\ v_rx \in 0..(Width - 1)
        /\ v_data \in 1..RingSlots /\ v_room \in Nat /\ v_recycled \in Nat /\ v_tag \in 0..2 /\ v_expect \in 0..2
    BY <1>1, RingAssumption
  <2> QED BY <1>1, <2>2, <2>3, <2>4, RingAssumption DEF RingTypes
<1>5. Front = 0 /\ Begun = 0 BY <1>1, <1>3 DEF Front, Begun
<1>6. RingBooks
  <2>1. Cardinality(v_full) = 0 BY <1>1, FS_EmptySet
  <2> QED BY <1>1, <1>3, <1>5, <2>1, RingAssumption DEF RingBooks
<1>7. FarApart
  <2>1. Heralds = 0..(RingSlots - 1) BY <1>1, <1>3 DEF Heralds
  <2>2. \A q \in Heralds : Entry(q) = q + 1
    <3> SUFFICES ASSUME NEW q \in 0..(RingSlots - 1) PROVE Entry(q) = q + 1 BY <2>1
    <3>1. q \in 0..(QueueLen - 1) /\ q % QueueLen = q /\ q < RingSlots BY RingAssumption
    <3>2. v_queue[q] = q + 1 BY <1>1, <3>1
    <3> QED BY <3>1, <3>2 DEF Entry
  <2>3. \A q, r \in Heralds : q # r => q + 1 # r + 1 BY <2>1, RingAssumption
  <2> QED BY <1>1, <2>2, <2>3 DEF FarApart
<1>8. Held BY <1>1, <1>3, <1>5 DEF Held
<1>9. \E K \in SUBSET Nat : \E T : Chained(K, T)
  <2> DEFINE K == {0}
             T == [x \in {0} |-> 0]
  <2>1. K \in SUBSET Nat OBVIOUS
  <2>2. T[0] = 0 OBVIOUS
  <2>3. \A h \in K : h = 0 OBVIOUS
  <2>4. 0 \in K OBVIOUS
  <2> HIDE DEF K, T
  <2>5. Chained(K, T) BY <1>1, <1>5, <2>2, <2>3, <2>4 DEF Chained
  <2> QED BY <2>1, <2>5
<1> QED BY <1>1, <1>4, <1>6, <1>7, <1>8, <1>9 DEF RingInv

\* The chain goes on where what it is made of is as it was.
LEMMA ChainKept ==
  ASSUME NEW K \in SUBSET Nat, NEW T, Chained(K, T),
         v_rx' = v_rx, v_expect' = v_expect, v_tag' = v_tag, Front' = Front, v_published' \in K,
         \A h \in K : h < Front => Found(h)' = Found(h)
  PROVE  \E L \in SUBSET Nat : \E U : Chained(L, U)'
<1>1. \A h \in K : h < Front => Follows(K, T, h)' BY DEF Chained, Follows, Vchiq!NextTag
<1>2. Chained(K, T)' BY <1>1 DEF Chained
<1> QED BY <1>2

LEMMA ChainGrows ==
  ASSUME NEW K \in SUBSET Nat, NEW T, Chained(K, T), NEW f \in Nat, f = Front, NEW c, NEW l \in Nat \ {0}, NEW t,
         v_rx' = v_rx, v_expect' = v_expect, Front' = f + l, v_published' \in K, v_tag' = t,
         \A h \in K : h < f => Found(h)' = Found(h),
         Found(f)' = c, c.len = l, l <= SlotSize - Offset(f), SlotSize \in Nat, Offset(f) \in Nat,
         IF c.kind = "message" THEN c.tag = v_tag /\ t = Vchiq!NextTag(v_tag) ELSE t = v_tag
  PROVE  \E L \in SUBSET Nat : \E U : Chained(L, U)'
<1> DEFINE g == f + l
           L == K \union {g}
           U == [x \in L |-> IF x = g THEN t ELSE T[x]]
<1>1. f \in Nat /\ g \in Nat /\ f < g /\ f \in K /\ \A h \in K : h \in Nat /\ v_rx <= h /\ h <= f BY DEF Chained
<1>2. g \notin K /\ L \in SUBSET Nat /\ Front' = g BY <1>1
<1>3. U[g] = t /\ \A h \in K : U[h] = T[h] /\ h # g /\ h \in L BY <1>2
<1>4. \A x \in L : x \in K \/ x = g OBVIOUS
<1>5. v_rx' \in L /\ v_published' \in L /\ g \in L /\ v_rx \in K BY DEF Chained
<1>6. \A h \in L : v_rx' <= h /\ h <= g
  <2>1. v_rx \in K /\ v_rx' = v_rx BY DEF Chained
  <2>2. \A h \in K : v_rx' <= h /\ h <= g BY <1>1, <2>1
  <2>3. v_rx <= g BY <1>1, <2>1
  <2> QED BY <1>1, <1>4, <2>1, <2>2, <2>3
<1>7. U[v_rx'] = v_expect' BY <1>3, <1>5 DEF Chained
<1> HIDE DEF L, U
<1>8. ASSUME NEW h \in K, h < f PROVE Follows(L, U, h)'
  <2> DEFINE m == Found(h).len
             e == h + m
  <2>1. Found(h)' = Found(h) BY <1>8
  <2>2. Follows(K, T, h) BY <1>8 DEF Chained
  <2>3. m \in 1..(SlotSize - Offset(h)) /\ e \in K /\ (\A x \in K : x > h => x >= e)
        /\ IF Found(h).kind = "message" THEN Found(h).tag = T[h] /\ T[e] = Vchiq!NextTag(T[h]) ELSE T[e] = T[h]
    BY <2>2 DEF Follows
  <2>4. e <= f /\ e \in Nat BY <1>1, <2>3
  <2> HIDE DEF e
  <2>5. \A x \in L : x > h => x >= e
    <3>1. g >= e BY <1>1, <2>4
    <3> QED BY <1>4, <2>3, <3>1
  <2>6. U[h] = T[h] /\ U[e] = T[e] /\ e \in L BY <1>3, <1>8, <2>3
  <2>7. IF Found(h)'.kind = "message" THEN Found(h)'.tag = U[h] /\ U[e] = Vchiq!NextTag(U[h]) ELSE U[e] = U[h]
    BY <2>1, <2>3, <2>6
  <2>8. Found(h)'.len = m /\ h + Found(h)'.len = e BY <2>1 DEF e
  <2> QED BY <2>3, <2>5, <2>6, <2>7, <2>8 DEF Follows, Vchiq!NextTag
<1>9. Follows(L, U, f)'
  <2>1. Found(f)' = c BY <1>1
  <2>2. U[f] = v_tag BY <1>1, <1>3 DEF Chained
  <2>3. \A x \in L : x > f => x >= g
    <3>1. \A x \in K : ~(x > f)
      <4> SUFFICES ASSUME NEW x \in K, x > f PROVE FALSE OBVIOUS
      <4>1. x \in Nat /\ x <= f BY <1>1
      <4> QED BY <1>1, <4>1
    <3>2. g >= g BY <1>1
    <3> QED BY <1>4, <3>1, <3>2
  <2>4. c.len \in 1..(SlotSize - Offset(f)) BY <1>1
  <2>5. f + c.len = g /\ g \in L BY <1>5
  <2> HIDE DEF g
  <2>6. IF c.kind = "message" THEN c.tag = U[f] /\ U[g] = Vchiq!NextTag(U[f]) ELSE U[g] = U[f] BY <1>3, <2>2
  <2> QED BY <2>1, <2>3, <2>4, <2>5, <2>6 DEF Follows, Vchiq!NextTag
<1>10. \A h \in L : h < Front' => Follows(L, U, h)'
  <2> SUFFICES ASSUME NEW h \in L, h < g PROVE Follows(L, U, h)' BY <1>2
  <2>1. h \in K BY <1>1, <1>4
  <2>2. h \in Nat /\ h <= f BY <1>1, <2>1
  <2>3. h < f \/ h = f BY <1>1, <2>2
  <2> QED BY <1>8, <1>9, <2>1, <2>3
<1>11. Chained(L, U)'
  <2> HIDE DEF g
  <2> QED BY <1>2, <1>3, <1>5, <1>6, <1>7, <1>10 DEF Chained
<1> QED BY <1>2, <1>11

LEMMA RingStays ==
  ASSUME RingInv, RingTypes', RingBooks', v_published' \in {v_published, Front}, Front' = Front,
         UNCHANGED <<v_tx, v_data, v_tag, v_mem, v_queue, v_recycled, v_rx, v_expect, v_full, v_owned, v_broken>>
  PROVE  RingInv'
<1>1. /\ v_tx' = v_tx /\ v_data' = v_data /\ v_tag' = v_tag /\ v_mem' = v_mem /\ v_queue' = v_queue
      /\ v_recycled' = v_recycled /\ v_rx' = v_rx /\ v_expect' = v_expect /\ v_full' = v_full /\ v_owned' = v_owned
      /\ v_broken' = v_broken
  OBVIOUS
<1>2. Begun' = Begun /\ Heralds' = Heralds /\ \A q : Entry(q)' = Entry(q) BY <1>1 DEF Begun, Heralds, Entry
<1>3. FarApart' /\ Held' BY <1>1, <1>2 DEF RingInv, FarApart, Held
<1>4. \E L \in SUBSET Nat : \E U : Chained(L, U)'
  <2>1. PICK K \in SUBSET Nat : \E T : Chained(K, T) BY DEF RingInv
  <2>2. PICK T : Chained(K, T) BY <2>1
  <2>3. \A h \in K : Found(h)' = Found(h) BY <1>1 DEF Found, Entry
  <2>4. v_published' \in K BY <2>2 DEF Chained
  <2> QED BY <1>1, <2>2, <2>3, <2>4, ChainKept
<1> QED BY <1>1, <1>3, <1>4 DEF RingInv

LEMMA RingPoll == RingInv /\ Vchiq!Poll => RingInv'
<1> SUFFICES ASSUME RingInv, Vchiq!Poll PROVE RingInv' OBVIOUS
<1>1. /\ v_step = "idle" /\ v_room' = v_recycled
      /\ UNCHANGED <<v_step, v_len, v_tx, v_data, v_tag, v_mem, v_queue, v_recycled, v_published, v_rx, v_expect, v_full,
                     v_owned, v_broken>>
  BY DEF Vchiq!Poll, Vchiq!shared, Vchiq!firmware
<1>2. RingTypes' BY <1>1 DEF RingInv, RingTypes
<1>3. Front' = Front /\ Begun' = Begun BY <1>1 DEF Front, Begun
<1>4. RingBooks'
  <2>1. Begun <= v_recycled /\ v_recycled \in Nat BY RingFront DEF RingInv, RingTypes
  <2> QED BY <1>1, <1>3, <2>1 DEF RingInv, RingBooks
<1> QED BY <1>1, <1>2, <1>3, <1>4, RingStays

LEMMA RingSend == RingInv /\ Vchiq!Send => RingInv'
<1> SUFFICES ASSUME RingInv, Vchiq!Send PROVE RingInv' OBVIOUS
<1>1. /\ v_step = "idle" /\ v_step' = "reserve" /\ v_len' \in Sizes
      /\ UNCHANGED <<v_tx, v_data, v_room, v_tag, v_mem, v_queue, v_recycled, v_published, v_rx, v_expect, v_full,
                     v_owned, v_broken>>
  BY DEF Vchiq!Send, Vchiq!shared, Vchiq!firmware
<1>2. RingTypes' BY <1>1 DEF RingInv, RingTypes
<1>3. Front' = Front /\ Begun' = Begun BY <1>1 DEF Front, Begun
<1>4. RingBooks' BY <1>1, <1>3 DEF RingInv, RingBooks
<1> QED BY <1>1, <1>2, <1>3, <1>4, RingStays

LEMMA RingPublish == RingInv /\ Vchiq!Publish => RingInv'
<1> SUFFICES ASSUME RingInv, Vchiq!Publish PROVE RingInv' OBVIOUS
<1>1. /\ v_step = "publish" /\ v_step' = "idle" /\ v_published' = v_tx
      /\ UNCHANGED <<v_len, v_tx, v_data, v_room, v_tag, v_mem, v_queue, v_recycled, v_rx, v_expect, v_full,
                     v_owned, v_broken>>
  BY DEF Vchiq!Publish, Vchiq!firmware
<1>2. RingTypes' BY <1>1 DEF RingInv, RingTypes
<1>3. Front' = Front /\ Begun' = Begun /\ Front = v_tx BY <1>1 DEF Front, Begun
<1>4. RingBooks'
  <2>1. v_rx <= Front /\ Front \in Nat BY RingFront DEF RingInv
  <2> QED BY <1>1, <1>3, <2>1 DEF RingInv, RingBooks
<1> QED BY <1>1, <1>2, <1>3, <1>4, RingStays

\* What is written at a position is found there, and nothing else told of is touched.
LEMMA RingWrites ==
  ASSUME RingTypes, FarApart, NEW p \in Nat, Block(p) \in Heralds, v_data = Entry(Block(p)), NEW c \in Cell,
         v_mem' = [v_mem EXCEPT ![v_data][Vchiq!Offset(p)] = c], v_queue' = v_queue
  PROVE  /\ v_mem' \in [1..RingSlots -> [0..(SlotSize - 1) -> Cell]]
         /\ Found(p)' = c
         /\ \A h \in Nat : Block(h) \in Heralds /\ h # p => Found(h)' = Found(h)
<1>1. Vchiq!Offset(p) = Offset(p) /\ Offset(p) \in 0..(SlotSize - 1) BY Blocks DEF Vchiq!Offset, Offset
<1>2. v_mem \in [1..RingSlots -> [0..(SlotSize - 1) -> Cell]] /\ v_data \in 1..RingSlots BY DEF RingTypes
<1> DEFINE o == Offset(p)
<1>3. v_mem' = [v_mem EXCEPT ![v_data] = [v_mem[v_data] EXCEPT ![o] = c]] BY <1>1
<1>4. v_mem' \in [1..RingSlots -> [0..(SlotSize - 1) -> Cell]]
  <2> DEFINE g == [v_mem[v_data] EXCEPT ![o] = c]
             B == [0..(SlotSize - 1) -> Cell]
  <2>1. g \in B BY <1>2
  <2>2. v_mem \in [1..RingSlots -> B] /\ v_mem' = [v_mem EXCEPT ![v_data] = g] BY <1>2, <1>3
  <2> HIDE DEF g, B
  <2>3. v_mem' \in [1..RingSlots -> B] BY <1>2, <2>1, <2>2
  <2> QED BY <2>3 DEF B
<1>5. v_mem'[v_data][o] = c
  <2> DEFINE g == [v_mem[v_data] EXCEPT ![o] = c]
  <2>1. o \in DOMAIN v_mem[v_data] /\ v_data \in DOMAIN v_mem BY <1>1, <1>2
  <2>2. g[o] = c BY <2>1
  <2>3. v_mem' = [v_mem EXCEPT ![v_data] = g] BY <1>3
  <2> HIDE DEF g
  <2>4. v_mem'[v_data] = g BY <2>1, <2>3
  <2> QED BY <2>2, <2>4
<1>6. \A s \in 1..RingSlots, r \in 0..(SlotSize - 1) : s # v_data \/ r # o => v_mem'[s][r] = v_mem[s][r]
  BY <1>1, <1>2, <1>3
<1>7. \A q : Entry(q)' = Entry(q) BY DEF Entry
<1>8. Found(p)' = c BY <1>5, <1>7 DEF Found
<1>9. ASSUME NEW h \in Nat, Block(h) \in Heralds, h # p PROVE Found(h)' = Found(h)
  <2>1. Block(h) # Block(p) \/ Offset(h) # o BY <1>9, Blocks
  <2>2. Entry(Block(h)) # v_data \/ Offset(h) # o BY <1>9, <2>1 DEF FarApart
  <2>3. Offset(h) \in 0..(SlotSize - 1) BY <1>9, Blocks
  <2>4. CASE Entry(Block(h)) \in 1..RingSlots BY <1>6, <1>7, <2>2, <2>3, <2>4 DEF Found
  <2>5. Entry(Block(h)) \in 1..RingSlots
    <3>1. Block(h) \in Nat /\ QueueLen \in Nat \ {0} BY <1>9, Blocks, RingAssumption
    <3>2. Block(h) % QueueLen \in 0..(QueueLen - 1) BY <3>1
    <3> QED BY <3>2 DEF Entry, RingTypes
  <2> QED BY <2>4, <2>5
<1> QED BY <1>4, <1>8, <1>9

\* Padding: written where this side has got to, in its own slot, and only where a message does not fit.
LEMMA RingPads ==
  ASSUME RingTypes, RingBooks, FarApart, Held, v_step = "reserve", v_mem' = Vchiq!PadOut, v_queue' = v_queue
  PROVE  /\ v_mem' \in [1..RingSlots -> [0..(SlotSize - 1) -> Cell]]
         /\ \A h \in Nat : v_rx <= h /\ h < v_tx => Found(h)' = Found(h)
         /\ v_len > SlotSize - Offset(v_tx) =>
              /\ Offset(v_tx) # 0
              /\ \A p : p = v_tx => Found(p)' = [kind |-> "pad", len |-> SlotSize - Offset(v_tx), tag |-> 0]
<1>1. /\ v_tx \in Nat /\ v_rx \in Nat /\ v_recycled \in Nat /\ v_len \in 1..SlotSize /\ SlotSize \in Nat
      /\ Offset(v_tx) \in 0..(SlotSize - 1) /\ Block(v_tx) \in Nat /\ Block(v_rx) \in Nat
  BY RingNumbers
<1>2. Vchiq!Left(v_tx) = SlotSize - Offset(v_tx) BY DEF Vchiq!Left, Vchiq!Offset, Offset
<1>3. CASE ~(v_len > SlotSize - Offset(v_tx))
  <2>1. v_mem' = v_mem BY <1>2, <1>3 DEF Vchiq!PadOut
  <2> QED BY <1>3, <2>1 DEF Found, Entry, RingTypes
<1>4. CASE v_len > SlotSize - Offset(v_tx)
  <2> DEFINE c == [kind |-> "pad", len |-> SlotSize - Offset(v_tx), tag |-> 0]
  <2>1. Offset(v_tx) # 0 BY <1>1, <1>4
  <2>2. Begun = Block(v_tx) + 1 BY <2>1 DEF Begun
  <2>3. Front = v_tx /\ v_rx <= v_tx /\ Begun <= v_recycled BY RingFront DEF Front
  <2>4. Block(v_rx) <= Block(v_tx) BY <1>1, <2>3, Blocks
  <2>5. Block(v_tx) \in Heralds BY <1>1, <2>2, <2>3, <2>4 DEF Heralds
  <2>6. v_data = Entry(Block(v_tx))
    <3>1. Block(v_rx) < Begun /\ Begun - 1 = Block(v_tx) BY <1>1, <2>2, <2>4
    <3> QED BY <3>1 DEF Held
  <2>7. c \in Cell /\ c = [Vchiq!Pad EXCEPT !.len = Vchiq!Left(v_tx)]
    <3>1. SlotSize - Offset(v_tx) \in 0..SlotSize BY <1>1
    <3> QED BY <1>2, <3>1 DEF Cell, Vchiq!Pad
  <2>8. v_mem' = [v_mem EXCEPT ![v_data][Vchiq!Offset(v_tx)] = c] BY <1>2, <1>4, <2>7 DEF Vchiq!PadOut
  <2> HIDE DEF c
  <2>9. PICK p \in Nat : p = v_tx BY <1>1
  <2>10. /\ v_mem' \in [1..RingSlots -> [0..(SlotSize - 1) -> Cell]]
         /\ Found(p)' = c
         /\ \A h \in Nat : Block(h) \in Heralds /\ h # p => Found(h)' = Found(h)
    BY <2>5, <2>6, <2>7, <2>8, <2>9, RingWrites
  <2>11. \A h \in Nat : v_rx <= h /\ h < v_tx => Found(h)' = Found(h)
    <3> SUFFICES ASSUME NEW h \in Nat, v_rx <= h, h < v_tx PROVE Found(h)' = Found(h) OBVIOUS
    <3>1. Block(h) \in Heralds BY RingFront
    <3>2. h # p BY <1>1, <2>9
    <3> QED BY <2>10, <3>1, <3>2
  <2>12. \A q : q = v_tx => Found(q)' = c BY <2>9, <2>10
  <2> QED BY <2>1, <2>10, <2>11, <2>12 DEF c
<1> QED BY <1>3, <1>4

LEMMA RingOutOfSlots == RingInv /\ Vchiq!OutOfSlots => RingInv'
<1> SUFFICES ASSUME RingInv, Vchiq!OutOfSlots PROVE RingInv' OBVIOUS
<1>1. /\ v_step = "reserve" /\ v_step' = "idle" /\ v_published' = v_tx /\ v_mem' = Vchiq!PadOut
      /\ UNCHANGED <<v_len, v_tx, v_data, v_room, v_tag, v_queue, v_recycled, v_rx, v_expect, v_full, v_owned, v_broken>>
  BY DEF Vchiq!OutOfSlots, Vchiq!firmware
<1>2. /\ v_mem' \in [1..RingSlots -> [0..(SlotSize - 1) -> Cell]]
      /\ \A h \in Nat : v_rx <= h /\ h < v_tx => Found(h)' = Found(h)
  BY <1>1, RingPads DEF RingInv
<1>3. Front = v_tx /\ Front' = Front /\ Begun' = Begun /\ Heralds' = Heralds /\ \A q : Entry(q)' = Entry(q)
  BY <1>1 DEF Front, Begun, Heralds, Entry
<1>4. RingTypes' BY <1>1, <1>2 DEF RingInv, RingTypes
<1>5. v_rx <= Front /\ Front \in Nat BY RingFront DEF RingInv
<1>6. RingBooks' BY <1>1, <1>3, <1>5 DEF RingInv, RingBooks
<1>7. FarApart' /\ Held' BY <1>1, <1>3 DEF RingInv, FarApart, Held
<1>8. \E L \in SUBSET Nat : \E U : Chained(L, U)'
  <2>1. PICK K \in SUBSET Nat : \E T : Chained(K, T) BY DEF RingInv
  <2>2. PICK T : Chained(K, T) BY <2>1
  <2>3. \A h \in K : h < Front => Found(h)' = Found(h) BY <1>2, <1>3, <2>2 DEF Chained
  <2>4. v_published' \in K BY <1>1, <1>3, <2>2 DEF Chained
  <2> QED BY <1>1, <1>3, <2>2, <2>3, <2>4, ChainKept
<1> QED BY <1>1, <1>4, <1>6, <1>7, <1>8 DEF RingInv

LEMMA RingFill == RingInv /\ Vchiq!Fill => RingInv'
<1> SUFFICES ASSUME RingInv, Vchiq!Fill PROVE RingInv' OBVIOUS
<1> DEFINE c == [kind |-> "message", len |-> v_len, tag |-> v_tag]
<1>1. /\ v_step = "fill" /\ v_step' = "publish" /\ v_tag' = Vchiq!NextTag(v_tag)
      /\ v_mem' = [v_mem EXCEPT ![v_data][Vchiq!Offset(Vchiq!Start)] = c]
      /\ UNCHANGED <<v_len, v_tx, v_data, v_room, v_queue, v_recycled, v_published, v_rx, v_expect, v_full, v_owned, v_broken>>
  BY DEF Vchiq!Fill, Vchiq!firmware
<1>2. /\ v_tx \in Nat /\ v_rx \in Nat /\ v_recycled \in Nat /\ v_len \in 1..SlotSize /\ SlotSize \in Nat /\ v_tx < Width
      /\ Block(v_rx) \in Nat /\ v_published \in Nat
  BY RingNumbers DEF RingInv
<1>3. /\ Front \in Nat /\ Front = v_tx - v_len /\ Front < v_tx /\ Begun = Block(Front) + 1 /\ v_rx <= Front
      /\ Block(Front) \in Heralds /\ v_len <= v_tx /\ Offset(Front) + v_len <= SlotSize
  <2>1. Front \in Nat /\ Front = v_tx - v_len /\ Front < v_tx /\ Begun = Block(Front) + 1 /\ v_rx <= Front
    BY <1>1, RingFront DEF RingInv
  <2>2. Block(Front) \in Heralds BY <2>1, RingFront DEF RingInv
  <2> QED BY <1>1, <2>1, <2>2 DEF RingInv, RingBooks
<1>4. PICK f \in Nat : f = Front BY <1>3
<1>5. Vchiq!Start = f
  <2>1. Vchiq!Start = (v_tx + Width - v_len) % Width BY DEF Vchiq!Start
  <2>2. Width \in Nat \ {0} BY RingAssumption
  <2>3. v_tx + Width - v_len = f + Width /\ f < Width BY <1>2, <1>3, <1>4, <2>2
  <2>4. (f + Width) % Width = f BY <2>2, <2>3
  <2> QED BY <2>1, <2>3, <2>4
<1>6. v_data = Entry(Block(f))
  <2>1. Block(v_rx) <= Block(f) /\ Block(f) \in Nat BY <1>2, <1>3, <1>4, Blocks
  <2>2. Block(v_rx) < Begun /\ Begun - 1 = Block(f) BY <1>2, <1>3, <1>4, <2>1
  <2> QED BY <2>2 DEF RingInv, Held
<1>7. c \in Cell BY <1>2 DEF Cell, RingInv, RingTypes
<1>8. v_mem' = [v_mem EXCEPT ![v_data][Vchiq!Offset(f)] = c] BY <1>1, <1>5
<1>9. c.kind = "message" /\ c.len = v_len /\ c.tag = v_tag OBVIOUS
<1> HIDE DEF c
<1>10. /\ v_mem' \in [1..RingSlots -> [0..(SlotSize - 1) -> Cell]] /\ Found(f)' = c
       /\ \A h \in Nat : Block(h) \in Heralds /\ h # f => Found(h)' = Found(h)
  BY <1>1, <1>3, <1>4, <1>6, <1>7, <1>8, RingWrites DEF RingInv
<1>11. Front' = v_tx /\ Begun' = Begun /\ Heralds' = Heralds /\ \A q : Entry(q)' = Entry(q)
  BY <1>1 DEF Front, Begun, Heralds, Entry
<1>12. RingTypes'
  <2>1. v_tag' \in 0..2 BY <1>1 DEF RingInv, RingTypes, Vchiq!NextTag
  <2> QED BY <1>1, <1>10, <2>1 DEF RingInv, RingTypes
<1>13. RingBooks'
  <2>1. v_published <= v_tx BY <1>2, <1>3 DEF RingInv, RingBooks
  <2> QED BY <1>1, <1>11, <2>1 DEF RingInv, RingBooks
<1>14. FarApart' /\ Held' BY <1>1, <1>11 DEF RingInv, FarApart, Held
<1>15. \E L \in SUBSET Nat : \E U : Chained(L, U)'
  <2>1. PICK K \in SUBSET Nat : \E T : Chained(K, T) BY DEF RingInv
  <2>2. PICK T : Chained(K, T) BY <2>1
  <2>3. \A h \in K : h < f => Found(h)' = Found(h)
    <3> SUFFICES ASSUME NEW h \in K, h < f PROVE Found(h)' = Found(h) OBVIOUS
    <3>1. h \in Nat /\ v_rx <= h /\ h < v_tx /\ h # f BY <1>2, <1>3, <1>4, <2>2 DEF Chained
    <3>2. Block(h) \in Heralds BY <3>1, RingFront DEF RingInv
    <3> QED BY <1>10, <3>1, <3>2
  <2>4. v_published' \in K BY <1>1, <2>2 DEF Chained
  <2>5. PICK l \in Nat \ {0} : l = v_len BY <1>2
  <2>6. Front' = f + l BY <1>2, <1>3, <1>4, <1>11, <2>5
  <2>7. PICK t : t = v_tag' OBVIOUS
  <2>8. Offset(f) \in Nat BY Blocks
  <2>9. l <= SlotSize - Offset(f) BY <1>2, <1>3, <1>4, <2>5, <2>8
  <2>10. c.len = l /\ c.tag = v_tag /\ c.kind = "message" /\ t = Vchiq!NextTag(v_tag) BY <1>1, <1>9, <2>5, <2>7
  <2>11. v_rx' = v_rx /\ v_expect' = v_expect /\ v_tag' = t /\ f = Front BY <1>1, <1>4, <2>7
  <2> QED BY <1>2, <1>10, <2>2, <2>3, <2>4, <2>6, <2>8, <2>9, <2>10, <2>11, ChainGrows
<1> QED BY <1>1, <1>12, <1>13, <1>14, <1>15 DEF RingInv

\* Where a message that fits goes: behind the padding, or where this side has got to.
LEMMA RingReserve == RingInv /\ Vchiq!Reserve => RingInv'
<1> SUFFICES ASSUME RingInv, Vchiq!Reserve PROVE RingInv' OBVIOUS
<1>1. /\ v_step = "reserve" /\ v_step' = "fill" /\ v_mem' = Vchiq!PadOut /\ ~Vchiq!NoRoom /\ v_tx + 2 * SlotSize < Width
      /\ v_data' = (IF Vchiq!Offset(Vchiq!Padded) = 0 THEN v_queue[Vchiq!Index(Vchiq!Padded)] ELSE v_data)
      /\ v_broken' = (v_broken \/ (Vchiq!Offset(Vchiq!Padded) = 0 /\ v_data' \in v_owned))
      /\ v_owned' = v_owned \union {v_data'} /\ v_tx' = (Vchiq!Padded + v_len) % Width
      /\ UNCHANGED <<v_len, v_room, v_tag, v_queue, v_recycled, v_published, v_rx, v_expect, v_full>>
  BY Zenon DEF Vchiq!Reserve, Vchiq!firmware
<1>2. /\ v_tx \in Nat /\ v_rx \in Nat /\ v_recycled \in Nat /\ v_len \in 1..SlotSize /\ SlotSize \in Nat /\ v_tx < Width
      /\ Block(v_rx) \in Nat /\ Block(v_tx) \in Nat /\ v_published \in Nat /\ v_room \in Nat /\ Begun \in Nat
      /\ Offset(v_tx) \in 0..(SlotSize - 1) /\ Width \in Nat \ {0}
  BY RingNumbers, RingAssumption DEF RingInv
<1>3. /\ v_mem' \in [1..RingSlots -> [0..(SlotSize - 1) -> Cell]]
      /\ \A h \in Nat : v_rx <= h /\ h < v_tx => Found(h)' = Found(h)
      /\ v_len > SlotSize - Offset(v_tx) =>
           /\ Offset(v_tx) # 0
           /\ \A p : p = v_tx => Found(p)' = [kind |-> "pad", len |-> SlotSize - Offset(v_tx), tag |-> 0]
  BY <1>1, RingPads DEF RingInv
<1>4. /\ Front = v_tx /\ v_rx <= v_tx /\ Begun <= v_room /\ v_room <= v_recycled /\ Block(v_rx) <= Begun
      /\ v_published <= v_tx /\ v_rx <= v_published
  <2>1. Front = v_tx BY <1>1 DEF Front
  <2> QED BY <2>1, RingFront DEF RingInv, RingBooks
<1>5. PICK p \in Nat : /\ p = IF v_len > SlotSize - Offset(v_tx) THEN v_tx + (SlotSize - Offset(v_tx)) ELSE v_tx
                       /\ Vchiq!Padded = p
  <2>1. Vchiq!Left(v_tx) = SlotSize - Offset(v_tx) BY DEF Vchiq!Left, Vchiq!Offset, Offset
  <2> DEFINE l == SlotSize - Offset(v_tx)
  <2>2. l \in Nat /\ v_tx + l \in Nat /\ v_tx + l < Width BY <1>1, <1>2
  <2>3. (v_tx + l) % Width = v_tx + l BY <1>2, <2>2
  <2>4. Vchiq!Padded = IF v_len > l THEN v_tx + l ELSE v_tx BY <2>1, <2>3 DEF Vchiq!Padded
  <2> HIDE DEF l
  <2>5. CASE v_len > l BY <2>2, <2>4, <2>5 DEF l
  <2>6. CASE ~(v_len > l) BY <1>2, <2>4, <2>6 DEF l
  <2> QED BY <2>5, <2>6
<1>6. /\ v_tx <= p /\ p + v_len < Width /\ v_tx' = p + v_len /\ Offset(p) + v_len <= SlotSize
      /\ Block(p) \in Nat /\ Offset(p) \in 0..(SlotSize - 1)
      /\ Offset(p) = 0 => Block(p) = Begun
      /\ Offset(p) # 0 => Block(p) + 1 = Begun /\ p = v_tx
  <2>1. p + v_len < Width /\ v_tx <= p BY <1>1, <1>2, <1>5
  <2>2. v_tx' = p + v_len
    <3>1. (p + v_len) % Width = p + v_len BY <1>2, <2>1
    <3> QED BY <1>1, <1>5, <3>1
  <2>3. CASE v_len > SlotSize - Offset(v_tx)
    <3> DEFINE l == SlotSize - Offset(v_tx)
    <3>1. l \in Nat /\ p = v_tx + l /\ l = SlotSize - Offset(v_tx) BY <1>2, <1>5, <2>3
    <3> HIDE DEF l
    <3>2. Block(p) = Block(v_tx) + 1 /\ Offset(p) = 0 BY <1>2, <3>1, Blocks
    <3>3. Begun = Block(v_tx) + 1 BY <1>3, <2>3 DEF Begun
    <3> QED BY <1>2, <2>1, <2>2, <3>2, <3>3
  <2>4. CASE ~(v_len > SlotSize - Offset(v_tx))
    <3>1. p = v_tx BY <1>5, <2>4
    <3> QED BY <1>2, <2>1, <2>2, <2>4, <3>1 DEF Begun
  <2> QED BY <2>3, <2>4
<1>7. Front' = p /\ Begun' = Block(p) + 1 /\ v_tx' \in 0..(Width - 1)
  <2>1. Front' = p BY <1>1, <1>2, <1>6 DEF Front
  <2>2. CASE v_len < SlotSize - Offset(p)
    <3>1. Block(v_tx') = Block(p) /\ Offset(v_tx') = Offset(p) + v_len BY <1>2, <1>6, <2>2, Blocks
    <3>2. Offset(v_tx') # 0 BY <1>2, <1>6, <3>1
    <3>3. Begun' = IF Offset(v_tx') = 0 THEN Block(v_tx') ELSE Block(v_tx') + 1 BY DEF Begun, Offset, Block
    <3> QED BY <1>2, <1>6, <2>1, <3>1, <3>2, <3>3
  <2>3. CASE v_len = SlotSize - Offset(p)
    <3>1. Block(v_tx') = Block(p) + 1 /\ Offset(v_tx') = 0 BY <1>2, <1>6, <2>3, Blocks
    <3>3. Begun' = IF Offset(v_tx') = 0 THEN Block(v_tx') ELSE Block(v_tx') + 1 BY DEF Begun, Offset, Block
    <3> QED BY <1>2, <1>6, <2>1, <3>1, <3>3
  <2> QED BY <1>2, <1>6, <2>2, <2>3
<1>8. /\ Vchiq!Offset(Vchiq!Padded) = Offset(p) /\ Vchiq!Index(Vchiq!Padded) = Block(p) % QueueLen
  BY <1>5 DEF Vchiq!Offset, Vchiq!Index, Offset, Block
<1>9. \A q : Entry(q)' = Entry(q) BY <1>1 DEF Entry
<1>10. Heralds' = Heralds /\ v_rx' = v_rx BY <1>1 DEF Heralds
<1>11. v_data' = Entry(Block(p)) /\ v_owned' = v_full \union {Entry(q) : q \in Block(v_rx)..Block(p)} /\ v_broken' = FALSE
       /\ Block(p) < v_room /\ Block(v_rx) <= Block(p)
  <2>1. v_owned = v_full \union {Entry(q) : q \in Block(v_rx)..(Begun - 1)} BY DEF RingInv, Held
  <2>2. v_broken = FALSE BY DEF RingInv
  <2>3. CASE Offset(p) = 0
    <3>1. Block(p) = Begun /\ Begun # v_room
      <4>1. ~(Offset(p) = 0 /\ Block(p) = v_room) BY <1>1, <1>5 DEF Vchiq!NoRoom, Vchiq!Offset, Offset, Block
      <4> QED BY <1>6, <2>3, <4>1
    <3>2. v_data' = Entry(Block(p)) BY <1>1, <1>8, <2>3 DEF Entry
    <3>3. Begun \in Heralds BY <1>2, <1>4, <3>1 DEF Heralds
    <3>4. \A q \in Block(v_rx)..(Begun - 1) : q \in Heralds /\ q # Begun BY <1>2, <1>4 DEF Heralds
    <3>5. Entry(Begun) \notin v_owned BY <2>1, <3>3, <3>4 DEF RingInv, FarApart
    <3>6. Block(v_rx)..Begun = (Block(v_rx)..(Begun - 1)) \union {Begun} BY <1>2, <1>4
    <3>7. v_owned' = v_full \union {Entry(q) : q \in Block(v_rx)..Begun} BY <1>1, <2>1, <3>1, <3>2, <3>6
    <3>8. v_broken' = FALSE BY <1>1, <2>2, <3>2, <3>1, <3>5
    <3>9. Block(p) < v_room /\ Block(v_rx) <= Block(p) BY <1>2, <1>4, <3>1
    <3>10. Begun = Block(p) BY <3>1
    <3>11. v_owned' = v_full \union {Entry(q) : q \in Block(v_rx)..Block(p)} BY <3>7, <3>10
    <3> QED BY <3>2, <3>8, <3>9, <3>11
  <2>4. CASE Offset(p) # 0
    <3>1. Block(p) + 1 = Begun /\ p = v_tx BY <1>6, <2>4
    <3>2. Block(v_rx) <= Block(p) BY <1>2, <1>4, <3>1, Blocks
    <3>3. Begun - 1 = Block(p) /\ Block(v_rx) < Begun BY <1>2, <1>6, <3>1, <3>2
    <3>4. v_data = Entry(Block(p)) BY <3>3 DEF RingInv, Held
    <3>5. v_data' = v_data /\ v_broken' = FALSE BY <1>1, <1>8, <2>2, <2>4
    <3>6. v_data \in v_owned
      <4>1. Block(p) \in Block(v_rx)..(Begun - 1) BY <1>2, <1>6, <3>2, <3>3
      <4> QED BY <2>1, <3>4, <4>1
    <3>7. v_owned' = v_owned BY <1>1, <3>5, <3>6
    <3> QED BY <1>2, <1>4, <1>6, <2>1, <3>1, <3>2, <3>3, <3>4, <3>5, <3>7
  <2> QED BY <2>3, <2>4
<1>12. RingTypes'
  <2>1. v_data' \in 1..RingSlots
    <3>1. QueueLen \in Nat \ {0} BY RingAssumption
    <3>2. Block(p) % QueueLen \in 0..(QueueLen - 1) BY <1>6, <3>1
    <3> QED BY <1>11, <3>2 DEF Entry, RingInv, RingTypes
  <2>2. v_owned' \subseteq 1..RingSlots BY <1>1, <2>1 DEF RingInv, RingTypes
  <2> QED BY <1>1, <1>3, <1>7, <2>1, <2>2 DEF RingInv, RingTypes
<1>13. RingBooks'
  <2>1. Begun' <= v_room' BY <1>1, <1>2, <1>6, <1>7, <1>11
  <2>2. v_published' <= Front' /\ v_rx' <= v_published' BY <1>1, <1>2, <1>4, <1>6, <1>7
  <2>3. v_len' <= v_tx' /\ Offset(Front') + v_len' <= SlotSize BY <1>1, <1>2, <1>6, <1>7
  <2>4. Offset(Front)' = Offset(Front') /\ Block(v_rx)' = Block(v_rx) BY <1>1 DEF Offset, Block
  <2> QED BY <1>1, <2>1, <2>2, <2>3, <2>4 DEF RingInv, RingBooks
<1>14. FarApart' BY <1>1, <1>9, <1>10 DEF RingInv, FarApart
<1>15. Held'
  <2>1. Begun' - 1 = Block(p) BY <1>6, <1>7
  <2>2. Block(v_rx)' = Block(v_rx) BY <1>1 DEF Block
  <2>3. v_full' = v_full BY <1>1
  <2> QED BY <1>9, <1>11, <2>1, <2>2, <2>3 DEF Held
<1>16. \E L \in SUBSET Nat : \E U : Chained(L, U)'
  <2>1. PICK K \in SUBSET Nat : \E T : Chained(K, T) BY DEF RingInv
  <2>2. PICK T : Chained(K, T) BY <2>1
  <2>3. \A h \in K : h < v_tx => Found(h)' = Found(h) BY <1>3, <1>4, <2>2 DEF Chained
  <2>4. v_published' \in K /\ v_rx' = v_rx /\ v_expect' = v_expect /\ v_tag' = v_tag BY <1>1, <2>2 DEF Chained
  <2>5. CASE v_len > SlotSize - Offset(v_tx)
    <3> DEFINE c == [kind |-> "pad", len |-> SlotSize - Offset(v_tx), tag |-> 0]
    <3>1. PICK f \in Nat : f = v_tx BY <1>2
    <3>2. PICK l \in Nat \ {0} : l = SlotSize - Offset(v_tx) BY <1>2
    <3>3. Front' = f + l BY <1>5, <1>7, <2>5, <3>1, <3>2
    <3>4. Found(f)' = c BY <1>3, <2>5, <3>1
    <3>5. c.len = l /\ c.kind # "message" BY <3>2
    <3> HIDE DEF c
    <3>6. PICK t : t = v_tag OBVIOUS
    <3>7. l <= SlotSize - Offset(f) /\ Offset(f) \in Nat BY <1>2, <3>1, <3>2
    <3>8. f = Front /\ v_tag' = t BY <1>4, <2>4, <3>1, <3>6
    <3>9. \A h \in K : h < f => Found(h)' = Found(h) BY <2>3, <3>1
    <3> QED BY <1>2, <2>2, <2>4, <3>3, <3>4, <3>5, <3>6, <3>7, <3>8, <3>9, ChainGrows
  <2>6. CASE ~(v_len > SlotSize - Offset(v_tx))
    <3>1. Front' = Front BY <1>4, <1>5, <1>7, <2>6
    <3>2. \A h \in K : h < Front => Found(h)' = Found(h) BY <1>4, <2>3
    <3> QED BY <2>2, <2>4, <3>1, <3>2, ChainKept
  <2> QED BY <2>5, <2>6
<1> QED BY <1>11, <1>12, <1>13, <1>14, <1>15, <1>16 DEF RingInv

LEMMA RingReads == RingInv /\ v_rx # v_published => /\ Found(v_rx).len > 0 /\ Vchiq!ReadsOn
<1> SUFFICES ASSUME RingInv, v_rx # v_published PROVE Found(v_rx).len > 0 /\ Vchiq!ReadsOn OBVIOUS
<1>1. v_rx \in Nat /\ v_published \in Nat /\ Front \in Nat /\ SlotSize \in Nat /\ Offset(v_rx) \in 0..(SlotSize - 1)
  <2>1. v_rx \in Nat /\ v_published \in Nat /\ Front \in Nat /\ SlotSize \in Nat BY RingNumbers, RingFront DEF RingInv
  <2> QED BY <2>1, Blocks
<1>2. v_rx < Front BY <1>1 DEF RingInv, RingBooks
<1>3. PICK K \in SUBSET Nat : \E T : Chained(K, T) BY DEF RingInv
<1>4. PICK T : Chained(K, T) BY <1>3
<1>5. Follows(K, T, v_rx) BY <1>2, <1>4 DEF Chained
<1>6. Found(v_rx).len \in 1..(SlotSize - Offset(v_rx)) BY <1>5 DEF Follows
<1>7. Found(v_rx).len > 0 BY <1>1, <1>6
<1> QED BY <1>7 DEF Vchiq!ReadsOn, Found, Entry, Block, Offset, Vchiq!Index, Vchiq!Offset

LEMMA RingRead == RingInv /\ Vchiq!Read => RingInv'
<1> SUFFICES ASSUME RingInv, Vchiq!Read PROVE RingInv' OBVIOUS
<1>1. /\ v_tx \in Nat /\ v_rx \in Nat /\ v_recycled \in Nat /\ SlotSize \in Nat /\ v_tx < Width
      /\ Block(v_rx) \in Nat /\ v_published \in Nat /\ Begun \in Nat
      /\ Offset(v_rx) \in 0..(SlotSize - 1) /\ Width \in Nat \ {0}
  <2>1. /\ v_tx \in Nat /\ v_rx \in Nat /\ v_recycled \in Nat /\ SlotSize \in Nat /\ v_tx < Width
        /\ Block(v_rx) \in Nat /\ v_published \in Nat /\ Begun \in Nat
    BY RingNumbers DEF RingInv
  <2> QED BY <2>1, RingAssumption, Blocks
<1>2. /\ Front \in Nat /\ Front <= v_tx /\ v_rx <= v_published /\ v_published <= Front /\ v_rx # v_published
  BY RingFront DEF RingInv, RingBooks, Vchiq!Read
<1>3. v_rx < v_published /\ v_rx < Front /\ v_rx < v_tx BY <1>1, <1>2
<1>4. PICK K \in SUBSET Nat : \E T : Chained(K, T) BY DEF RingInv
<1>5. PICK T : Chained(K, T) BY <1>4
<1>6. Follows(K, T, v_rx) BY <1>3, <1>5 DEF Chained
<1> DEFINE m == Found(v_rx)
           s == Entry(Block(v_rx))
<1>7. PICK l \in Nat : l = m.len /\ l \in 1..(SlotSize - Offset(v_rx)) BY <1>1, <1>6 DEF Follows
<1>8. PICK e \in Nat : e = v_rx + l BY <1>1
<1>9. /\ e \in K /\ (\A x \in K : x > v_rx => x >= e)
      /\ IF m.kind = "message" THEN m.tag = T[v_rx] /\ T[e] = Vchiq!NextTag(T[v_rx]) ELSE T[e] = T[v_rx]
  BY <1>6, <1>7, <1>8 DEF Follows
<1>10. v_rx < e /\ e <= v_published /\ e < Width
  <2>1. v_published \in K /\ v_published >= e BY <1>1, <1>3, <1>5, <1>9 DEF Chained
  <2> QED BY <1>1, <1>2, <1>7, <1>8, <2>1
<1>11. /\ Vchiq!Index(v_rx) = Block(v_rx) % QueueLen /\ v_queue[Vchiq!Index(v_rx)] = s
       /\ v_mem[v_queue[Vchiq!Index(v_rx)]][Vchiq!Offset(v_rx)] = m
  BY DEF Vchiq!Index, Vchiq!Offset, Block, Offset, Entry, Found
<1>12. (v_rx + m.len) % Width = e
  <2>1. e % Width = e BY <1>1, <1>10
  <2> QED BY <1>7, <1>8, <2>1
<1>13. /\ v_rx' = e
       /\ v_expect' = (IF m.kind = "message" THEN Vchiq!NextTag(v_expect) ELSE v_expect)
       /\ v_broken' = (v_broken \/ (m.kind = "message" /\ m.tag # v_expect))
       /\ v_full' = (IF Offset(e) = 0 THEN v_full \union {s} ELSE v_full)
       /\ UNCHANGED <<v_step, v_len, v_tx, v_data, v_room, v_tag, v_mem, v_queue, v_recycled, v_published, v_owned>>
  <2> HIDE DEF m, s
  <2>1. Vchiq!Offset(e) = Offset(e) BY DEF Vchiq!Offset, Offset
  <2> QED BY <1>11, <1>12, <2>1, Zenon DEF Vchiq!Read, Vchiq!sender, Vchiq!shared
<1>14. v_broken' = FALSE /\ T[e] = v_expect'
  <2>1. T[v_rx] = v_expect BY <1>5 DEF Chained
  <2> QED BY <1>9, <1>13, <2>1 DEF RingInv
<1> HIDE DEF m
<1>15. Front' = Front /\ Begun' = Begun /\ \A q : Entry(q)' = Entry(q) BY <1>13 DEF Front, Begun, Entry
<1>16. Block(v_rx)' = Block(e) BY <1>13 DEF Block
<1>17. Block(v_rx) < Begun /\ Begun <= v_recycled /\ Block(v_rx) \in Heralds
  BY <1>1, <1>3, RingFront DEF RingInv
<1>18. s \in 1..RingSlots
  <2>1. QueueLen \in Nat \ {0} BY RingAssumption
  <2>2. Block(v_rx) % QueueLen \in 0..(QueueLen - 1) BY <1>1, <2>1
  <2> QED BY <2>2 DEF Entry, RingInv, RingTypes
<1>19. IsFiniteSet(v_full) /\ Cardinality(v_full) \in Nat
  <2>1. IsFiniteSet(1..RingSlots) BY RingAssumption, FS_Interval
  <2>2. IsFiniteSet(v_full) BY <2>1, FS_Subset DEF RingInv, RingTypes
  <2> QED BY <2>2, FS_CardinalityType
<1>20. s \notin v_full BY <1>17 DEF RingInv, FarApart
<1>21. /\ Offset(e) = 0 => Block(e) = Block(v_rx) + 1
       /\ Offset(e) # 0 => Block(e) = Block(v_rx)
  <2>1. CASE l < SlotSize - Offset(v_rx)
    <3>1. Block(e) = Block(v_rx) /\ Offset(e) = Offset(v_rx) + l BY <1>1, <1>8, <2>1, Blocks
    <3>2. Offset(e) # 0 BY <1>1, <1>7, <3>1
    <3> QED BY <3>1, <3>2
  <2>2. CASE l = SlotSize - Offset(v_rx)
    <3>1. Block(e) = Block(v_rx) + 1 /\ Offset(e) = 0 BY <1>1, <1>8, <2>2, Blocks
    <3> QED BY <3>1
  <2> QED BY <1>1, <1>7, <2>1, <2>2
<1>22. RingTypes'
  <2>1. v_rx' \in 0..(Width - 1) BY <1>1, <1>10, <1>13
  <2>2. v_expect' \in 0..2 BY <1>13 DEF RingInv, RingTypes, Vchiq!NextTag
  <2>3. v_full' \subseteq 1..RingSlots BY <1>13, <1>18 DEF RingInv, RingTypes
  <2> QED BY <1>13, <2>1, <2>2, <2>3 DEF RingInv, RingTypes
<1>23. RingBooks'
  <2>1. v_recycled' + Cardinality(v_full') = RingSlots + Block(e)
    <3>1. v_recycled + Cardinality(v_full) = RingSlots + Block(v_rx) /\ v_recycled' = v_recycled
      BY <1>13 DEF RingInv, RingBooks
    <3>2. CASE Offset(e) = 0
      <4>1. Cardinality(v_full \union {s}) = Cardinality(v_full) + 1 BY <1>19, <1>20, FS_AddElement
      <4>2. v_full' = v_full \union {s} BY <1>13, <3>2
      <4>3. Block(e) = Block(v_rx) + 1 BY <1>21, <3>2
      <4> QED BY <1>1, <1>19, <3>1, <4>1, <4>2, <4>3, RingAssumption
    <3>3. CASE Offset(e) # 0
      <4>1. v_full' = v_full /\ Block(e) = Block(v_rx) BY <1>13, <1>21, <3>3
      <4> QED BY <3>1, <4>1
    <3> QED BY <3>2, <3>3
  <2>2. v_rx' <= v_published' BY <1>10, <1>13
  <2>3. Offset(Front)' = Offset(Front) BY <1>15 DEF Offset
  <2> QED BY <1>13, <1>15, <1>16, <2>1, <2>2, <2>3 DEF RingInv, RingBooks
<1>24. Heralds' \subseteq Heralds /\ (Offset(e) = 0 => Block(v_rx) \notin Heralds')
  <2>1. Heralds' = Block(e)..(v_recycled - 1) BY <1>13, <1>16 DEF Heralds
  <2> DEFINE a == Block(v_rx)
             b == Block(e)
  <2>2. a \in Nat /\ b \in Nat /\ a <= b /\ (Offset(e) = 0 => a < b) BY <1>1, <1>21
  <2>3. Heralds' = b..(v_recycled - 1) /\ Heralds = a..(v_recycled - 1) BY <2>1 DEF Heralds
  <2> HIDE DEF a, b
  <2>4. b..(v_recycled - 1) \subseteq a..(v_recycled - 1) /\ (Offset(e) = 0 => a \notin b..(v_recycled - 1)) BY <1>1, <2>2
  <2> QED BY <2>3, <2>4 DEF a
<1>25. FarApart'
  <2>1. \A q, r \in Heralds' : q # r => Entry(q) # Entry(r) BY <1>24 DEF RingInv, FarApart
  <2>2. \A q \in Heralds' : Entry(q) \notin v_full'
    <3> SUFFICES ASSUME NEW q \in Heralds' PROVE Entry(q) \notin v_full' OBVIOUS
    <3>1. q \in Heralds /\ Entry(q) \notin v_full BY <1>24 DEF RingInv, FarApart
    <3>2. CASE Offset(e) = 0
      <4>1. q # Block(v_rx) BY <1>24, <3>2
      <4>2. Entry(q) # s BY <1>17, <3>1, <4>1 DEF RingInv, FarApart
      <4> QED BY <1>13, <3>1, <3>2, <4>2
    <3>3. CASE Offset(e) # 0 BY <1>13, <3>1, <3>3
    <3> QED BY <3>2, <3>3
  <2> QED BY <1>15, <2>1, <2>2 DEF FarApart
<1>26. Held'
  <2>1. v_owned = v_full \union {Entry(q) : q \in Block(v_rx)..(Begun - 1)} /\ v_data = Entry(Begun - 1)
    BY <1>17 DEF RingInv, Held
  <2>2. v_owned = v_full' \union {Entry(q) : q \in Block(e)..(Begun - 1)}
    <3>1. CASE Offset(e) = 0
      <4>1. Block(v_rx)..(Begun - 1) = (Block(e)..(Begun - 1)) \union {Block(v_rx)} BY <1>1, <1>17, <1>21, <3>1
      <4>2. v_full' = v_full \union {s} BY <1>13, <3>1
      <4> QED BY <2>1, <4>1, <4>2
    <3>2. CASE Offset(e) # 0 BY <1>13, <1>21, <2>1, <3>2
    <3> QED BY <3>1, <3>2
  <2>3. v_owned' = v_owned /\ v_data' = v_data BY <1>13
  <2> QED BY <1>15, <1>16, <2>1, <2>2, <2>3 DEF Held
<1>27. \E L \in SUBSET Nat : \E U : Chained(L, U)'
  <2> DEFINE L == {h \in K : h >= e}
  <2>1. L \in SUBSET Nat OBVIOUS
  <2>2. e \in L /\ v_published \in L /\ Front \in L
    <3>1. v_published \in K /\ Front \in K /\ e <= Front BY <1>1, <1>2, <1>5, <1>10 DEF Chained
    <3> QED BY <1>9, <1>10, <3>1
  <2>3. \A h \in L : h \in K /\ e <= h /\ h <= Front BY <1>5 DEF Chained
  <2>4. ASSUME NEW h \in L, h < Front PROVE Follows(L, T, h)'
    <3>1. h \in K /\ Follows(K, T, h) BY <1>5, <2>3, <2>4 DEF Chained
    <3>2. Found(h)' = Found(h) BY <1>13 DEF Found, Entry
    <3>3. h + Found(h).len \in L
      <4>1. h \in Nat /\ e <= h /\ h + Found(h).len \in K /\ Found(h).len \in 1..(SlotSize - Offset(h)) BY <2>3, <3>1 DEF Follows
      <4>2. Offset(h) \in 0..(SlotSize - 1) BY <4>1, Blocks
      <4>3. Found(h).len \in Nat BY <1>1, <4>1, <4>2
      <4> DEFINE n == Found(h).len
      <4>4. n \in Nat /\ h + n \in K BY <4>1, <4>3
      <4> HIDE DEF n
      <4>5. h + n >= e BY <4>1, <4>4
      <4>6. h + n \in L BY <4>4, <4>5
      <4> QED BY <4>6 DEF n
    <3>4. \A x \in L : x > h => x >= h + Found(h).len BY <2>3, <3>1 DEF Follows
    <3> HIDE DEF L
    <3> QED BY <3>1, <3>2, <3>3, <3>4 DEF Follows, Vchiq!NextTag
  <2> HIDE DEF L
  <2>5. T[Front] = v_tag BY <1>5 DEF Chained
  <2>6. v_tag' = v_tag /\ v_published' = v_published BY <1>13
  <2>7. Chained(L, T)' BY <1>13, <1>14, <1>15, <2>2, <2>3, <2>4, <2>5, <2>6 DEF Chained
  <2> QED BY <2>1, <2>7
<1> QED BY <1>14, <1>22, <1>23, <1>25, <1>26, <1>27 DEF RingInv

LEMMA RingRecycle == RingInv /\ Vchiq!Recycle => RingInv'
<1> SUFFICES ASSUME RingInv, Vchiq!Recycle PROVE RingInv' OBVIOUS
<1>1. PICK s \in v_full : /\ v_queue' = [v_queue EXCEPT ![v_recycled % QueueLen] = s]
                          /\ v_full' = v_full \ {s} /\ v_owned' = v_owned \ {s}
  BY DEF Vchiq!Recycle
<1>2. /\ v_recycled' = (v_recycled + 1) % Count
      /\ UNCHANGED <<v_step, v_len, v_tx, v_data, v_room, v_tag, v_mem, v_published, v_rx, v_expect, v_broken>>
  BY DEF Vchiq!Recycle, Vchiq!sender
<1>3. /\ v_tx \in Nat /\ v_rx \in Nat /\ v_recycled \in Nat /\ SlotSize \in Nat \ {0} /\ v_rx < Width
      /\ Block(v_rx) \in Nat /\ Begun \in Nat /\ Width \in Nat \ {0} /\ QueueLen \in Nat /\ RingSlots \in Nat
      /\ RingSlots <= QueueLen /\ Count \in Nat
  <2>1. v_rx < Width BY RingAssumption DEF RingInv, RingTypes
  <2> QED BY <2>1, RingNumbers, RingAssumption DEF RingInv
<1>4. s \in 1..RingSlots BY <1>1 DEF RingInv, RingTypes
<1>5. IsFiniteSet(v_full) /\ Cardinality(v_full) \in Nat /\ Cardinality(v_full) >= 1
      /\ Cardinality(v_full') = Cardinality(v_full) - 1
  <2>1. IsFiniteSet(1..RingSlots) BY <1>3, FS_Interval
  <2>2. IsFiniteSet(v_full) BY <2>1, FS_Subset DEF RingInv, RingTypes
  <2>3. Cardinality(v_full) \in Nat BY <2>2, FS_CardinalityType
  <2>4. Cardinality(v_full \ {s}) = Cardinality(v_full) - 1 BY <1>1, <2>2, FS_RemoveElement
  <2>5. Cardinality(v_full \ {s}) \in Nat
    <3>1. IsFiniteSet(v_full \ {s}) BY <2>2, FS_RemoveElement
    <3> QED BY <3>1, FS_CardinalityType
  <2> QED BY <1>1, <2>2, <2>3, <2>4, <2>5
<1>6. v_recycled + Cardinality(v_full) = RingSlots + Block(v_rx) BY DEF RingInv, RingBooks
<1>7. v_recycled < RingSlots + Block(v_rx) /\ v_recycled - Block(v_rx) < RingSlots BY <1>3, <1>5, <1>6
<1>8. v_recycled' = v_recycled + 1
  <2>1. Block(v_rx) <= Block(Width) /\ Block(Width) = Width \div SlotSize
    <3>1. v_rx <= Width BY <1>3
    <3> QED BY <1>3, <3>1, Blocks DEF Block
  <2>2. (Width \div SlotSize) + RingSlots < Count BY RingAssumption
  <2>3. Block(Width) \in Nat BY <1>3, Blocks
  <2>4. v_recycled + 1 < Count BY <1>3, <1>7, <2>1, <2>2, <2>3
  <2>5. (v_recycled + 1) % Count = v_recycled + 1 BY <1>3, <2>4
  <2> QED BY <1>2, <2>5
<1>9. \A q \in Heralds : Entry(q)' = Entry(q)
  <2> SUFFICES ASSUME NEW q \in Heralds PROVE Entry(q)' = Entry(q) OBVIOUS
  <2>1. q \in Nat /\ q < v_recycled /\ v_recycled - q < QueueLen BY <1>3, <1>7 DEF Heralds
  <2>2. q % QueueLen # v_recycled % QueueLen BY <1>3, <2>1, EntriesApart
  <2>3. q % QueueLen \in 0..(QueueLen - 1) BY <1>3, <2>1
  <2>4. v_queue'[q % QueueLen] = v_queue[q % QueueLen] BY <1>1, <2>2, <2>3 DEF RingInv, RingTypes
  <2> QED BY <2>4 DEF Entry
<1>10. \A q : q = v_recycled => Entry(q)' = s
  <2>1. QueueLen \in Nat \ {0} BY RingAssumption
  <2>2. v_recycled % QueueLen \in 0..(QueueLen - 1) BY <1>3, <2>1
  <2> QED BY <1>1, <2>2 DEF Entry, RingInv, RingTypes
<1>11. Heralds' = Heralds \union {v_recycled}
  <2>1. Heralds' = Block(v_rx)..v_recycled BY <1>2, <1>3, <1>8 DEF Heralds, Block
  <2>2. Block(v_rx) <= v_recycled
    <3>1. Begun <= v_recycled /\ Block(v_rx) <= Begun BY RingFront DEF RingInv
    <3> QED BY <1>3, <3>1
  <2> DEFINE a == Block(v_rx)
  <2>3. a \in Nat /\ a <= v_recycled /\ Heralds = a..(v_recycled - 1) /\ Heralds' = a..v_recycled BY <1>3, <2>1, <2>2 DEF Heralds
  <2> HIDE DEF a
  <2>4. a..v_recycled = (a..(v_recycled - 1)) \union {v_recycled} BY <1>3, <2>3
  <2> QED BY <2>3, <2>4
<1>12. v_recycled \notin Heralds BY <1>3 DEF Heralds
<1>13. Front' = Front /\ Begun' = Begun /\ Block(v_rx)' = Block(v_rx) BY <1>2 DEF Front, Begun, Block
<1>14. RingTypes'
  <2>1. v_recycled' \in Nat BY <1>3, <1>8
  <2>2. v_full' \subseteq 1..RingSlots /\ v_owned' \subseteq 1..RingSlots BY <1>1 DEF RingInv, RingTypes
  <2>3. v_queue' \in [0..(QueueLen - 1) -> 1..RingSlots] BY <1>1, <1>4 DEF RingInv, RingTypes
  <2> QED BY <1>2, <2>1, <2>2, <2>3 DEF RingInv, RingTypes
<1>15. RingBooks'
  <2>1. v_recycled' + Cardinality(v_full') = RingSlots + Block(v_rx) BY <1>3, <1>5, <1>6, <1>8
  <2>2. v_room' <= v_recycled'
    <3>1. v_room \in Nat /\ v_room <= v_recycled BY DEF RingInv, RingBooks, RingTypes
    <3> QED BY <1>2, <1>3, <1>8, <3>1
  <2>3. Offset(Front)' = Offset(Front) BY <1>13 DEF Offset
  <2> QED BY <1>2, <1>13, <2>1, <2>2, <2>3 DEF RingInv, RingBooks
<1>16. FarApart'
  <2>1. \A q \in Heralds : Entry(q)' = Entry(q) /\ Entry(q) \notin v_full /\ Entry(q) # s BY <1>1, <1>9 DEF RingInv, FarApart
  <2>2. PICK n : n = v_recycled OBVIOUS
  <2>3. Entry(n)' = s /\ Heralds' = Heralds \union {n} BY <1>10, <1>11, <2>2
  <2>4. \A q, r \in Heralds : q # r => Entry(q)' # Entry(r)' BY <2>1 DEF RingInv, FarApart
  <2>5. \A q, r \in Heralds' : q # r => Entry(q)' # Entry(r)'
    <3> SUFFICES ASSUME NEW q \in Heralds', NEW r \in Heralds', q # r PROVE Entry(q)' # Entry(r)' OBVIOUS
    <3>1. CASE q \in Heralds /\ r \in Heralds BY <2>4, <3>1
    <3>2. CASE q = n /\ r \in Heralds BY <2>1, <2>3, <3>2
    <3>3. CASE q \in Heralds /\ r = n BY <2>1, <2>3, <3>3
    <3> QED BY <2>3, <3>1, <3>2, <3>3
  <2>6. \A q \in Heralds' : Entry(q)' \notin v_full' BY <1>1, <2>1, <2>3
  <2> QED BY <2>5, <2>6 DEF FarApart
<1>17. \A q \in Block(v_rx)..(Begun - 1) : q \in Heralds
  <2>1. Begun <= v_recycled BY RingFront DEF RingInv
  <2> QED BY <1>3, <2>1 DEF Heralds
<1>18. Held'
  <2>1. v_owned = v_full \union {Entry(q) : q \in Block(v_rx)..(Begun - 1)} BY DEF RingInv, Held
  <2>2. \A q \in Block(v_rx)..(Begun - 1) : Entry(q)' = Entry(q) /\ Entry(q) # s BY <1>1, <1>9, <1>17 DEF RingInv, FarApart
  <2> DEFINE B == Block(v_rx)..(Begun - 1)
  <2>3. v_owned = v_full \union {Entry(q) : q \in B} /\ \A q \in B : Entry(q)' = Entry(q) /\ Entry(q) # s BY <2>1, <2>2
  <2>4. v_owned' = v_full' \union {Entry(q) : q \in B} BY <1>1, <2>3
  <2>5. {Entry(q)' : q \in B} = {Entry(q) : q \in B} BY <2>3
  <2>6. v_owned' = v_full' \union {Entry(q)' : q \in B} BY <2>4, <2>5
  <2>7. Block(v_rx) < Begun => v_data' = Entry(Begun - 1)'
    <3> SUFFICES ASSUME Block(v_rx) < Begun PROVE v_data' = Entry(Begun - 1)' OBVIOUS
    <3>1. PICK n : n = Begun - 1 OBVIOUS
    <3>2. n \in B /\ v_data = Entry(n) BY <1>3, <3>1 DEF RingInv, Held
    <3>3. v_data' = Entry(n)' BY <1>2, <2>3, <3>2
    <3>4. (Begun - 1)' = n BY <1>13, <3>1
    <3> QED BY <3>3, <3>4 DEF Entry
  <2> QED BY <1>13, <2>6, <2>7 DEF Held, Entry
<1>19. \E L \in SUBSET Nat : \E U : Chained(L, U)'
  <2>1. PICK K \in SUBSET Nat : \E T : Chained(K, T) BY DEF RingInv
  <2>2. PICK T : Chained(K, T) BY <2>1
  <2>3. \A h \in K : h < Front => Found(h)' = Found(h)
    <3> SUFFICES ASSUME NEW h \in K, h < Front PROVE Found(h)' = Found(h) OBVIOUS
    <3>1. h \in Nat /\ v_rx <= h BY <2>2 DEF Chained
    <3>2. h < v_tx
      <4>1. Front \in Nat /\ Front <= v_tx BY RingFront DEF RingInv
      <4> QED BY <1>3, <3>1, <4>1
    <3>3. Block(h) \in Heralds BY <3>1, <3>2, RingFront DEF RingInv
    <3>4. Entry(Block(h))' = Entry(Block(h)) BY <1>9, <3>3
    <3> QED BY <1>2, <3>4 DEF Found
  <2>4. v_published' \in K BY <1>2, <2>2 DEF Chained
  <2> QED BY <1>2, <1>13, <2>2, <2>3, <2>4, ChainKept
<1> QED BY <1>2, <1>14, <1>15, <1>16, <1>18, <1>19 DEF RingInv

LEMMA RingStep == RingInv /\ [Vchiq!Next]_vVars => RingInv'
<1> SUFFICES ASSUME RingInv, [Vchiq!Next]_vVars PROVE RingInv' OBVIOUS
<1>1. CASE UNCHANGED vVars
  <2>1. /\ UNCHANGED <<v_tx, v_data, v_tag, v_mem, v_queue, v_recycled, v_rx, v_expect, v_full, v_owned, v_broken>>
        /\ v_published' = v_published /\ v_step' = v_step /\ v_len' = v_len /\ v_room' = v_room
    BY <1>1 DEF vVars
  <2>2. RingTypes' BY <2>1 DEF RingInv, RingTypes
  <2>3. Front' = Front /\ Begun' = Begun BY <2>1 DEF Front, Begun
  <2>4. RingBooks' BY <2>1, <2>3 DEF RingInv, RingBooks
  <2> QED BY <2>1, <2>2, <2>3, <2>4, RingStays
<1>2. CASE Vchiq!Next
  BY <1>2, RingPoll, RingSend, RingOutOfSlots, RingReserve, RingFill, RingPublish, RingRead, RingRecycle DEF Vchiq!Next
<1> QED BY <1>1, <1>2

LEMMA RingSays == RingInv => Vchiq!TypeOK /\ Vchiq!Delivered /\ Vchiq!ReadsOn
<1> SUFFICES ASSUME RingInv PROVE Vchiq!TypeOK /\ Vchiq!Delivered /\ Vchiq!ReadsOn OBVIOUS
<1>1. Vchiq!Delivered BY DEF RingInv, Vchiq!Delivered
<1>2. Vchiq!ReadsOn
  <2>1. CASE v_rx = v_published BY <2>1 DEF Vchiq!ReadsOn
  <2>2. CASE v_rx # v_published BY <2>2, RingReads
  <2> QED BY <2>1, <2>2
<1>3. {v_room, v_recycled} \subseteq 0..(Count - 1)
  <2>1. /\ v_rx \in Nat /\ v_recycled \in Nat /\ v_room \in Nat /\ SlotSize \in Nat \ {0} /\ v_rx < Width
        /\ Block(v_rx) \in Nat /\ Width \in Nat \ {0} /\ RingSlots \in Nat /\ Count \in Nat
    <3>1. v_rx < Width BY RingAssumption DEF RingInv, RingTypes
    <3> QED BY <3>1, RingNumbers, RingAssumption DEF RingInv
  <2>2. Cardinality(v_full) \in Nat
    <3>1. IsFiniteSet(1..RingSlots) BY <2>1, FS_Interval
    <3>2. IsFiniteSet(v_full) BY <3>1, FS_Subset DEF RingInv, RingTypes
    <3> QED BY <3>2, FS_CardinalityType
  <2>3. v_recycled <= RingSlots + Block(v_rx) /\ v_room <= v_recycled BY <2>1, <2>2 DEF RingInv, RingBooks
  <2>4. Block(v_rx) <= Block(Width) /\ Block(Width) = Width \div SlotSize
    <3>1. v_rx <= Width BY <2>1
    <3> QED BY <2>1, <3>1, Blocks DEF Block
  <2>5. (Width \div SlotSize) + RingSlots < Count BY RingAssumption
  <2>6. Block(Width) \in Nat BY <2>1, Blocks
  <2>7. v_recycled < Count /\ v_room < Count BY <2>1, <2>3, <2>4, <2>5, <2>6
  <2> QED BY <2>1, <2>7
<1>4. v_full \subseteq v_owned BY DEF RingInv, Held
<1> QED BY <1>1, <1>2, <1>3, <1>4 DEF Vchiq!TypeOK, Vchiq!Slot, RingInv, RingTypes, Cell

(* The Classic channels. *)

Slotted == [inUse : BOOLEAN, remote : 0..Opens, connected : BOOLEAN, rsp : BOOLEAN, req : BOOLEAN]
Frames2 == {"ConnReq", "ConnRsp", "ConfReq", "ConfRsp", "DiscReq", "DiscRsp", "Data", "Reject", "Down"}
Told2 == [type : Frames2, ours : 0..Channels, peers : 0..Opens, ok : BOOLEAN]
Theirs == [ours : 0..Channels, state : {"Config", "Open", "Closing", "Closed"}, asked : BOOLEAN]
Vacant == [inUse |-> FALSE, remote |-> 0, connected |-> FALSE, rsp |-> FALSE, req |-> FALSE]
Tables(ch, W, P, U, th, given) ==
  /\ ch \in [1..Channels -> Slotted] /\ P \in Seq(Told2) /\ U \in Seq(Told2) /\ th \in [1..Opens -> Theirs]
  /\ given \in 0..Opens /\ W \subseteq 1..Channels
\* A slot not in use is empty; one connected knows the peer's channel; which is of this slot.
Shaped(ch, th, given) ==
  \A s \in 1..Channels : /\ ~ch[s].inUse => ch[s] = Vacant
                         /\ ch[s].connected => ch[s].remote # 0
                         /\ ch[s].remote # 0 => ch[s].remote <= given /\ th[ch[s].remote].ours = s
\* Channels the peer has not given out are spoken of by nobody.
NumberedBy(P, U, th, given) ==
  /\ \A c \in 1..Opens : c > given => th[c].state = "Closed"
  /\ \A k \in DOMAIN P : P[k].peers <= given
  /\ \A k \in DOMAIN U : U[k].peers <= given
\* An acceptance on its way is of a channel nothing was said of yet.
Accepted(ch, P, U, th) ==
  \A k \in DOMAIN U : U[k].type = "ConnRsp" /\ U[k].ok =>
    /\ U[k].peers # 0 /\ th[U[k].peers].ours = U[k].ours /\ th[U[k].peers].state = "Config"
    /\ \A j \in DOMAIN P : P[j].peers # U[k].peers
    /\ \A s \in 1..Channels : ch[s].remote # U[k].peers
    /\ \A j \in DOMAIN U : U[j].type = "ConnRsp" /\ U[j].ok /\ U[j].peers = U[k].peers => j = k
\* Ours on their way: configuration before its answer and the close, a close before the answer to the peer's.
Configures(P, th) ==
  \A k \in DOMAIN P : P[k].type = "ConfReq" =>
    /\ P[k].peers # 0 /\ th[P[k].peers].state = "Config"
    /\ \A j \in DOMAIN P : P[j].type \in {"ConfRsp", "DiscReq"} /\ P[j].peers = P[k].peers => k < j
Closes(P, th) ==
  \A k \in DOMAIN P : P[k].type = "DiscReq" =>
    /\ P[k].peers # 0 /\ th[P[k].peers].state # "Closed"
    /\ \A j \in DOMAIN P : P[j].type \in {"DiscReq", "DiscRsp"} /\ P[j].peers = P[k].peers => k <= j
Agrees(P, th) ==
  \A k \in DOMAIN P : P[k].type = "DiscRsp" =>
    /\ P[k].peers # 0 /\ th[P[k].peers].state = "Closing"
    /\ \A j \in DOMAIN P : P[j].type = "DiscRsp" /\ P[j].peers = P[k].peers => j = k
\* A channel held, or being opened, is not closed at its other end, nor about to be by us.
Trusted(ch, W, P, th) ==
  \A s \in W : ch[s].remote # 0 =>
    /\ th[ch[s].remote].state # "Closed"
    /\ \A j \in DOMAIN P : P[j].type \in {"DiscReq", "DiscRsp"} => P[j].peers # ch[s].remote
\* The peer's close on its way.
Leaves(P, U, th) ==
  \A k \in DOMAIN U : U[k].type = "DiscReq" =>
    /\ U[k].peers # 0 /\ th[U[k].peers].ours = U[k].ours /\ th[U[k].peers].state = "Closing"
    /\ \A j \in DOMAIN U : U[j].type = "DiscReq" /\ U[j].peers = U[k].peers => j = k
    /\ \A j \in DOMAIN P : P[j].type = "DiscRsp" => P[j].peers # U[k].peers
NoReject(U) == \A k \in DOMAIN U : U[k].type # "Reject"
\* For a CID the peer has one channel.
OneForEach(th) == \A c, d \in 1..Opens : th[c].ours = th[d].ours /\ th[c].state # "Closed" /\ th[d].state # "Closed" => c = d
\* A slot that was clean when it was opened: nothing about an earlier use of it comes while it opens.
Undisturbed(O, dirty, P, U) ==
  \A s \in O \ dirty : /\ \A k \in DOMAIN U : U[k].type = "DiscRsp" => U[k].ours # s
                       /\ \A k \in DOMAIN P : P[k].type = "DiscReq" => P[k].ours # s
Requested(ch, P, U, th, dirty) ==
  \A k \in DOMAIN P : P[k].type = "ConnReq" /\ P[k].ours \notin dirty =>
    /\ P[k].ours # 0 /\ ch[P[k].ours].inUse /\ ch[P[k].ours].remote = 0
    /\ \A j \in DOMAIN U : U[j].ours # P[k].ours
    /\ \A j \in DOMAIN P : P[j].ours = P[k].ours => j = k
    /\ \A c \in 1..Opens : th[c].ours = P[k].ours => th[c].state = "Closed"
Answered(ch, U, th, dirty) ==
  \A k \in DOMAIN U : U[k].type = "ConnRsp" /\ U[k].ours \notin dirty =>
    /\ U[k].ours # 0 /\ ch[U[k].ours].remote = 0 /\ (U[k].ok \/ U[k].peers = 0)
    /\ \A j \in DOMAIN U : U[j].type = "Data" => U[j].ours # U[k].ours
    /\ \A j \in DOMAIN U : U[j].type = "ConnRsp" /\ U[j].ours = U[k].ours => j = k
    /\ \A c \in 1..Opens : th[c].ours = U[k].ours /\ th[c].state # "Closed" => c = U[k].peers
\* What may carry data for it is its own channel.
Carries(ch, P, U, th, dirty) ==
  /\ \A c \in 1..Opens : th[c].ours # 0 /\ th[c].ours \notin dirty /\ ch[th[c].ours].inUse /\ th[c].state = "Open"
                           => ch[th[c].ours].remote = c
  /\ \A k \in DOMAIN U : U[k].type = "Data" /\ U[k].ours # 0 /\ U[k].ours \notin dirty /\ ch[U[k].ours].inUse
                           => ch[U[k].ours].remote = U[k].peers
  /\ \A k \in DOMAIN P : P[k].type = "ConfRsp" /\ P[k].peers # 0 =>
       LET c == P[k].peers IN
       th[c].ours # 0 /\ th[c].ours \notin dirty /\ ch[th[c].ours].inUse /\ th[c].state \in {"Config", "Open"}
         => ch[th[c].ours].remote = c
Core(ch, W, O, P, U, th, given, dirty) ==
  /\ Tables(ch, W, P, U, th, given) /\ Shaped(ch, th, given) /\ NumberedBy(P, U, th, given)
  /\ Accepted(ch, P, U, th) /\ Configures(P, th) /\ Closes(P, th) /\ Agrees(P, th) /\ Trusted(ch, W, P, th)
  /\ Leaves(P, U, th) /\ NoReject(U) /\ OneForEach(th) /\ Undisturbed(O, dirty, P, U)
  /\ Requested(ch, P, U, th, dirty) /\ Answered(ch, U, th, dirty) /\ Carries(ch, P, U, th, dirty)


\* Of a sequence, what is left when its front or its end goes.
PartOf(r, q) == /\ r \in Seq(Told2)
              /\ \E n \in Nat : \A k \in DOMAIN r : k \in Nat /\ k + n \in DOMAIN q /\ r[k] = q[k + n]
\* A sequence with m after it.
Longer(r, q, m) == /\ r \in Seq(Told2) /\ m \in Told2
                   /\ \E n \in Nat : /\ DOMAIN q = 1..n /\ DOMAIN r = 1..(n + 1) /\ r[n + 1] = m
                                     /\ \A k \in 1..n : r[k] = q[k]

LEMMA Parts ==
  ASSUME NEW q \in Seq(Told2)
  PROVE  /\ PartOf(q, q) /\ PartOf(<<>>, q) /\ (q # <<>> => PartOf(Tail(q), q))
         /\ \A n \in 0..Len(q) : PartOf(SubSeq(q, 1, n), q)
         /\ \A m \in Told2 : Longer(Append(q, m), q, m)
<1>0. Len(q) \in Nat /\ DOMAIN q = 1..Len(q) BY LenProperties
<1>1. PartOf(q, q)
  <2>1. \A k \in DOMAIN q : k \in Nat /\ k + 0 \in DOMAIN q /\ q[k] = q[k + 0] BY <1>0
  <2> QED BY <2>1 DEF PartOf
<1>2. PartOf(<<>>, q)
  <2>1. <<>> \in Seq(Told2) /\ DOMAIN <<>> = {} OBVIOUS
  <2> QED BY <2>1 DEF PartOf
<1>3. ASSUME q # <<>> PROVE PartOf(Tail(q), q)
  <2>1. /\ Tail(q) \in Seq(Told2) /\ DOMAIN Tail(q) = 1..(Len(q) - 1)
        /\ \A k \in 1..(Len(q) - 1) : Tail(q)[k] = q[k + 1] BY <1>3, AtFront
  <2>2. \A k \in DOMAIN Tail(q) : k \in Nat /\ k + 1 \in DOMAIN q /\ Tail(q)[k] = q[k + 1] BY <1>0, <2>1
  <2> QED BY <2>1, <2>2 DEF PartOf
<1>4. ASSUME NEW n \in 0..Len(q) PROVE PartOf(SubSeq(q, 1, n), q)
  <2>1. SubSeq(q, 1, n) \in Seq(Told2) /\ Len(SubSeq(q, 1, n)) = n /\ \A k \in 1..n : SubSeq(q, 1, n)[k] = q[k]
    <3>1. n \in Nat /\ n <= Len(q) BY <1>0
    <3>2. SubSeq(q, 1, n) \in Seq(Told2) BY <1>0, <3>1, SubSeqProperties
    <3> QED BY <1>0, <3>1, <3>2
  <2>2. DOMAIN SubSeq(q, 1, n) = 1..n BY <2>1, LenProperties
  <2>3. \A k \in DOMAIN SubSeq(q, 1, n) : k \in Nat /\ k + 0 \in DOMAIN q /\ SubSeq(q, 1, n)[k] = q[k + 0]
    BY <1>0, <2>1, <2>2
  <2> QED BY <2>1, <2>3 DEF PartOf
<1>5. ASSUME NEW m \in Told2 PROVE Longer(Append(q, m), q, m)
  BY AtEnd DEF Longer
<1> QED BY <1>1, <1>2, <1>3, <1>4, <1>5

LEMMA CoreLess ==
  ASSUME NEW ch, NEW W, NEW O, NEW P, NEW U, NEW th, NEW given, NEW dirty, NEW P2, NEW U2,
         Core(ch, W, O, P, U, th, given, dirty), PartOf(P2, P), PartOf(U2, U)
  PROVE  Core(ch, W, O, P2, U2, th, given, dirty)
<1>1. PICK a \in Nat : \A k \in DOMAIN P2 : k \in Nat /\ k + a \in DOMAIN P /\ P2[k] = P[k + a] BY DEF PartOf
<1>2. PICK b \in Nat : \A k \in DOMAIN U2 : k \in Nat /\ k + b \in DOMAIN U /\ U2[k] = U[k + b] BY DEF PartOf
<1>3. P2 \in Seq(Told2) /\ U2 \in Seq(Told2) BY DEF PartOf
<1>4. \A j, k \in DOMAIN P2 : j \in Nat /\ k \in Nat /\ (k + a < j + a => k < j) /\ (k + a <= j + a => k <= j) /\ (k + a = j + a => k = j) BY <1>1
<1>5. \A j, k \in DOMAIN U2 : j \in Nat /\ k \in Nat /\ (k + b = j + b => k = j) BY <1>2
<1>10. Tables(ch, W, P2, U2, th, given)
  <2>1. Tables(ch, W, P, U, th, given) BY DEF Core
  <2> QED BY <2>1, <1>1, <1>2, <1>3, <1>4, <1>5 DEF Tables
<1>11. Shaped(ch, th, given) BY DEF Core
<1>12. NumberedBy(P2, U2, th, given)
  <2>1. NumberedBy(P, U, th, given) BY DEF Core
  <2> QED BY <2>1, <1>1, <1>2, <1>3, <1>4, <1>5 DEF NumberedBy
<1>13. Accepted(ch, P2, U2, th)
  <2>1. Accepted(ch, P, U, th) BY DEF Core
  <2>2. ASSUME NEW k \in DOMAIN U2, U2[k].type = "ConnRsp" /\ U2[k].ok
        PROVE  /\ U2[k].peers # 0 /\ th[U2[k].peers].ours = U2[k].ours /\ th[U2[k].peers].state = "Config"
               /\ \A j \in DOMAIN P2 : P2[j].peers # U2[k].peers
               /\ \A s \in 1..Channels : ch[s].remote # U2[k].peers
               /\ \A j \in DOMAIN U2 : U2[j].type = "ConnRsp" /\ U2[j].ok /\ U2[j].peers = U2[k].peers => j = k
    <3>1. /\ U2[k].peers # 0 /\ th[U2[k].peers].ours = U2[k].ours /\ th[U2[k].peers].state = "Config"
          /\ \A j \in DOMAIN P : P[j].peers # U2[k].peers
          /\ \A s \in 1..Channels : ch[s].remote # U2[k].peers
          /\ \A j \in DOMAIN U : U[j].type = "ConnRsp" /\ U[j].ok /\ U[j].peers = U2[k].peers => j = k + b
      BY <2>1, <2>2, <1>2 DEF Accepted
    <3>2. \A j \in DOMAIN U2 : U2[j].type = "ConnRsp" /\ U2[j].ok /\ U2[j].peers = U2[k].peers => j = k
      BY <3>1, <1>2, <1>5
    <3> QED BY <3>1, <3>2, <1>1
  <2> QED BY <2>2 DEF Accepted
<1>14. Configures(P2, th)
  <2>1. Configures(P, th) BY DEF Core
  <2> QED BY <2>1, <1>1, <1>2, <1>3, <1>4, <1>5 DEF Configures
<1>15. Closes(P2, th)
  <2>1. Closes(P, th) BY DEF Core
  <2> QED BY <2>1, <1>1, <1>2, <1>3, <1>4, <1>5 DEF Closes
<1>16. Agrees(P2, th)
  <2>1. Agrees(P, th) BY DEF Core
  <2> QED BY <2>1, <1>1, <1>2, <1>3, <1>4, <1>5 DEF Agrees
<1>17. Trusted(ch, W, P2, th)
  <2>1. Trusted(ch, W, P, th) BY DEF Core
  <2> QED BY <2>1, <1>1, <1>2, <1>3, <1>4, <1>5 DEF Trusted
<1>18. Leaves(P2, U2, th)
  <2>1. Leaves(P, U, th) BY DEF Core
  <2> QED BY <2>1, <1>1, <1>2, <1>3, <1>4, <1>5 DEF Leaves
<1>19. NoReject(U2)
  <2>1. NoReject(U) BY DEF Core
  <2> QED BY <2>1, <1>1, <1>2, <1>3, <1>4, <1>5 DEF NoReject
<1>20. OneForEach(th) BY DEF Core
<1>21. Undisturbed(O, dirty, P2, U2)
  <2>1. Undisturbed(O, dirty, P, U) BY DEF Core
  <2> QED BY <2>1, <1>1, <1>2, <1>3, <1>4, <1>5 DEF Undisturbed
<1>22. Requested(ch, P2, U2, th, dirty)
  <2>1. Requested(ch, P, U, th, dirty) BY DEF Core
  <2> QED BY <2>1, <1>1, <1>2, <1>3, <1>4, <1>5 DEF Requested
<1>23. Answered(ch, U2, th, dirty)
  <2>1. Answered(ch, U, th, dirty) BY DEF Core
  <2> QED BY <2>1, <1>1, <1>2, <1>3, <1>4, <1>5 DEF Answered
<1>24. Carries(ch, P2, U2, th, dirty)
  <2>1. Carries(ch, P, U, th, dirty) BY DEF Core
  <2>2. \A k \in DOMAIN U2 : U2[k].type = "Data" /\ U2[k].ours # 0 /\ U2[k].ours \notin dirty /\ ch[U2[k].ours].inUse
                           => ch[U2[k].ours].remote = U2[k].peers
    BY <2>1, <1>2 DEF Carries
  <2>3. ASSUME NEW k \in DOMAIN P2, P2[k].type = "ConfRsp" /\ P2[k].peers # 0
        PROVE  LET c == P2[k].peers IN
               th[c].ours # 0 /\ th[c].ours \notin dirty /\ ch[th[c].ours].inUse /\ th[c].state \in {"Config", "Open"}
                 => ch[th[c].ours].remote = c
    <3>1. k + a \in DOMAIN P /\ P[k + a].type = "ConfRsp" /\ P[k + a].peers # 0 /\ P[k + a].peers = P2[k].peers
      BY <2>3, <1>1
    <3> QED BY <2>1, <3>1 DEF Carries
  <2> QED BY <2>1, <2>2, <2>3 DEF Carries
<1> QED BY <1>10, <1>11, <1>12, <1>13, <1>14, <1>15, <1>16, <1>17, <1>18, <1>19, <1>20, <1>21, <1>22, <1>23, <1>24 DEF Core

\* The types, an element at a time.
LEMMA CoreTyped ==
  ASSUME NEW ch, NEW W, NEW P, NEW U, NEW th, NEW given, Tables(ch, W, P, U, th, given)
  PROVE  /\ P \in Seq(Told2) /\ U \in Seq(Told2) /\ given \in Nat /\ given <= Opens /\ W \subseteq 1..Channels
         /\ \A k \in DOMAIN P : k \in Nat /\ P[k] \in Told2 /\ P[k].peers \in 0..Opens /\ P[k].ours \in 0..Channels
         /\ \A k \in DOMAIN U : k \in Nat /\ U[k] \in Told2 /\ U[k].peers \in 0..Opens /\ U[k].ours \in 0..Channels
         /\ \A s \in 1..Channels : ch[s] \in Slotted /\ ch[s].remote \in 0..Opens
         /\ \A c \in 1..Opens : th[c] \in Theirs /\ th[c].ours \in 0..Channels
                                /\ th[c].state \in {"Config", "Open", "Closing", "Closed"}
         /\ \A c \in 0..Opens : c # 0 => c \in 1..Opens
         /\ \A s \in 0..Channels : s # 0 => s \in 1..Channels
<1>1. P \in Seq(Told2) /\ U \in Seq(Told2) /\ given \in Nat /\ given <= Opens /\ W \subseteq 1..Channels
  BY ClassicAssumption DEF Tables
<1>2. \A q \in Seq(Told2) : \A k \in DOMAIN q : k \in Nat /\ q[k] \in Told2
  BY LenProperties, ElementOfSeq
<1>3. \A m \in Told2 : m.peers \in 0..Opens /\ m.ours \in 0..Channels BY DEF Told2
<1>4. \A s \in 1..Channels : ch[s] \in Slotted /\ ch[s].remote \in 0..Opens BY DEF Tables, Slotted
<1>5. \A c \in 1..Opens : th[c] \in Theirs BY DEF Tables
<1>6. \A t \in Theirs : t.ours \in 0..Channels /\ t.state \in {"Config", "Open", "Closing", "Closed"} BY DEF Theirs
<1>7. (\A c \in 0..Opens : c # 0 => c \in 1..Opens) /\ (\A s \in 0..Channels : s # 0 => s \in 1..Channels)
  BY ClassicAssumption
<1>8. \A k \in DOMAIN P : k \in Nat /\ P[k] \in Told2 BY <1>1, <1>2
<1>9. \A k \in DOMAIN U : k \in Nat /\ U[k] \in Told2 BY <1>1, <1>2
<1> QED BY <1>1, <1>3, <1>4, <1>5, <1>6, <1>7, <1>8, <1>9

LEMMA CoreFewer ==
  ASSUME NEW ch, NEW W, NEW O, NEW P, NEW U, NEW th, NEW given, NEW dirty, NEW W2, NEW O2, NEW d2,
         Core(ch, W, O, P, U, th, given, dirty),
         W2 \subseteq W,
         O2 \subseteq O,
         dirty \subseteq d2
  PROVE  Core(ch, W2, O2, P, U, th, given, d2)
<1>1. W2 \subseteq W /\ O2 \subseteq O /\ dirty \subseteq d2 OBVIOUS
<1>a. Tables(ch, W, P, U, th, given) /\ Shaped(ch, th, given) /\ NumberedBy(P, U, th, given) /\ Accepted(ch, P, U, th) /\ Configures(P, th) /\ Closes(P, th) /\ Agrees(P, th) /\ Trusted(ch, W, P, th) /\ Leaves(P, U, th) /\ NoReject(U) /\ OneForEach(th) /\ Undisturbed(O, dirty, P, U) /\ Requested(ch, P, U, th, dirty) /\ Answered(ch, U, th, dirty) /\ Carries(ch, P, U, th, dirty)
  BY DEF Core
<1>20. Tables(ch, W2, P, U, th, given)
  <2>1. Tables(ch, W, P, U, th, given) BY <1>a
  <2> QED BY <2>1, <1>1 DEF Tables
<1>27. Trusted(ch, W2, P, th)
  <2>1. Trusted(ch, W, P, th) BY <1>a
  <2> QED BY <2>1, <1>1 DEF Trusted
<1>31. Undisturbed(O2, d2, P, U)
  <2>1. Undisturbed(O, dirty, P, U) BY <1>a
  <2> QED BY <2>1, <1>1 DEF Undisturbed
<1>32. Requested(ch, P, U, th, d2)
  <2>1. Requested(ch, P, U, th, dirty) BY <1>a
  <2> QED BY <2>1, <1>1 DEF Requested
<1>33. Answered(ch, U, th, d2)
  <2>1. Answered(ch, U, th, dirty) BY <1>a
  <2> QED BY <2>1, <1>1 DEF Answered
<1>34. Carries(ch, P, U, th, d2)
  <2>1. Carries(ch, P, U, th, dirty) BY <1>a
  <2> QED BY <2>1, <1>1 DEF Carries
<1> QED BY <1>a, <1>20, <1>27, <1>31, <1>32, <1>33, <1>34 DEF Core

\* Only what was asked for changes.
AsksOnly(th2, th) ==
  /\ th2 \in [1..Opens -> Theirs]
  /\ \A c \in 1..Opens : th2[c].ours = th[c].ours /\ th2[c].state = th[c].state
LEMMA CoreAsked ==
  ASSUME NEW ch, NEW W, NEW O, NEW P, NEW U, NEW th, NEW given, NEW dirty, NEW th2,
         Core(ch, W, O, P, U, th, given, dirty), AsksOnly(th2, th)
  PROVE  Core(ch, W, O, P, U, th2, given, dirty)
<1> USE DEF AsksOnly
<1>1. th2 \in [1..Opens -> Theirs] /\ \A c \in 1..Opens : th2[c].ours = th[c].ours /\ th2[c].state = th[c].state OBVIOUS
<1>2. Tables(ch, W, P, U, th, given) BY DEF Core
<1>3. /\ \A c \in 0..Opens : c # 0 => c \in 1..Opens
      /\ \A s \in 0..Channels : s # 0 => s \in 1..Channels /\ W \subseteq 1..Channels
  BY <1>2, CoreTyped
<1>4. \A k \in DOMAIN P : P[k].peers # 0 => th2[P[k].peers].ours = th[P[k].peers].ours /\ th2[P[k].peers].state = th[P[k].peers].state
  BY <1>1, <1>2, CoreTyped
<1>5. \A k \in DOMAIN U : U[k].peers # 0 => th2[U[k].peers].ours = th[U[k].peers].ours /\ th2[U[k].peers].state = th[U[k].peers].state
  BY <1>1, <1>2, CoreTyped
<1>6. \A s \in 1..Channels : ch[s].remote # 0 => th2[ch[s].remote].ours = th[ch[s].remote].ours /\ th2[ch[s].remote].state = th[ch[s].remote].state
  BY <1>1, <1>2, CoreTyped
<1>a. Tables(ch, W, P, U, th, given) /\ Shaped(ch, th, given) /\ NumberedBy(P, U, th, given) /\ Accepted(ch, P, U, th) /\ Configures(P, th) /\ Closes(P, th) /\ Agrees(P, th) /\ Trusted(ch, W, P, th) /\ Leaves(P, U, th) /\ NoReject(U) /\ OneForEach(th) /\ Undisturbed(O, dirty, P, U) /\ Requested(ch, P, U, th, dirty) /\ Answered(ch, U, th, dirty) /\ Carries(ch, P, U, th, dirty)
  BY DEF Core
<1>20. Tables(ch, W, P, U, th2, given)
  <2>1. Tables(ch, W, P, U, th, given) BY <1>a
  <2> QED BY <2>1, <1>1, <1>3, <1>4, <1>5, <1>6 DEF Tables
<1>21. Shaped(ch, th2, given)
  <2>1. Shaped(ch, th, given) BY <1>a
  <2> QED BY <2>1, <1>6 DEF Shaped
<1>22. NumberedBy(P, U, th2, given)
  <2>1. NumberedBy(P, U, th, given) BY <1>a
  <2> QED BY <2>1, <1>1, <1>3, <1>4, <1>5, <1>6 DEF NumberedBy
<1>23. Accepted(ch, P, U, th2)
  <2>1. Accepted(ch, P, U, th) BY <1>a
  <2> QED BY <2>1, <1>1, <1>3, <1>4, <1>5, <1>6 DEF Accepted
<1>24. Configures(P, th2)
  <2>1. Configures(P, th) BY <1>a
  <2> QED BY <2>1, <1>1, <1>3, <1>4, <1>5, <1>6 DEF Configures
<1>25. Closes(P, th2)
  <2>1. Closes(P, th) BY <1>a
  <2> QED BY <2>1, <1>1, <1>3, <1>4, <1>5, <1>6 DEF Closes
<1>26. Agrees(P, th2)
  <2>1. Agrees(P, th) BY <1>a
  <2> QED BY <2>1, <1>1, <1>3, <1>4, <1>5, <1>6 DEF Agrees
<1>27. Trusted(ch, W, P, th2)
  <2>1. \A s \in W : s \in 1..Channels BY <1>2, CoreTyped
  <2> QED BY <1>a, <1>6, <2>1 DEF Trusted
<1>28. Leaves(P, U, th2)
  <2>1. Leaves(P, U, th) BY <1>a
  <2> QED BY <2>1, <1>1, <1>3, <1>4, <1>5, <1>6 DEF Leaves
<1>30. OneForEach(th2)
  <2>1. OneForEach(th) BY <1>a
  <2> QED BY <2>1, <1>1, <1>3, <1>4, <1>5, <1>6 DEF OneForEach
<1>32. Requested(ch, P, U, th2, dirty)
  <2>1. Requested(ch, P, U, th, dirty) BY <1>a
  <2> QED BY <2>1, <1>1, <1>3, <1>4, <1>5, <1>6 DEF Requested
<1>33. Answered(ch, U, th2, dirty)
  <2>1. Answered(ch, U, th, dirty) BY <1>a
  <2> QED BY <2>1, <1>1, <1>3, <1>4, <1>5, <1>6 DEF Answered
<1>34. Carries(ch, P, U, th2, dirty)
  <2>1. Carries(ch, P, U, th, dirty) BY <1>a
  <2> QED BY <2>1, <1>1, <1>3, <1>4, <1>5, <1>6 DEF Carries
<1> QED BY <1>a, <1>20, <1>21, <1>22, <1>23, <1>24, <1>25, <1>26, <1>27, <1>28, <1>30, <1>32, <1>33, <1>34 DEF Core

\* What we may say after P, and what the peer may after U: a line for each part of Core it bears on.
SayNumbered(m, U, given) == m.peers <= given /\ \A k \in DOMAIN U : U[k].type = "ConnRsp" /\ U[k].ok => m.peers # U[k].peers
SayConfigures(m, P, th) ==
  m.type = "ConfReq" => /\ m.peers # 0 /\ th[m.peers].state = "Config"
                        /\ \A j \in DOMAIN P : P[j].type \in {"ConfRsp", "DiscReq"} => P[j].peers # m.peers
SayCloses(m, O, P, th, dirty) ==
  m.type = "DiscReq" => /\ m.peers # 0 /\ th[m.peers].state # "Closed" /\ m.ours \notin O \ dirty
                        /\ \A j \in DOMAIN P : P[j].type \in {"DiscReq", "DiscRsp"} => P[j].peers # m.peers
SayAgrees(m, P, U, th) ==
  m.type = "DiscRsp" => /\ m.peers # 0 /\ th[m.peers].state = "Closing"
                        /\ \A j \in DOMAIN P : P[j].type = "DiscRsp" => P[j].peers # m.peers
                        /\ \A j \in DOMAIN U : U[j].type = "DiscReq" => U[j].peers # m.peers
SayTrusted(m, ch, W) ==
  m.type \in {"DiscReq", "DiscRsp"} => \A s \in W : ch[s].remote # 0 => ch[s].remote # m.peers
SayRequested(m, ch, P, U, th, dirty) ==
  /\ \A k \in DOMAIN P : P[k].type = "ConnReq" /\ P[k].ours \notin dirty => P[k].ours # m.ours
  /\ m.type = "ConnReq" /\ m.ours \notin dirty =>
       /\ m.ours # 0 /\ ch[m.ours].inUse /\ ch[m.ours].remote = 0
       /\ \A j \in DOMAIN U : U[j].ours # m.ours
       /\ \A j \in DOMAIN P : P[j].ours # m.ours
       /\ \A c \in 1..Opens : th[c].ours = m.ours => th[c].state = "Closed"
SayCarries(m, ch, th, dirty) ==
  m.type = "ConfRsp" /\ m.peers # 0 =>
       LET c == m.peers IN
       th[c].ours # 0 /\ th[c].ours \notin dirty /\ ch[th[c].ours].inUse /\ th[c].state \in {"Config", "Open"}
         => ch[th[c].ours].remote = c
Say(m, ch, W, O, P, U, th, given, dirty) ==
  /\ SayNumbered(m, U, given) /\ SayConfigures(m, P, th) /\ SayCloses(m, O, P, th, dirty) /\ SayAgrees(m, P, U, th)
  /\ SayTrusted(m, ch, W) /\ SayRequested(m, ch, P, U, th, dirty) /\ SayCarries(m, ch, th, dirty)

TellAccepted(m, ch, P, U, th) ==
  m.type = "ConnRsp" /\ m.ok =>
       /\ m.peers # 0 /\ th[m.peers].ours = m.ours /\ th[m.peers].state = "Config"
       /\ \A j \in DOMAIN P : P[j].peers # m.peers
       /\ \A s \in 1..Channels : ch[s].remote # m.peers
       /\ \A j \in DOMAIN U : U[j].type = "ConnRsp" /\ U[j].ok => U[j].peers # m.peers
TellLeaves(m, P, U, th) ==
  m.type = "DiscReq" => /\ m.peers # 0 /\ th[m.peers].ours = m.ours /\ th[m.peers].state = "Closing"
                        /\ \A j \in DOMAIN U : U[j].type = "DiscReq" => U[j].peers # m.peers
                        /\ \A j \in DOMAIN P : P[j].type = "DiscRsp" => P[j].peers # m.peers
TellUndisturbed(m, O, dirty) == m.type = "DiscRsp" => m.ours \notin O \ dirty
TellRequested(m, P, dirty) == \A k \in DOMAIN P : P[k].type = "ConnReq" /\ P[k].ours \notin dirty => P[k].ours # m.ours
TellAnswered(m, ch, U, th, dirty) ==
  /\ m.type = "ConnRsp" /\ m.ours \notin dirty =>
       /\ m.ours # 0 /\ ch[m.ours].remote = 0 /\ (m.ok \/ m.peers = 0)
       /\ \A j \in DOMAIN U : U[j].type \in {"Data", "ConnRsp"} => U[j].ours # m.ours
       /\ \A c \in 1..Opens : th[c].ours = m.ours /\ th[c].state # "Closed" => c = m.peers
  /\ m.type = "Data" => \A k \in DOMAIN U : U[k].type = "ConnRsp" /\ U[k].ours \notin dirty => U[k].ours # m.ours
TellCarries(m, ch, dirty) ==
  m.type = "Data" /\ m.ours # 0 /\ m.ours \notin dirty /\ ch[m.ours].inUse => ch[m.ours].remote = m.peers
Tell(m, ch, O, P, U, th, given, W, dirty) ==
  /\ m.peers <= given /\ m.type # "Reject" /\ TellAccepted(m, ch, P, U, th) /\ TellLeaves(m, P, U, th)
  /\ TellUndisturbed(m, O, dirty) /\ TellRequested(m, P, dirty) /\ TellAnswered(m, ch, U, th, dirty)
  /\ TellCarries(m, ch, dirty)

LEMMA CoreSay ==
  ASSUME NEW ch, NEW W, NEW O, NEW P, NEW U, NEW th, NEW given, NEW dirty, NEW P2, NEW m,
         Core(ch, W, O, P, U, th, given, dirty), Longer(P2, P, m), Say(m, ch, W, O, P, U, th, given, dirty)
  PROVE  Core(ch, W, O, P2, U, th, given, dirty)
<1>1. PICK n \in Nat : /\ DOMAIN P = 1..n /\ DOMAIN P2 = 1..(n + 1) /\ P2[n + 1] = m /\ \A k \in 1..n : P2[k] = P[k]
  BY DEF Longer
<1>2. P2 \in Seq(Told2) BY DEF Longer
<1>3. \A k \in DOMAIN P2 : (k \in DOMAIN P /\ P2[k] = P[k]) \/ (k = n + 1 /\ P2[k] = m) BY <1>1
<1>4. (\A k \in DOMAIN P : k < n + 1) /\ n + 1 \notin DOMAIN P BY <1>1
<1>5. /\ SayNumbered(m, U, given) /\ SayConfigures(m, P, th) /\ SayCloses(m, O, P, th, dirty) /\ SayAgrees(m, P, U, th)
      /\ SayTrusted(m, ch, W) /\ SayRequested(m, ch, P, U, th, dirty) /\ SayCarries(m, ch, th, dirty)
  BY DEF Say
<1>10. Tables(ch, W, P2, U, th, given)
  <2>1. Tables(ch, W, P, U, th, given) BY DEF Core
  <2> QED BY <2>1, <1>2 DEF Tables
<1>11. NumberedBy(P2, U, th, given)
  <2>1. NumberedBy(P, U, th, given) BY DEF Core
  <2> QED BY <2>1, <1>3, <1>5 DEF NumberedBy, SayNumbered
<1>12. Accepted(ch, P2, U, th)
  <2>1. Accepted(ch, P, U, th) BY DEF Core
  <2>2. \A k \in DOMAIN U : U[k].type = "ConnRsp" /\ U[k].ok => \A j \in DOMAIN P2 : P2[j].peers # U[k].peers
    BY <2>1, <1>3, <1>5 DEF Accepted, SayNumbered
  <2> QED BY <2>1, <2>2 DEF Accepted
<1>13. Configures(P2, th)
  <2>1. Configures(P, th) BY DEF Core
  <2>2. ASSUME NEW k \in DOMAIN P2, P2[k].type = "ConfReq"
        PROVE  P2[k].peers # 0 /\ th[P2[k].peers].state = "Config"
    BY <2>1, <2>2, <1>3, <1>5 DEF Configures, SayConfigures
  <2>3. ASSUME NEW k \in DOMAIN P2, P2[k].type = "ConfReq",
               NEW j \in DOMAIN P2, P2[j].type \in {"ConfRsp", "DiscReq"} /\ P2[j].peers = P2[k].peers
        PROVE  k < j
    <3>1. CASE k \in DOMAIN P /\ P2[k] = P[k]
      <4>1. CASE j \in DOMAIN P /\ P2[j] = P[j] BY <2>1, <2>3, <3>1, <4>1 DEF Configures
      <4>2. CASE j = n + 1 BY <3>1, <4>2, <1>4
      <4> QED BY <4>1, <4>2, <1>3
    <3>2. CASE k = n + 1 /\ P2[k] = m
      <4>1. j \in DOMAIN P /\ P2[j] = P[j] BY <1>3, <2>3, <3>2
      <4> QED BY <2>3, <3>2, <4>1, <1>5 DEF SayConfigures
    <3> QED BY <3>1, <3>2, <1>3
  <2> QED BY <2>2, <2>3 DEF Configures
<1>14. Closes(P2, th)
  <2>1. Closes(P, th) BY DEF Core
  <2>2. ASSUME NEW k \in DOMAIN P2, P2[k].type = "DiscReq"
        PROVE  P2[k].peers # 0 /\ th[P2[k].peers].state # "Closed"
    BY <2>1, <2>2, <1>3, <1>5 DEF Closes, SayCloses
  <2>3. ASSUME NEW k \in DOMAIN P2, P2[k].type = "DiscReq",
               NEW j \in DOMAIN P2, P2[j].type \in {"DiscReq", "DiscRsp"} /\ P2[j].peers = P2[k].peers
        PROVE  k <= j
    <3>1. CASE k \in DOMAIN P /\ P2[k] = P[k]
      <4>1. CASE j \in DOMAIN P /\ P2[j] = P[j] BY <2>1, <2>3, <3>1, <4>1 DEF Closes
      <4>2. CASE j = n + 1 BY <3>1, <4>2, <1>1
      <4> QED BY <4>1, <4>2, <1>3
    <3>2. CASE k = n + 1 /\ P2[k] = m
      <4>1. CASE j \in DOMAIN P /\ P2[j] = P[j] BY <2>3, <3>2, <4>1, <1>5 DEF SayCloses
      <4>2. CASE j = n + 1 BY <3>2, <4>2
      <4> QED BY <4>1, <4>2, <1>3
    <3> QED BY <3>1, <3>2, <1>3
  <2> QED BY <2>2, <2>3 DEF Closes
<1>15. Agrees(P2, th)
  <2>1. Agrees(P, th) BY DEF Core
  <2> QED BY <2>1, <1>3, <1>4, <1>5 DEF Agrees, SayAgrees
<1>16. Trusted(ch, W, P2, th)
  <2>1. Trusted(ch, W, P, th) BY DEF Core
  <2> QED BY <2>1, <1>3, <1>5 DEF Trusted, SayTrusted
<1>17. Leaves(P2, U, th)
  <2>1. Leaves(P, U, th) BY DEF Core
  <2>2. \A k \in DOMAIN U : U[k].type = "DiscReq" => \A j \in DOMAIN P2 : P2[j].type = "DiscRsp" => P2[j].peers # U[k].peers
    BY <2>1, <1>3, <1>5 DEF Leaves, SayAgrees
  <2> QED BY <2>1, <2>2 DEF Leaves
<1>18. Undisturbed(O, dirty, P2, U)
  <2>1. Undisturbed(O, dirty, P, U) BY DEF Core
  <2> QED BY <2>1, <1>3, <1>5 DEF Undisturbed, SayCloses
<1>19. Requested(ch, P2, U, th, dirty)
  <2>1. Requested(ch, P, U, th, dirty) BY DEF Core
  <2> QED BY <2>1, <1>3, <1>4, <1>5 DEF Requested, SayRequested
<1>20. Carries(ch, P2, U, th, dirty)
  <2>1. Carries(ch, P, U, th, dirty) BY DEF Core
  <2>2. ASSUME NEW k \in DOMAIN P2, P2[k].type = "ConfRsp" /\ P2[k].peers # 0
        PROVE  LET c == P2[k].peers IN
               th[c].ours # 0 /\ th[c].ours \notin dirty /\ ch[th[c].ours].inUse /\ th[c].state \in {"Config", "Open"}
                 => ch[th[c].ours].remote = c
    <3>1. CASE k \in DOMAIN P /\ P2[k] = P[k] BY <2>1, <2>2, <3>1 DEF Carries
    <3>2. CASE P2[k] = m BY <2>2, <3>2, <1>5 DEF SayCarries
    <3> QED BY <3>1, <3>2, <1>3
  <2> QED BY <2>1, <2>2 DEF Carries
<1>21. Shaped(ch, th, given) /\ NoReject(U) /\ OneForEach(th) /\ Answered(ch, U, th, dirty) BY DEF Core
<1> QED BY <1>10, <1>11, <1>12, <1>13, <1>14, <1>15, <1>16, <1>17, <1>18, <1>19, <1>20, <1>21 DEF Core

LEMMA CoreTell ==
  ASSUME NEW ch, NEW W, NEW O, NEW P, NEW U, NEW th, NEW given, NEW dirty, NEW U2, NEW m,
         Core(ch, W, O, P, U, th, given, dirty), Longer(U2, U, m), Tell(m, ch, O, P, U, th, given, W, dirty)
  PROVE  Core(ch, W, O, P, U2, th, given, dirty)
<1>1. PICK n \in Nat : /\ DOMAIN U = 1..n /\ DOMAIN U2 = 1..(n + 1) /\ U2[n + 1] = m /\ \A k \in 1..n : U2[k] = U[k]
  BY DEF Longer
<1>2. U2 \in Seq(Told2) BY DEF Longer
<1>3. \A k \in DOMAIN U2 : (k \in DOMAIN U /\ U2[k] = U[k]) \/ (k = n + 1 /\ U2[k] = m) BY <1>1
<1>4. (\A k \in DOMAIN U : k < n + 1) /\ n + 1 \notin DOMAIN U BY <1>1
<1>5. /\ m.peers <= given /\ m.type # "Reject" /\ TellAccepted(m, ch, P, U, th) /\ TellLeaves(m, P, U, th)
      /\ TellUndisturbed(m, O, dirty) /\ TellRequested(m, P, dirty) /\ TellAnswered(m, ch, U, th, dirty)
      /\ TellCarries(m, ch, dirty)
  BY DEF Tell
<1>10. Tables(ch, W, P, U2, th, given)
  <2>1. Tables(ch, W, P, U, th, given) BY DEF Core
  <2> QED BY <2>1, <1>2 DEF Tables
<1>11. NumberedBy(P, U2, th, given)
  <2>1. NumberedBy(P, U, th, given) BY DEF Core
  <2> QED BY <2>1, <1>3, <1>5 DEF NumberedBy
<1>12. Accepted(ch, P, U2, th)
  <2>1. Accepted(ch, P, U, th) BY DEF Core
  <2>2. ASSUME NEW k \in DOMAIN U2, U2[k].type = "ConnRsp" /\ U2[k].ok
        PROVE  /\ U2[k].peers # 0 /\ th[U2[k].peers].ours = U2[k].ours /\ th[U2[k].peers].state = "Config"
               /\ \A j \in DOMAIN P : P[j].peers # U2[k].peers
               /\ \A s \in 1..Channels : ch[s].remote # U2[k].peers
    <3>1. CASE k \in DOMAIN U /\ U2[k] = U[k] BY <2>1, <2>2, <3>1 DEF Accepted
    <3>2. CASE U2[k] = m BY <2>2, <3>2, <1>5 DEF TellAccepted
    <3> QED BY <3>1, <3>2, <1>3
  <2>3. ASSUME NEW k \in DOMAIN U2, U2[k].type = "ConnRsp" /\ U2[k].ok,
               NEW j \in DOMAIN U2, U2[j].type = "ConnRsp" /\ U2[j].ok /\ U2[j].peers = U2[k].peers
        PROVE  j = k
    <3>1. CASE k \in DOMAIN U /\ U2[k] = U[k] /\ j \in DOMAIN U /\ U2[j] = U[j]
      BY <2>1, <2>3, <3>1 DEF Accepted
    <3>2. CASE k \in DOMAIN U /\ U2[k] = U[k] /\ j = n + 1 /\ U2[j] = m
      BY <2>3, <3>2, <1>5 DEF TellAccepted
    <3>3. CASE j \in DOMAIN U /\ U2[j] = U[j] /\ k = n + 1 /\ U2[k] = m
      BY <2>3, <3>3, <1>5 DEF TellAccepted
    <3> QED BY <3>1, <3>2, <3>3, <1>3
  <2> QED BY <2>2, <2>3 DEF Accepted
<1>17. Leaves(P, U2, th)
  <2>1. Leaves(P, U, th) BY DEF Core
  <2>2. ASSUME NEW k \in DOMAIN U2, U2[k].type = "DiscReq"
        PROVE  /\ U2[k].peers # 0 /\ th[U2[k].peers].ours = U2[k].ours /\ th[U2[k].peers].state = "Closing"
               /\ \A j \in DOMAIN P : P[j].type = "DiscRsp" => P[j].peers # U2[k].peers
    <3>1. CASE k \in DOMAIN U /\ U2[k] = U[k] BY <2>1, <2>2, <3>1 DEF Leaves
    <3>2. CASE U2[k] = m BY <2>2, <3>2, <1>5 DEF TellLeaves
    <3> QED BY <3>1, <3>2, <1>3
  <2>3. ASSUME NEW k \in DOMAIN U2, U2[k].type = "DiscReq",
               NEW j \in DOMAIN U2, U2[j].type = "DiscReq" /\ U2[j].peers = U2[k].peers
        PROVE  j = k
    <3>1. CASE k \in DOMAIN U /\ U2[k] = U[k] /\ j \in DOMAIN U /\ U2[j] = U[j]
      BY <2>1, <2>3, <3>1 DEF Leaves
    <3>2. CASE k \in DOMAIN U /\ U2[k] = U[k] /\ j = n + 1 /\ U2[j] = m
      BY <2>3, <3>2, <1>5 DEF TellLeaves
    <3>3. CASE j \in DOMAIN U /\ U2[j] = U[j] /\ k = n + 1 /\ U2[k] = m
      BY <2>3, <3>3, <1>5 DEF TellLeaves
    <3> QED BY <3>1, <3>2, <3>3, <1>3
  <2> QED BY <2>2, <2>3 DEF Leaves
<1>18. NoReject(U2)
  <2>1. NoReject(U) BY DEF Core
  <2> QED BY <2>1, <1>3, <1>5 DEF NoReject
<1>19. Undisturbed(O, dirty, P, U2)
  <2>1. Undisturbed(O, dirty, P, U) BY DEF Core
  <2> QED BY <2>1, <1>3, <1>5 DEF Undisturbed, TellUndisturbed
<1>20. Requested(ch, P, U2, th, dirty)
  <2>1. Requested(ch, P, U, th, dirty) BY DEF Core
  <2> QED BY <2>1, <1>3, <1>5 DEF Requested, TellRequested
<1>21. Answered(ch, U2, th, dirty)
  <2>1. Answered(ch, U, th, dirty) BY DEF Core
  <2> QED BY <2>1, <1>3, <1>5 DEF Answered, TellAnswered
<1>22. Carries(ch, P, U2, th, dirty)
  <2>1. Carries(ch, P, U, th, dirty) BY DEF Core
  <2>2. \A k \in DOMAIN U2 : U2[k].type = "Data" /\ U2[k].ours # 0 /\ U2[k].ours \notin dirty /\ ch[U2[k].ours].inUse
                           => ch[U2[k].ours].remote = U2[k].peers
    BY <2>1, <1>3, <1>5 DEF Carries, TellCarries
  <2> QED BY <2>1, <2>2 DEF Carries
<1>23. Shaped(ch, th, given) /\ Configures(P, th) /\ Closes(P, th) /\ Agrees(P, th) /\ Trusted(ch, W, P, th) /\ OneForEach(th)
  BY DEF Core
<1> QED BY <1>10, <1>11, <1>12, <1>17, <1>18, <1>19, <1>20, <1>21, <1>22, <1>23 DEF Core

\* Channel it of the peer goes to state st.
Moves(it, st, th2, ch, W, P, U, th, dirty) ==
  /\ it \in 1..Opens
  /\ st \in {"Open", "Closing", "Closed"}
  /\ th2 \in [1..Opens -> Theirs]
  /\ \A x \in 1..Opens \ {it} : th2[x] = th[x]
  /\ th2[it].ours = th[it].ours /\ th2[it].state = st /\ th[it].state # "Closed"
  /\ \A k \in DOMAIN U : U[k].type = "ConnRsp" /\ U[k].ok => U[k].peers # it
  /\ \A k \in DOMAIN U : U[k].type = "DiscReq" => U[k].peers # it
  /\ \A k \in DOMAIN P : P[k].type = "ConfReq" => P[k].peers # it
  /\ \A k \in DOMAIN P : P[k].type = "DiscRsp" => P[k].peers # it
  /\ st = "Closed" => \A k \in DOMAIN P : P[k].type = "DiscReq" => P[k].peers # it
  /\ st = "Closed" => \A s \in W : ch[s].remote # it
  /\ st = "Open" => /\ th[it].state \in {"Config", "Open"}
                    /\ th[it].ours # 0 /\ th[it].ours \notin dirty /\ ch[th[it].ours].inUse => ch[th[it].ours].remote = it
LEMMA CoreSet ==
  ASSUME NEW ch, NEW W, NEW O, NEW P, NEW U, NEW th, NEW given, NEW dirty, NEW it, NEW st, NEW th2,
         Core(ch, W, O, P, U, th, given, dirty), Moves(it, st, th2, ch, W, P, U, th, dirty)
  PROVE  Core(ch, W, O, P, U, th2, given, dirty)
<1> USE DEF Moves
<1>a. Tables(ch, W, P, U, th, given) /\ Shaped(ch, th, given) /\ NumberedBy(P, U, th, given) /\ Accepted(ch, P, U, th) /\ Configures(P, th) /\ Closes(P, th) /\ Agrees(P, th) /\ Trusted(ch, W, P, th) /\ Leaves(P, U, th) /\ NoReject(U) /\ OneForEach(th) /\ Undisturbed(O, dirty, P, U) /\ Requested(ch, P, U, th, dirty) /\ Answered(ch, U, th, dirty) /\ Carries(ch, P, U, th, dirty)
  BY DEF Core
<1>2. Tables(ch, W, P, U, th, given) BY DEF Core
<1>3. /\ P \in Seq(Told2) /\ U \in Seq(Told2) /\ given \in Nat /\ given <= Opens /\ W \subseteq 1..Channels
      /\ \A k \in DOMAIN P : k \in Nat /\ P[k] \in Told2 /\ P[k].peers \in 0..Opens /\ P[k].ours \in 0..Channels
      /\ \A k \in DOMAIN U : k \in Nat /\ U[k] \in Told2 /\ U[k].peers \in 0..Opens /\ U[k].ours \in 0..Channels
      /\ \A y \in 1..Channels : ch[y] \in Slotted /\ ch[y].remote \in 0..Opens
      /\ \A z \in 1..Opens : th[z] \in Theirs /\ th[z].ours \in 0..Channels
                             /\ th[z].state \in {"Config", "Open", "Closing", "Closed"}
      /\ \A z \in 0..Opens : z # 0 => z \in 1..Opens
      /\ \A y \in 0..Channels : y # 0 => y \in 1..Channels
  BY <1>2, CoreTyped
<1>4. \A x \in 1..Opens : th2[x].ours = th[x].ours BY Zenon
<1>5. \A x \in 1..Opens : x # it => th2[x].state = th[x].state OBVIOUS
<1>6. \A x \in 1..Opens : th2[x].ours = th[x].ours /\ (th[x].state = "Closed" => th2[x].state = "Closed") BY <1>4, <1>5
<1>20. Tables(ch, W, P, U, th2, given)
  <2>1. Tables(ch, W, P, U, th, given) BY <1>a
  <2> QED BY <2>1, <1>3, <1>4, <1>5 DEF Tables
<1>21. Shaped(ch, th2, given)
  <2>1. Shaped(ch, th, given) BY <1>a
  <2> QED BY <2>1, <1>3, <1>4, <1>5 DEF Shaped
<1>22. NumberedBy(P, U, th2, given)
  <2>1. NumberedBy(P, U, th, given) BY <1>a
  <2> QED BY <2>1, <1>3, <1>4, <1>5 DEF NumberedBy
<1>23. Accepted(ch, P, U, th2)
  <2>0. Accepted(ch, P, U, th) BY <1>a
  <2>1. ASSUME NEW k \in DOMAIN U, U[k].type = "ConnRsp" /\ U[k].ok
        PROVE  th2[U[k].peers].ours = th[U[k].peers].ours /\ th2[U[k].peers].state = th[U[k].peers].state
    <3>1. U[k].peers # 0 BY <2>0, <2>1 DEF Accepted
    <3> QED BY <2>1, <3>1, <1>3, <1>4, <1>5
  <2> QED BY <2>0, <2>1 DEF Accepted
<1>24. Configures(P, th2)
  <2>1. Configures(P, th) BY <1>a
  <2> QED BY <2>1, <1>3, <1>4, <1>5 DEF Configures
<1>25. Closes(P, th2)
  <2>1. Closes(P, th) BY <1>a
  <2> QED BY <2>1, <1>3, <1>4, <1>5 DEF Closes
<1>26. Agrees(P, th2)
  <2>1. Agrees(P, th) BY <1>a
  <2> QED BY <2>1, <1>3, <1>4, <1>5 DEF Agrees
<1>27. Trusted(ch, W, P, th2)
  <2>1. Trusted(ch, W, P, th) BY <1>a
  <2> QED BY <2>1, <1>3, <1>4, <1>5 DEF Trusted
<1>28. Leaves(P, U, th2)
  <2>1. Leaves(P, U, th) BY <1>a
  <2> QED BY <2>1, <1>3, <1>4, <1>5 DEF Leaves
<1>30. OneForEach(th2)
  <2>1. OneForEach(th) BY <1>a
  <2> QED BY <2>1, <1>3, <1>4, <1>5 DEF OneForEach
<1>32. Requested(ch, P, U, th2, dirty)
  <2>1. Requested(ch, P, U, th, dirty) BY <1>a
  <2> QED BY <2>1, <1>6 DEF Requested
<1>33. Answered(ch, U, th2, dirty)
  <2>1. Answered(ch, U, th, dirty) BY <1>a
  <2> QED BY <2>1, <1>6 DEF Answered
<1>34. Carries(ch, P, U, th2, dirty)
  <2>0. Carries(ch, P, U, th, dirty) BY <1>a
  <2>1. ASSUME NEW x \in 1..Opens, th2[x].ours # 0, th2[x].ours \notin dirty, ch[th2[x].ours].inUse, th2[x].state = "Open"
        PROVE  ch[th2[x].ours].remote = x
    <3>1. CASE x = it BY <2>1, <3>1
    <3>2. CASE x # it
      <4>1. th2[x] = th[x] BY <3>2
      <4> QED BY <2>0, <2>1, <4>1 DEF Carries
    <3> QED BY <3>1, <3>2
  <2>2. ASSUME NEW k \in DOMAIN U, U[k].type = "Data", U[k].ours # 0, U[k].ours \notin dirty, ch[U[k].ours].inUse
        PROVE  ch[U[k].ours].remote = U[k].peers
    BY <2>0, <2>2, <1>3, <1>4, <1>5 DEF Carries
  <2>3. ASSUME NEW k \in DOMAIN P, P[k].type = "ConfRsp", P[k].peers # 0, th2[P[k].peers].ours # 0,
               th2[P[k].peers].ours \notin dirty, ch[th2[P[k].peers].ours].inUse, th2[P[k].peers].state \in {"Config", "Open"}
        PROVE  ch[th2[P[k].peers].ours].remote = P[k].peers
    <3> DEFINE z == P[k].peers
    <3>1. z \in 1..Opens BY <2>3, <1>3
    <3>2. th[z].ours # 0 /\ th[z].ours \notin dirty /\ ch[th[z].ours].inUse /\ th[z].state \in {"Config", "Open"}
            => ch[th[z].ours].remote = z BY <2>0, <2>3 DEF Carries
    <3> HIDE DEF z
    <3>3. th2[z].ours # 0 /\ th2[z].ours \notin dirty /\ ch[th2[z].ours].inUse /\ th2[z].state \in {"Config", "Open"} BY <2>3 DEF z
    <3>4. ch[th2[z].ours].remote = z
      <4>1. CASE z = it
        <5>1. st = "Open" BY <3>3, <4>1
        <5>2. th[it].state \in {"Config", "Open"} BY <5>1
        <5>3. th2[it].ours = th[it].ours OBVIOUS
        <5> QED BY <3>2, <3>3, <4>1, <5>2, <5>3
      <4>2. CASE z # it
        <5>1. th2[z] = th[z] BY <3>1, <4>2
        <5> QED BY <3>2, <3>3, <5>1
      <4> QED BY <4>1, <4>2
    <3> QED BY <3>4 DEF z
  <2> QED BY <2>1, <2>2, <2>3 DEF Carries
<1> QED BY <1>a, <1>20, <1>21, <1>22, <1>23, <1>24, <1>25, <1>26, <1>27, <1>28, <1>30, <1>32, <1>33, <1>34 DEF Core

\* The peer gives slot s its next channel.
GivesOut(s, th2, P, U, th, given, dirty) ==
  /\ s \in 0..Channels
  /\ given < Opens
  /\ th2 \in [1..Opens -> Theirs]
  /\ \A x \in 1..Opens \ {given + 1} : th2[x] = th[x]
  /\ th2[given + 1].ours = s /\ th2[given + 1].state = "Config"
  /\ \A x \in 1..Opens : th[x].ours = s => th[x].state = "Closed"
  /\ s \notin dirty => \A k \in DOMAIN U : U[k].ours # s
  /\ s \notin dirty => \A k \in DOMAIN P : P[k].type = "ConnReq" => P[k].ours # s
LEMMA CoreGive ==
  ASSUME NEW ch, NEW W, NEW O, NEW P, NEW U, NEW th, NEW given, NEW dirty, NEW s, NEW th2,
         Core(ch, W, O, P, U, th, given, dirty), GivesOut(s, th2, P, U, th, given, dirty)
  PROVE  Core(ch, W, O, P, U, th2, given + 1, dirty)
<1> USE DEF GivesOut
<1>a. Tables(ch, W, P, U, th, given) /\ Shaped(ch, th, given) /\ NumberedBy(P, U, th, given) /\ Accepted(ch, P, U, th) /\ Configures(P, th) /\ Closes(P, th) /\ Agrees(P, th) /\ Trusted(ch, W, P, th) /\ Leaves(P, U, th) /\ NoReject(U) /\ OneForEach(th) /\ Undisturbed(O, dirty, P, U) /\ Requested(ch, P, U, th, dirty) /\ Answered(ch, U, th, dirty) /\ Carries(ch, P, U, th, dirty)
  BY DEF Core
<1>2. Tables(ch, W, P, U, th, given) BY DEF Core
<1>3. /\ P \in Seq(Told2) /\ U \in Seq(Told2) /\ given \in Nat /\ given <= Opens /\ W \subseteq 1..Channels
      /\ \A k \in DOMAIN P : k \in Nat /\ P[k] \in Told2 /\ P[k].peers \in 0..Opens /\ P[k].ours \in 0..Channels
      /\ \A k \in DOMAIN U : k \in Nat /\ U[k] \in Told2 /\ U[k].peers \in 0..Opens /\ U[k].ours \in 0..Channels
      /\ \A y \in 1..Channels : ch[y] \in Slotted /\ ch[y].remote \in 0..Opens
      /\ \A z \in 1..Opens : th[z] \in Theirs /\ th[z].ours \in 0..Channels
                             /\ th[z].state \in {"Config", "Open", "Closing", "Closed"}
      /\ \A z \in 0..Opens : z # 0 => z \in 1..Opens
      /\ \A y \in 0..Channels : y # 0 => y \in 1..Channels
  BY <1>2, CoreTyped
<1>b. \A x \in 0..given : x # 0 => x \in 1..Opens \ {given + 1} BY <1>3, ClassicAssumption
<1>c. given + 1 \in 1..Opens /\ \A x \in 1..Opens : x # given + 1 => th2[x] = th[x] BY <1>3, ClassicAssumption
<1>4. \A x \in 0..given : x # 0 => th2[x].ours = th[x].ours /\ th2[x].state = th[x].state BY <1>b
<1>5. \A x \in 1..Opens : x # given + 1 => th2[x].ours = th[x].ours /\ th2[x].state = th[x].state BY <1>c
<1>6. /\ \A k \in DOMAIN P : P[k].peers \in 0..given
      /\ \A k \in DOMAIN U : U[k].peers \in 0..given
      /\ \A x \in 1..Channels : ch[x].remote \in 0..given
  BY <1>a, <1>3 DEF NumberedBy, Shaped
<1>7. /\ \A k \in DOMAIN P : P[k].peers # 0 => th2[P[k].peers].ours = th[P[k].peers].ours /\ th2[P[k].peers].state = th[P[k].peers].state
      /\ \A k \in DOMAIN U : U[k].peers # 0 => th2[U[k].peers].ours = th[U[k].peers].ours /\ th2[U[k].peers].state = th[U[k].peers].state
      /\ \A x \in 1..Channels : ch[x].remote # 0 => th2[ch[x].remote].ours = th[ch[x].remote].ours /\ th2[ch[x].remote].state = th[ch[x].remote].state
  BY <1>4, <1>6
<1>20. Tables(ch, W, P, U, th2, given + 1)
  <2>1. Tables(ch, W, P, U, th, given) BY <1>a
  <2> QED BY <2>1, <1>3, <1>4, <1>5, <1>6, <1>c DEF Tables
<1>21. Shaped(ch, th2, given + 1)
  <2>1. Shaped(ch, th, given) BY <1>a
  <2> QED BY <2>1, <1>3, <1>4, <1>5, <1>6, <1>c DEF Shaped
<1>22. NumberedBy(P, U, th2, given + 1)
  <2>1. NumberedBy(P, U, th, given) BY <1>a
  <2>2. \A x \in 1..Opens : x > given + 1 => x # given + 1 /\ x > given BY <1>3, ClassicAssumption
  <2>3. \A x \in 0..given : x <= given + 1 BY <1>3
  <2>4. \A x \in 1..Opens : x > given + 1 => th2[x].state = "Closed" BY <2>1, <2>2, <1>5 DEF NumberedBy
  <2> QED BY <2>3, <2>4, <1>6 DEF NumberedBy
<1>23. Accepted(ch, P, U, th2)
  <2>1. Accepted(ch, P, U, th) BY <1>a
  <2> QED BY <2>1, <1>7 DEF Accepted
<1>24. Configures(P, th2)
  <2>1. Configures(P, th) BY <1>a
  <2> QED BY <2>1, <1>7 DEF Configures
<1>25. Closes(P, th2)
  <2>1. Closes(P, th) BY <1>a
  <2> QED BY <2>1, <1>7 DEF Closes
<1>26. Agrees(P, th2)
  <2>1. Agrees(P, th) BY <1>a
  <2> QED BY <2>1, <1>7 DEF Agrees
<1>27. Trusted(ch, W, P, th2)
  <2>1. Trusted(ch, W, P, th) BY <1>a
  <2> QED BY <2>1, <1>3, <1>7 DEF Trusted
<1>28. Leaves(P, U, th2)
  <2>1. Leaves(P, U, th) BY <1>a
  <2> QED BY <2>1, <1>7 DEF Leaves
<1>30. OneForEach(th2)
  <2>1. OneForEach(th) BY <1>a
  <2> QED BY <2>1, <1>3, <1>4, <1>5, <1>6, <1>c DEF OneForEach
<1>32. Requested(ch, P, U, th2, dirty)
  <2>0. Requested(ch, P, U, th, dirty) BY <1>a
  <2>1. ASSUME NEW k \in DOMAIN P, P[k].type = "ConnReq" /\ P[k].ours \notin dirty
        PROVE  \A z \in 1..Opens : th2[z].ours = P[k].ours => th2[z].state = "Closed"
    <3>1. P[k].ours # s BY <2>1
    <3>2. th2[given + 1].ours = s OBVIOUS
    <3>3. \A z \in 1..Opens : th[z].ours = P[k].ours => th[z].state = "Closed" BY <2>0, <2>1 DEF Requested
    <3> QED BY <3>1, <3>2, <3>3, <1>5
  <2> QED BY <2>0, <2>1 DEF Requested
<1>33. Answered(ch, U, th2, dirty)
  <2>1. Answered(ch, U, th, dirty) BY <1>a
  <2>2. ASSUME NEW k \in DOMAIN U, U[k].type = "ConnRsp" /\ U[k].ours \notin dirty,
               NEW x \in 1..Opens, th2[x].ours = U[k].ours /\ th2[x].state # "Closed"
        PROVE  x = U[k].peers
    <3>1. U[k].ours # s BY <2>2
    <3>2. x # given + 1 BY <2>2, <3>1
    <3> QED BY <2>1, <2>2, <3>2, <1>5 DEF Answered
  <2> QED BY <2>1, <2>2 DEF Answered
<1>34. Carries(ch, P, U, th2, dirty)
  <2>0. Carries(ch, P, U, th, dirty) BY <1>a
  <2>1. ASSUME NEW x \in 1..Opens, th2[x].ours # 0, th2[x].ours \notin dirty, ch[th2[x].ours].inUse, th2[x].state = "Open"
        PROVE  ch[th2[x].ours].remote = x
    BY <2>0, <2>1, <1>3, <1>4, <1>5, <1>6, <1>c DEF Carries
  <2>2. ASSUME NEW k \in DOMAIN U, U[k].type = "Data", U[k].ours # 0, U[k].ours \notin dirty, ch[U[k].ours].inUse
        PROVE  ch[U[k].ours].remote = U[k].peers
    BY <2>0, <2>2, <1>3, <1>4, <1>5, <1>6, <1>c DEF Carries
  <2>3. ASSUME NEW k \in DOMAIN P, P[k].type = "ConfRsp", P[k].peers # 0, th2[P[k].peers].ours # 0,
               th2[P[k].peers].ours \notin dirty, ch[th2[P[k].peers].ours].inUse, th2[P[k].peers].state \in {"Config", "Open"}
        PROVE  ch[th2[P[k].peers].ours].remote = P[k].peers
    <3> DEFINE z == P[k].peers
    <3>1. z \in 1..Opens BY <2>3, <1>3
    <3>2. th[z].ours # 0 /\ th[z].ours \notin dirty /\ ch[th[z].ours].inUse /\ th[z].state \in {"Config", "Open"}
            => ch[th[z].ours].remote = z BY <2>0, <2>3 DEF Carries
    <3> HIDE DEF z
    <3>3. th2[z].ours # 0 /\ th2[z].ours \notin dirty /\ ch[th2[z].ours].inUse /\ th2[z].state \in {"Config", "Open"} BY <2>3 DEF z
    <3>4. ch[th2[z].ours].remote = z
      <4>1. z # 0 /\ z \in 0..given BY <2>3, <1>6 DEF z
      <4>2. z # given + 1 BY <4>1, <1>3
      <4>3. th2[z] = th[z] BY <3>1, <4>2
      <4> QED BY <3>2, <3>3, <4>3
    <3> QED BY <3>4 DEF z
  <2> QED BY <2>1, <2>2, <2>3 DEF Carries
<1> QED BY <1>a, <1>20, <1>21, <1>22, <1>23, <1>24, <1>25, <1>26, <1>27, <1>28, <1>30, <1>32, <1>33, <1>34 DEF Core

\* Slot s is freed.
Frees(s, ch2, ch, P, dirty) ==
  /\ s \in 1..Channels
  /\ ch2 \in [1..Channels -> Slotted]
  /\ \A x \in 1..Channels \ {s} : ch2[x] = ch[x]
  /\ ch2[s] = Vacant
  /\ s \notin dirty => \A k \in DOMAIN P : P[k].type = "ConnReq" => P[k].ours # s
LEMMA CoreFree ==
  ASSUME NEW ch, NEW W, NEW O, NEW P, NEW U, NEW th, NEW given, NEW dirty, NEW s, NEW ch2,
         Core(ch, W, O, P, U, th, given, dirty), Frees(s, ch2, ch, P, dirty)
  PROVE  Core(ch2, W, O, P, U, th, given, dirty)
<1> USE DEF Frees
<1>a. Tables(ch, W, P, U, th, given) /\ Shaped(ch, th, given) /\ NumberedBy(P, U, th, given) /\ Accepted(ch, P, U, th) /\ Configures(P, th) /\ Closes(P, th) /\ Agrees(P, th) /\ Trusted(ch, W, P, th) /\ Leaves(P, U, th) /\ NoReject(U) /\ OneForEach(th) /\ Undisturbed(O, dirty, P, U) /\ Requested(ch, P, U, th, dirty) /\ Answered(ch, U, th, dirty) /\ Carries(ch, P, U, th, dirty)
  BY DEF Core
<1>2. Tables(ch, W, P, U, th, given) BY DEF Core
<1>3. /\ P \in Seq(Told2) /\ U \in Seq(Told2) /\ given \in Nat /\ given <= Opens /\ W \subseteq 1..Channels
      /\ \A k \in DOMAIN P : k \in Nat /\ P[k] \in Told2 /\ P[k].peers \in 0..Opens /\ P[k].ours \in 0..Channels
      /\ \A k \in DOMAIN U : k \in Nat /\ U[k] \in Told2 /\ U[k].peers \in 0..Opens /\ U[k].ours \in 0..Channels
      /\ \A y \in 1..Channels : ch[y] \in Slotted /\ ch[y].remote \in 0..Opens
      /\ \A z \in 1..Opens : th[z] \in Theirs /\ th[z].ours \in 0..Channels
                             /\ th[z].state \in {"Config", "Open", "Closing", "Closed"}
      /\ \A z \in 0..Opens : z # 0 => z \in 1..Opens
      /\ \A y \in 0..Channels : y # 0 => y \in 1..Channels
  BY <1>2, CoreTyped
<1>4. \A x \in 1..Channels : x # s => ch2[x] = ch[x] OBVIOUS
<1>5. ~ch2[s].inUse /\ ~ch2[s].connected /\ ch2[s].remote = 0 BY DEF Vacant
<1>20. Tables(ch2, W, P, U, th, given)
  <2>1. Tables(ch, W, P, U, th, given) BY <1>a
  <2> QED BY <2>1, <1>3, <1>4, <1>5 DEF Tables
<1>21. Shaped(ch2, th, given)
  <2>1. Shaped(ch, th, given) BY <1>a
  <2> QED BY <2>1, <1>4, <1>5 DEF Shaped
<1>23. Accepted(ch2, P, U, th)
  <2>0. Accepted(ch, P, U, th) BY <1>a
  <2>1. ASSUME NEW k \in DOMAIN U, U[k].type = "ConnRsp" /\ U[k].ok, NEW x \in 1..Channels
        PROVE  ch2[x].remote # U[k].peers
    <3>1. U[k].peers # 0 /\ ch[x].remote # U[k].peers BY <2>0, <2>1 DEF Accepted
    <3> QED BY <2>1, <3>1, <1>4, <1>5
  <2> QED BY <2>0, <2>1 DEF Accepted
<1>27. Trusted(ch2, W, P, th)
  <2>1. Trusted(ch, W, P, th) BY <1>a
  <2> QED BY <2>1, <1>3, <1>4, <1>5 DEF Trusted
<1>32. Requested(ch2, P, U, th, dirty)
  <2>1. Requested(ch, P, U, th, dirty) BY <1>a
  <2> QED BY <2>1, <1>3, <1>4, <1>5 DEF Requested
<1>33. Answered(ch2, U, th, dirty)
  <2>1. Answered(ch, U, th, dirty) BY <1>a
  <2> QED BY <2>1, <1>3, <1>4, <1>5 DEF Answered
<1>34. Carries(ch2, P, U, th, dirty)
  <2>1. Carries(ch, P, U, th, dirty) BY <1>a
  <2> QED BY <2>1, <1>3, <1>4, <1>5 DEF Carries
<1> QED BY <1>a, <1>20, <1>21, <1>23, <1>27, <1>32, <1>33, <1>34 DEF Core

\* Slot s learns the channel it was given.
Connects(s, it, ch2, ch, P, U, th, given, dirty) ==
  /\ s \in 1..Channels
  /\ ch2 \in [1..Channels -> Slotted]
  /\ \A x \in 1..Channels \ {s} : ch2[x] = ch[x]
  /\ it \in 1..given
  /\ th[it].ours = s /\ th[it].state # "Closed"
  /\ ch2[s].inUse /\ ch2[s].remote = it
  /\ \A k \in DOMAIN U : U[k].type = "ConnRsp" /\ U[k].ok => U[k].peers # it
  /\ \A k \in DOMAIN P : P[k].peers # it
  /\ s \notin dirty => /\ \A k \in DOMAIN P : P[k].type = "ConnReq" => P[k].ours # s
                       /\ \A k \in DOMAIN U : U[k].type \in {"ConnRsp", "Data"} => U[k].ours # s
                       /\ \A x \in 1..Opens : th[x].ours = s /\ th[x].state # "Closed" => x = it
LEMMA CoreConnect ==
  ASSUME NEW ch, NEW W, NEW O, NEW P, NEW U, NEW th, NEW given, NEW dirty, NEW s, NEW it, NEW ch2,
         Core(ch, W, O, P, U, th, given, dirty), Connects(s, it, ch2, ch, P, U, th, given, dirty)
  PROVE  Core(ch2, W, O, P, U, th, given, dirty)
<1> USE DEF Connects
<1>a. Tables(ch, W, P, U, th, given) /\ Shaped(ch, th, given) /\ NumberedBy(P, U, th, given) /\ Accepted(ch, P, U, th) /\ Configures(P, th) /\ Closes(P, th) /\ Agrees(P, th) /\ Trusted(ch, W, P, th) /\ Leaves(P, U, th) /\ NoReject(U) /\ OneForEach(th) /\ Undisturbed(O, dirty, P, U) /\ Requested(ch, P, U, th, dirty) /\ Answered(ch, U, th, dirty) /\ Carries(ch, P, U, th, dirty)
  BY DEF Core
<1>2. Tables(ch, W, P, U, th, given) BY DEF Core
<1>3. /\ P \in Seq(Told2) /\ U \in Seq(Told2) /\ given \in Nat /\ given <= Opens /\ W \subseteq 1..Channels
      /\ \A k \in DOMAIN P : k \in Nat /\ P[k] \in Told2 /\ P[k].peers \in 0..Opens /\ P[k].ours \in 0..Channels
      /\ \A k \in DOMAIN U : k \in Nat /\ U[k] \in Told2 /\ U[k].peers \in 0..Opens /\ U[k].ours \in 0..Channels
      /\ \A y \in 1..Channels : ch[y] \in Slotted /\ ch[y].remote \in 0..Opens
      /\ \A z \in 1..Opens : th[z] \in Theirs /\ th[z].ours \in 0..Channels
                             /\ th[z].state \in {"Config", "Open", "Closing", "Closed"}
      /\ \A z \in 0..Opens : z # 0 => z \in 1..Opens
      /\ \A y \in 0..Channels : y # 0 => y \in 1..Channels
  BY <1>2, CoreTyped
<1>4. \A x \in 1..Channels : x # s => ch2[x] = ch[x] OBVIOUS
<1>5. it # 0 /\ it \in 1..Opens /\ it <= given /\ ch2[s].inUse /\ ch2[s].remote = it
  <2>1. it \in Nat /\ it # 0 /\ it <= given BY <1>3
  <2>2. it <= Opens BY <2>1, <1>3, ClassicAssumption
  <2>3. it \in 1..Opens BY <2>1, <2>2, ClassicAssumption
  <2> QED BY <2>1, <2>3
<1>20. Tables(ch2, W, P, U, th, given)
  <2>1. Tables(ch, W, P, U, th, given) BY <1>a
  <2> QED BY <2>1, <1>3, <1>4, <1>5 DEF Tables
<1>21. Shaped(ch2, th, given)
  <2>1. Shaped(ch, th, given) BY <1>a
  <2> QED BY <2>1, <1>3, <1>4, <1>5 DEF Shaped
<1>23. Accepted(ch2, P, U, th)
  <2>0. Accepted(ch, P, U, th) BY <1>a
  <2>1. ASSUME NEW k \in DOMAIN U, U[k].type = "ConnRsp" /\ U[k].ok, NEW x \in 1..Channels
        PROVE  ch2[x].remote # U[k].peers
    <3>1. U[k].peers # 0 /\ ch[x].remote # U[k].peers BY <2>0, <2>1 DEF Accepted
    <3> QED BY <2>1, <3>1, <1>4, <1>5
  <2> QED BY <2>0, <2>1 DEF Accepted
<1>27. Trusted(ch2, W, P, th)
  <2>1. Trusted(ch, W, P, th) BY <1>a
  <2> QED BY <2>1, <1>3, <1>4, <1>5 DEF Trusted
<1>32. Requested(ch2, P, U, th, dirty)
  <2>1. Requested(ch, P, U, th, dirty) BY <1>a
  <2> QED BY <2>1, <1>3, <1>4, <1>5 DEF Requested
<1>33. Answered(ch2, U, th, dirty)
  <2>1. Answered(ch, U, th, dirty) BY <1>a
  <2>2. \A k \in DOMAIN U : U[k].type = "ConnRsp" /\ U[k].ours \notin dirty => U[k].ours # s /\ U[k].ours \in 1..Channels
    BY <2>1, <1>3 DEF Answered
  <2>3. \A k \in DOMAIN U : U[k].type = "ConnRsp" /\ U[k].ours \notin dirty => ch2[U[k].ours] = ch[U[k].ours]
    BY <2>2, <1>4
  <2> QED BY <2>1, <2>3 DEF Answered
<1>34. Carries(ch2, P, U, th, dirty)
  <2>0. Carries(ch, P, U, th, dirty) BY <1>a
  <2>1. ASSUME NEW x \in 1..Opens, th[x].ours # 0, th[x].ours \notin dirty, ch2[th[x].ours].inUse, th[x].state = "Open"
        PROVE  ch2[th[x].ours].remote = x
    <3>1. CASE th[x].ours = s BY <2>1, <3>1, <1>5
    <3>2. CASE th[x].ours # s
      <4>1. th[x].ours \in 1..Channels BY <2>1, <1>3
      <4>2. ch2[th[x].ours] = ch[th[x].ours] BY <3>2, <4>1, <1>4
      <4>3. th[x].ours \notin dirty BY <2>1, <1>5
      <4> QED BY <2>0, <2>1, <4>2, <4>3 DEF Carries
    <3> QED BY <3>1, <3>2
  <2>2. ASSUME NEW k \in DOMAIN U, U[k].type = "Data", U[k].ours # 0, U[k].ours \notin dirty, ch2[U[k].ours].inUse
        PROVE  ch2[U[k].ours].remote = U[k].peers
    <3>1. CASE U[k].ours = s BY <2>2, <3>1
    <3>2. CASE U[k].ours # s
      <4>1. U[k].ours \in 1..Channels BY <2>2, <1>3
      <4>2. ch2[U[k].ours] = ch[U[k].ours] BY <3>2, <4>1, <1>4
      <4>3. U[k].ours \notin dirty BY <2>2, <1>5
      <4> QED BY <2>0, <2>2, <4>2, <4>3 DEF Carries
    <3> QED BY <3>1, <3>2
  <2>3. ASSUME NEW k \in DOMAIN P, P[k].type = "ConfRsp", P[k].peers # 0, th[P[k].peers].ours # 0,
               th[P[k].peers].ours \notin dirty, ch2[th[P[k].peers].ours].inUse, th[P[k].peers].state \in {"Config", "Open"}
        PROVE  ch2[th[P[k].peers].ours].remote = P[k].peers
    <3> DEFINE z == P[k].peers
    <3>1. z \in 1..Opens BY <2>3, <1>3
    <3>2. th[z].ours # 0 /\ th[z].ours \notin dirty /\ ch[th[z].ours].inUse /\ th[z].state \in {"Config", "Open"}
            => ch[th[z].ours].remote = z BY <2>0, <2>3 DEF Carries
    <3> HIDE DEF z
    <3>3. th[z].ours # 0 /\ th[z].ours \notin dirty /\ ch2[th[z].ours].inUse /\ th[z].state \in {"Config", "Open"} BY <2>3 DEF z
    <3>4. ch2[th[z].ours].remote = z
      <4>1. CASE th[z].ours = s BY <3>1, <3>3, <4>1, <1>5
      <4>2. CASE th[z].ours # s
        <5>1. th[z].ours \in 1..Channels BY <3>1, <3>3, <1>3
        <5>2. ch2[th[z].ours] = ch[th[z].ours] BY <4>2, <5>1, <1>4
        <5>3. th[z].ours \notin dirty BY <3>3, <1>5
        <5> QED BY <3>2, <3>3, <5>2, <5>3
      <4> QED BY <4>1, <4>2
    <3> QED BY <3>4 DEF z
  <2> QED BY <2>1, <2>2, <2>3 DEF Carries
<1> QED BY <1>a, <1>20, <1>21, <1>23, <1>27, <1>32, <1>33, <1>34 DEF Core

\* A slot gets further with its configuration.
Flags(ch2, ch) ==
  /\ ch2 \in [1..Channels -> Slotted]
  /\ \A x \in 1..Channels : ch2[x].inUse = ch[x].inUse /\ ch2[x].remote = ch[x].remote /\ ch2[x].connected = ch[x].connected
  /\ \A x \in 1..Channels : ~ch[x].inUse => ch2[x] = ch[x]
LEMMA CoreFlags ==
  ASSUME NEW ch, NEW W, NEW O, NEW P, NEW U, NEW th, NEW given, NEW dirty, NEW ch2,
         Core(ch, W, O, P, U, th, given, dirty), Flags(ch2, ch)
  PROVE  Core(ch2, W, O, P, U, th, given, dirty)
<1> USE DEF Flags
<1>a. Tables(ch, W, P, U, th, given) /\ Shaped(ch, th, given) /\ NumberedBy(P, U, th, given) /\ Accepted(ch, P, U, th) /\ Configures(P, th) /\ Closes(P, th) /\ Agrees(P, th) /\ Trusted(ch, W, P, th) /\ Leaves(P, U, th) /\ NoReject(U) /\ OneForEach(th) /\ Undisturbed(O, dirty, P, U) /\ Requested(ch, P, U, th, dirty) /\ Answered(ch, U, th, dirty) /\ Carries(ch, P, U, th, dirty)
  BY DEF Core
<1>2. Tables(ch, W, P, U, th, given) BY DEF Core
<1>3. /\ P \in Seq(Told2) /\ U \in Seq(Told2) /\ given \in Nat /\ given <= Opens /\ W \subseteq 1..Channels
      /\ \A k \in DOMAIN P : k \in Nat /\ P[k] \in Told2 /\ P[k].peers \in 0..Opens /\ P[k].ours \in 0..Channels
      /\ \A k \in DOMAIN U : k \in Nat /\ U[k] \in Told2 /\ U[k].peers \in 0..Opens /\ U[k].ours \in 0..Channels
      /\ \A y \in 1..Channels : ch[y] \in Slotted /\ ch[y].remote \in 0..Opens
      /\ \A z \in 1..Opens : th[z] \in Theirs /\ th[z].ours \in 0..Channels
                             /\ th[z].state \in {"Config", "Open", "Closing", "Closed"}
      /\ \A z \in 0..Opens : z # 0 => z \in 1..Opens
      /\ \A y \in 0..Channels : y # 0 => y \in 1..Channels
  BY <1>2, CoreTyped
<1>4. \A x \in 1..Channels : ch2[x].inUse = ch[x].inUse /\ ch2[x].remote = ch[x].remote OBVIOUS
<1>20. Tables(ch2, W, P, U, th, given)
  <2>1. Tables(ch, W, P, U, th, given) BY <1>a
  <2> QED BY <2>1, <1>3, <1>4 DEF Tables
<1>21. Shaped(ch2, th, given)
  BY <1>a DEF Shaped
<1>23. Accepted(ch2, P, U, th)
  <2>1. Accepted(ch, P, U, th) BY <1>a
  <2> QED BY <2>1, <1>3, <1>4 DEF Accepted
<1>27. Trusted(ch2, W, P, th)
  <2>1. Trusted(ch, W, P, th) BY <1>a
  <2> QED BY <2>1, <1>3, <1>4 DEF Trusted
<1>32. Requested(ch2, P, U, th, dirty)
  <2>1. Requested(ch, P, U, th, dirty) BY <1>a
  <2> QED BY <2>1, <1>3, <1>4 DEF Requested
<1>33. Answered(ch2, U, th, dirty)
  <2>1. Answered(ch, U, th, dirty) BY <1>a
  <2> QED BY <2>1, <1>3, <1>4 DEF Answered
<1>34. Carries(ch2, P, U, th, dirty)
  <2>1. Carries(ch, P, U, th, dirty) BY <1>a
  <2> QED BY <2>1, <1>3, <1>4 DEF Carries
<1> QED BY <1>a, <1>20, <1>21, <1>23, <1>27, <1>32, <1>33, <1>34 DEF Core

\* Slot s is taken, and is clean if not in d2.
Reopens(s, d2, ch2, ch, P, U, th, dirty) ==
  /\ s \in 1..Channels
  /\ ch2 \in [1..Channels -> Slotted]
  /\ \A x \in 1..Channels \ {s} : ch2[x] = ch[x]
  /\ ~ch[s].inUse
  /\ ch2[s].inUse /\ ch2[s].remote = 0 /\ ~ch2[s].connected
  /\ dirty \subseteq d2
  /\ s \notin d2 => /\ \A k \in DOMAIN P : P[k].ours # s
                    /\ \A k \in DOMAIN U : U[k].ours # s
                    /\ \A x \in 1..Opens : th[x].ours = s => th[x].state = "Closed"
LEMMA CoreOpen ==
  ASSUME NEW ch, NEW W, NEW O, NEW P, NEW U, NEW th, NEW given, NEW dirty, NEW s, NEW ch2, NEW d2,
         Core(ch, W, O, P, U, th, given, dirty), Reopens(s, d2, ch2, ch, P, U, th, dirty)
  PROVE  Core(ch2, W \cup {s}, {s}, P, U, th, given, d2)
<1> USE DEF Reopens
<1>a. Tables(ch, W, P, U, th, given) /\ Shaped(ch, th, given) /\ NumberedBy(P, U, th, given) /\ Accepted(ch, P, U, th) /\ Configures(P, th) /\ Closes(P, th) /\ Agrees(P, th) /\ Trusted(ch, W, P, th) /\ Leaves(P, U, th) /\ NoReject(U) /\ OneForEach(th) /\ Undisturbed(O, dirty, P, U) /\ Requested(ch, P, U, th, dirty) /\ Answered(ch, U, th, dirty) /\ Carries(ch, P, U, th, dirty)
  BY DEF Core
<1>2. Tables(ch, W, P, U, th, given) BY DEF Core
<1>3. /\ P \in Seq(Told2) /\ U \in Seq(Told2) /\ given \in Nat /\ given <= Opens /\ W \subseteq 1..Channels
      /\ \A k \in DOMAIN P : k \in Nat /\ P[k] \in Told2 /\ P[k].peers \in 0..Opens /\ P[k].ours \in 0..Channels
      /\ \A k \in DOMAIN U : k \in Nat /\ U[k] \in Told2 /\ U[k].peers \in 0..Opens /\ U[k].ours \in 0..Channels
      /\ \A y \in 1..Channels : ch[y] \in Slotted /\ ch[y].remote \in 0..Opens
      /\ \A z \in 1..Opens : th[z] \in Theirs /\ th[z].ours \in 0..Channels
                             /\ th[z].state \in {"Config", "Open", "Closing", "Closed"}
      /\ \A z \in 0..Opens : z # 0 => z \in 1..Opens
      /\ \A y \in 0..Channels : y # 0 => y \in 1..Channels
  BY <1>2, CoreTyped
<1>4. \A x \in 1..Channels : x # s => ch2[x] = ch[x] OBVIOUS
<1>5. ch2[s].inUse /\ ch2[s].remote = 0 /\ ~ch2[s].connected /\ dirty \subseteq d2 OBVIOUS
<1>20. Tables(ch2, W \cup {s}, P, U, th, given)
  <2>1. Tables(ch, W, P, U, th, given) BY <1>a
  <2> QED BY <2>1, <1>3, <1>4, <1>5 DEF Tables
<1>21. Shaped(ch2, th, given)
  <2>1. Shaped(ch, th, given) BY <1>a
  <2> QED BY <2>1, <1>3, <1>4, <1>5 DEF Shaped
<1>23. Accepted(ch2, P, U, th)
  <2>0. Accepted(ch, P, U, th) BY <1>a
  <2>1. ASSUME NEW k \in DOMAIN U, U[k].type = "ConnRsp" /\ U[k].ok, NEW x \in 1..Channels
        PROVE  ch2[x].remote # U[k].peers
    <3>1. U[k].peers # 0 /\ ch[x].remote # U[k].peers BY <2>0, <2>1 DEF Accepted
    <3> QED BY <2>1, <3>1, <1>4, <1>5
  <2> QED BY <2>0, <2>1 DEF Accepted
<1>27. Trusted(ch2, W \cup {s}, P, th)
  <2>1. Trusted(ch, W, P, th) BY <1>a
  <2> QED BY <2>1, <1>3, <1>4, <1>5 DEF Trusted
<1>31. Undisturbed({s}, d2, P, U)
  <2>1. s \notin d2 => (\A k \in DOMAIN P : P[k].ours # s) /\ (\A k \in DOMAIN U : U[k].ours # s) OBVIOUS
  <2> QED BY <2>1 DEF Undisturbed
<1>32. Requested(ch2, P, U, th, d2)
  <2>1. Requested(ch, P, U, th, dirty) BY <1>a
  <2> QED BY <2>1, <1>3, <1>4, <1>5 DEF Requested
<1>33. Answered(ch2, U, th, d2)
  <2>1. Answered(ch, U, th, dirty) BY <1>a
  <2> QED BY <2>1, <1>3, <1>4, <1>5 DEF Answered
<1>34. Carries(ch2, P, U, th, d2)
  <2>0. Carries(ch, P, U, th, dirty) BY <1>a
  <2>1. ASSUME NEW x \in 1..Opens, th[x].ours # 0, th[x].ours \notin d2, ch2[th[x].ours].inUse, th[x].state = "Open"
        PROVE  ch2[th[x].ours].remote = x
    <3>1. CASE th[x].ours = s BY <2>1, <3>1, <1>5
    <3>2. CASE th[x].ours # s
      <4>1. th[x].ours \in 1..Channels BY <2>1, <1>3
      <4>2. ch2[th[x].ours] = ch[th[x].ours] BY <3>2, <4>1, <1>4
      <4>3. th[x].ours \notin dirty BY <2>1, <1>5
      <4> QED BY <2>0, <2>1, <4>2, <4>3 DEF Carries
    <3> QED BY <3>1, <3>2
  <2>2. ASSUME NEW k \in DOMAIN U, U[k].type = "Data", U[k].ours # 0, U[k].ours \notin d2, ch2[U[k].ours].inUse
        PROVE  ch2[U[k].ours].remote = U[k].peers
    <3>1. CASE U[k].ours = s BY <2>2, <3>1
    <3>2. CASE U[k].ours # s
      <4>1. U[k].ours \in 1..Channels BY <2>2, <1>3
      <4>2. ch2[U[k].ours] = ch[U[k].ours] BY <3>2, <4>1, <1>4
      <4>3. U[k].ours \notin dirty BY <2>2, <1>5
      <4> QED BY <2>0, <2>2, <4>2, <4>3 DEF Carries
    <3> QED BY <3>1, <3>2
  <2>3. ASSUME NEW k \in DOMAIN P, P[k].type = "ConfRsp", P[k].peers # 0, th[P[k].peers].ours # 0,
               th[P[k].peers].ours \notin d2, ch2[th[P[k].peers].ours].inUse, th[P[k].peers].state \in {"Config", "Open"}
        PROVE  ch2[th[P[k].peers].ours].remote = P[k].peers
    <3> DEFINE z == P[k].peers
    <3>1. z \in 1..Opens BY <2>3, <1>3
    <3>2. th[z].ours # 0 /\ th[z].ours \notin dirty /\ ch[th[z].ours].inUse /\ th[z].state \in {"Config", "Open"}
            => ch[th[z].ours].remote = z BY <2>0, <2>3 DEF Carries
    <3> HIDE DEF z
    <3>3. th[z].ours # 0 /\ th[z].ours \notin d2 /\ ch2[th[z].ours].inUse /\ th[z].state \in {"Config", "Open"} BY <2>3 DEF z
    <3>4. ch2[th[z].ours].remote = z
      <4>1. CASE th[z].ours = s BY <3>1, <3>3, <4>1, <1>5
      <4>2. CASE th[z].ours # s
        <5>1. th[z].ours \in 1..Channels BY <3>1, <3>3, <1>3
        <5>2. ch2[th[z].ours] = ch[th[z].ours] BY <4>2, <5>1, <1>4
        <5>3. th[z].ours \notin dirty BY <3>3, <1>5
        <5> QED BY <3>2, <3>3, <5>2, <5>3
      <4> QED BY <4>1, <4>2
    <3> QED BY <3>4 DEF z
  <2> QED BY <2>1, <2>2, <2>3 DEF Carries
<1> QED BY <1>a, <1>20, <1>21, <1>23, <1>27, <1>31, <1>32, <1>33, <1>34 DEF Core

\* The head of a sequence, and the rest.
First(m, R, q) == q # <<>> /\ m = Head(q) /\ R = Tail(q)

LEMMA Headed ==
  ASSUME NEW q \in Seq(Told2), q # <<>>
  PROVE  /\ Head(q) = q[1] /\ Head(q) \in Told2 /\ 1 \in DOMAIN q /\ PartOf(Tail(q), q) /\ Tail(q) \in Seq(Told2)
         /\ \A k \in DOMAIN Tail(q) : k + 1 \in DOMAIN q /\ 1 < k + 1 /\ k + 1 # 1 /\ Tail(q)[k] = q[k + 1]
<1>1. PartOf(Tail(q), q) BY Parts
<1>2. /\ Tail(q) \in Seq(Told2) /\ Len(q) \in Nat \ {0} /\ DOMAIN q = 1..Len(q) /\ DOMAIN Tail(q) = 1..(Len(q) - 1)
      /\ \A k \in 1..(Len(q) - 1) : Tail(q)[k] = q[k + 1]
      /\ Head(q) = q[1] /\ Head(q) \in Told2 /\ 1 \in DOMAIN q
  BY AtFront
<1> QED BY <1>1, <1>2

\* What the frame the endpoint reads says of everything else.
ReadOfU(m, R, ch, O, P, th, given, dirty) ==
  /\ m \in Told2 /\ m.type # "Reject" /\ m.peers <= given
  /\ m.type = "ConnRsp" /\ m.ok =>
       /\ m.peers # 0 /\ th[m.peers].ours = m.ours /\ th[m.peers].state = "Config"
       /\ \A j \in DOMAIN P : P[j].peers # m.peers
       /\ \A j \in DOMAIN R : R[j].type = "ConnRsp" /\ R[j].ok => R[j].peers # m.peers
  /\ m.type = "ConnRsp" /\ m.ours \notin dirty =>
       /\ \A j \in DOMAIN R : R[j].type \in {"ConnRsp", "Data"} => R[j].ours # m.ours
       /\ \A c \in 1..Opens : th[c].ours = m.ours /\ th[c].state # "Closed" => c = m.peers
  /\ m.type = "DiscReq" =>
       /\ m.peers # 0 /\ th[m.peers].ours = m.ours /\ th[m.peers].state = "Closing"
       /\ \A j \in DOMAIN R : R[j].type = "DiscReq" => R[j].peers # m.peers
       /\ \A j \in DOMAIN P : P[j].type = "DiscRsp" => P[j].peers # m.peers
  /\ m.type = "DiscRsp" => m.ours \notin O \ dirty
  /\ \A k \in DOMAIN P : P[k].type = "ConnReq" /\ P[k].ours \notin dirty => P[k].ours # m.ours
  /\ m.type = "Data" /\ m.ours # 0 /\ m.ours \notin dirty /\ ch[m.ours].inUse => ch[m.ours].remote = m.peers

LEMMA HeadOfU ==
  ASSUME NEW ch, NEW W, NEW O, NEW P, NEW U, NEW th, NEW given, NEW dirty, NEW m, NEW R,
         Core(ch, W, O, P, U, th, given, dirty), First(m, R, U)
  PROVE  Core(ch, W, O, P, R, th, given, dirty) /\ ReadOfU(m, R, ch, O, P, th, given, dirty)
<1> USE DEF First
<1>1. P \in Seq(Told2) /\ U \in Seq(Told2) BY DEF Core, Tables
<1>2. /\ m = U[1] /\ m \in Told2 /\ 1 \in DOMAIN U /\ PartOf(R, U)
      /\ \A k \in DOMAIN R : k + 1 \in DOMAIN U /\ k + 1 # 1 /\ R[k] = U[k + 1]
  BY <1>1, Headed
<1>3. Core(ch, W, O, P, R, th, given, dirty)
  <2>1. PartOf(P, P) BY <1>1, Parts
  <2> QED BY <2>1, <1>2, CoreLess
<1>4. m.type # "Reject" /\ m.peers <= given
  <2>1. NoReject(U) /\ NumberedBy(P, U, th, given) BY DEF Core
  <2> QED BY <2>1, <1>2 DEF NoReject, NumberedBy
<1>5. m.type = "ConnRsp" /\ m.ok =>
              /\ m.peers # 0 /\ th[m.peers].ours = m.ours /\ th[m.peers].state = "Config"
              /\ \A j \in DOMAIN P : P[j].peers # m.peers
              /\ \A j \in DOMAIN R : R[j].type = "ConnRsp" /\ R[j].ok => R[j].peers # m.peers
  <2>1. Accepted(ch, P, U, th) BY DEF Core
  <2> QED BY <2>1, <1>2 DEF Accepted
<1>6. m.type = "ConnRsp" /\ m.ours \notin dirty =>
              /\ \A j \in DOMAIN R : R[j].type \in {"ConnRsp", "Data"} => R[j].ours # m.ours
              /\ \A c \in 1..Opens : th[c].ours = m.ours /\ th[c].state # "Closed" => c = m.peers
  <2>1. Answered(ch, U, th, dirty) BY DEF Core
  <2> QED BY <2>1, <1>2 DEF Answered
<1>7. m.type = "DiscReq" =>
              /\ m.peers # 0 /\ th[m.peers].ours = m.ours /\ th[m.peers].state = "Closing"
              /\ \A j \in DOMAIN R : R[j].type = "DiscReq" => R[j].peers # m.peers
              /\ \A j \in DOMAIN P : P[j].type = "DiscRsp" => P[j].peers # m.peers
  <2>1. Leaves(P, U, th) BY DEF Core
  <2> QED BY <2>1, <1>2 DEF Leaves
<1>8. m.type = "DiscRsp" => m.ours \notin O \ dirty
  <2>1. Undisturbed(O, dirty, P, U) BY DEF Core
  <2> QED BY <2>1, <1>2 DEF Undisturbed
<1>9. \A k \in DOMAIN P : P[k].type = "ConnReq" /\ P[k].ours \notin dirty => P[k].ours # m.ours
  <2>1. Requested(ch, P, U, th, dirty) BY DEF Core
  <2> QED BY <2>1, <1>2 DEF Requested
<1>10. m.type = "Data" /\ m.ours # 0 /\ m.ours \notin dirty /\ ch[m.ours].inUse => ch[m.ours].remote = m.peers
  <2>1. Carries(ch, P, U, th, dirty) BY DEF Core
  <2> QED BY <2>1, <1>2 DEF Carries
<1> QED BY <1>2, <1>3, <1>4, <1>5, <1>6, <1>7, <1>8, <1>9, <1>10 DEF ReadOfU

\* And the command the peer reads.
ReadOfP(m, R, ch, W, O, U, th, given, dirty) ==
  /\ m \in Told2 /\ m.peers <= given
  /\ \A k \in DOMAIN U : U[k].type = "ConnRsp" /\ U[k].ok => U[k].peers # m.peers
  /\ \A k \in DOMAIN R : R[k].type = "ConnReq" /\ R[k].ours \notin dirty => R[k].ours # m.ours
  /\ m.type = "ConnReq" /\ m.ours \notin dirty =>
       /\ m.ours # 0 /\ ch[m.ours].remote = 0
       /\ \A j \in DOMAIN U : U[j].ours # m.ours
       /\ \A c \in 1..Opens : th[c].ours = m.ours => th[c].state = "Closed"
  /\ m.type = "ConfReq" => m.peers # 0 /\ th[m.peers].state = "Config"
  /\ m.type \in {"ConfRsp", "DiscReq"} => \A k \in DOMAIN R : R[k].type = "ConfReq" => R[k].peers # m.peers
  /\ m.type = "ConfRsp" /\ m.peers # 0 =>
       (th[m.peers].ours # 0 /\ th[m.peers].ours \notin dirty /\ ch[th[m.peers].ours].inUse
          /\ th[m.peers].state \in {"Config", "Open"} => ch[th[m.peers].ours].remote = m.peers)
  /\ m.type = "DiscReq" => m.peers # 0 /\ th[m.peers].state # "Closed" /\ m.ours \notin O \ dirty
  /\ m.type \in {"DiscReq", "DiscRsp"} =>
       /\ \A k \in DOMAIN R : R[k].type = "DiscReq" => R[k].peers # m.peers
       /\ \A s \in W : ch[s].remote # 0 => ch[s].remote # m.peers
  /\ m.type = "DiscRsp" =>
       /\ m.peers # 0 /\ th[m.peers].state = "Closing"
       /\ \A k \in DOMAIN R : R[k].type = "DiscRsp" => R[k].peers # m.peers
       /\ \A k \in DOMAIN U : U[k].type = "DiscReq" => U[k].peers # m.peers

LEMMA HeadOfP ==
  ASSUME NEW ch, NEW W, NEW O, NEW P, NEW U, NEW th, NEW given, NEW dirty, NEW m, NEW R,
         Core(ch, W, O, P, U, th, given, dirty), First(m, R, P)
  PROVE  Core(ch, W, O, R, U, th, given, dirty) /\ ReadOfP(m, R, ch, W, O, U, th, given, dirty)
<1> USE DEF First
<1>1. P \in Seq(Told2) /\ U \in Seq(Told2) BY DEF Core, Tables
<1>2. /\ m = P[1] /\ m \in Told2 /\ 1 \in DOMAIN P /\ PartOf(R, P) /\ R \in Seq(Told2)
      /\ \A k \in DOMAIN R : k + 1 \in DOMAIN P /\ 1 < k + 1 /\ k + 1 # 1 /\ R[k] = P[k + 1]
  BY <1>1, Headed
<1>3. Core(ch, W, O, R, U, th, given, dirty)
  <2>1. PartOf(U, U) BY <1>1, Parts
  <2> QED BY <2>1, <1>2, CoreLess
<1>4. m.peers <= given
  <2>1. NumberedBy(P, U, th, given) BY DEF Core
  <2> QED BY <2>1, <1>2 DEF NumberedBy
<1>5. \A k \in DOMAIN U : U[k].type = "ConnRsp" /\ U[k].ok => U[k].peers # m.peers
  <2>1. Accepted(ch, P, U, th) BY DEF Core
  <2> QED BY <2>1, <1>2 DEF Accepted
<1>6. \A k \in DOMAIN R : R[k].type = "ConnReq" /\ R[k].ours \notin dirty => R[k].ours # m.ours
  <2>1. Requested(ch, P, U, th, dirty) BY DEF Core
  <2> QED BY <2>1, <1>2 DEF Requested
<1>7. m.type = "ConnReq" /\ m.ours \notin dirty =>
              /\ m.ours # 0 /\ ch[m.ours].remote = 0
              /\ \A j \in DOMAIN U : U[j].ours # m.ours
              /\ \A c \in 1..Opens : th[c].ours = m.ours => th[c].state = "Closed"
  <2>1. Requested(ch, P, U, th, dirty) BY DEF Core
  <2> QED BY <2>1, <1>2 DEF Requested
<1>8. m.type = "ConfReq" => m.peers # 0 /\ th[m.peers].state = "Config"
  <2>1. Configures(P, th) BY DEF Core
  <2> QED BY <2>1, <1>2 DEF Configures
<1>9. m.type \in {"ConfRsp", "DiscReq"} => \A k \in DOMAIN R : R[k].type = "ConfReq" => R[k].peers # m.peers
  <2>1. Configures(P, th) BY DEF Core
  <2>2. ASSUME m.type \in {"ConfRsp", "DiscReq"}, NEW k \in DOMAIN R, R[k].type = "ConfReq", R[k].peers = m.peers
        PROVE  FALSE
    <3>1. k + 1 < 1 BY <2>1, <2>2, <1>2 DEF Configures
    <3>2. k \in Nat BY <1>2, LenProperties
    <3> QED BY <3>1, <3>2
  <2> QED BY <2>2
<1>10. m.type = "ConfRsp" /\ m.peers # 0 =>
              (th[m.peers].ours # 0 /\ th[m.peers].ours \notin dirty /\ ch[th[m.peers].ours].inUse
                 /\ th[m.peers].state \in {"Config", "Open"} => ch[th[m.peers].ours].remote = m.peers)
  <2>1. Carries(ch, P, U, th, dirty) BY DEF Core
  <2> QED BY <2>1, <1>2 DEF Carries
<1>11. m.type = "DiscReq" => m.peers # 0 /\ th[m.peers].state # "Closed" /\ m.ours \notin O \ dirty
  <2>1. Closes(P, th) /\ Undisturbed(O, dirty, P, U) BY DEF Core
  <2> QED BY <2>1, <1>2 DEF Closes, Undisturbed
<1>12. m.type \in {"DiscReq", "DiscRsp"} => \A k \in DOMAIN R : R[k].type = "DiscReq" => R[k].peers # m.peers
  <2>1. Closes(P, th) BY DEF Core
  <2>2. ASSUME m.type \in {"DiscReq", "DiscRsp"}, NEW k \in DOMAIN R, R[k].type = "DiscReq", R[k].peers = m.peers
        PROVE  FALSE
    <3>1. k + 1 <= 1 BY <2>1, <2>2, <1>2 DEF Closes
    <3>2. k \in Nat \ {0} BY <1>2, LenProperties
    <3> QED BY <3>1, <3>2
  <2> QED BY <2>2
<1>13. m.type \in {"DiscReq", "DiscRsp"} => \A s \in W : ch[s].remote # 0 => ch[s].remote # m.peers
  <2>1. Trusted(ch, W, P, th) BY DEF Core
  <2> QED BY <2>1, <1>2 DEF Trusted
<1>14. m.type = "DiscRsp" =>
              /\ m.peers # 0 /\ th[m.peers].state = "Closing"
              /\ \A k \in DOMAIN R : R[k].type = "DiscRsp" => R[k].peers # m.peers
              /\ \A k \in DOMAIN U : U[k].type = "DiscReq" => U[k].peers # m.peers
  <2>1. Agrees(P, th) /\ Leaves(P, U, th) BY DEF Core
  <2> QED BY <2>1, <1>2 DEF Agrees, Leaves
<1> QED BY <1>2, <1>3, <1>4, <1>5, <1>6, <1>7, <1>8, <1>9, <1>10, <1>11, <1>12, <1>13, <1>14 DEF ReadOfP

(* The endpoint and its peer. *)

Opening == IF c_call.op = "open" THEN {c_call.slot} ELSE {}
Desired == c_held \cup Opening
ClassicCore == Core(c_channels, Desired, Opening, c_toPeer, c_toUs, c_theirs, c_used, c_stale)
CallTypes == /\ c_call \in [op : {"None", "open", "recv", "close"}, slot : 0..Channels,
                            end : {"Ok", "Timeout", "Rejected", "Failed", "Down"}]
             /\ c_held \subseteq 1..Channels /\ c_stale \subseteq 1..Channels
             /\ c_slow \in 0..Slow /\ c_up \in BOOLEAN
\* The slots a call is about are in use; only a timeout or an unsent message leaves one behind that nobody holds.
ClassicCalls ==
  /\ CallTypes
  /\ c_call.op \in {"open", "close"} => c_call.slot \in 1..Channels /\ c_channels[c_call.slot].inUse /\ c_call.slot \notin c_held
  /\ c_call.op = "close" => c_channels[c_call.slot].remote # 0
  /\ c_call.op # "None" => c_call.end = "Ok"
  /\ \A s \in c_held : c_channels[s].inUse /\ c_channels[s].connected /\ c_channels[s].rsp /\ c_channels[s].req
  /\ c_call.end # "Down" /\ c_slow = 0 =>
       \A s \in 1..Channels : c_channels[s].inUse => s \in c_held \/ (c_call.op \in {"open", "close"} /\ c_call.slot = s)
ClassicInv == ClassicCore /\ ClassicCalls

LEMMA ClassicInit == Classic!Init => ClassicInv
<1> SUFFICES ASSUME Classic!Init PROVE ClassicInv OBVIOUS
<1>1. /\ c_channels = [s \in 1..Channels |-> Vacant]
      /\ c_call = [op |-> "None", slot |-> 0, end |-> "Ok"] /\ c_toPeer = <<>> /\ c_toUs = <<>>
      /\ c_theirs = [c \in 1..Opens |-> [ours |-> 0, state |-> "Closed", asked |-> FALSE]]
      /\ c_used = 0 /\ c_up = TRUE /\ c_held = {} /\ c_slow = 0 /\ c_stale = {}
  BY DEF Classic!Init, Classic!Empty, Classic!Idle, Classic!Zero, Vacant
<1>2. 0 \in 0..Channels /\ 0 \in 0..Opens /\ 0 \in 0..Slow BY ClassicAssumption
<1>3. Opening = {} /\ Desired = {} BY <1>1 DEF Opening, Desired
<1>4. DOMAIN c_toPeer = {} /\ DOMAIN c_toUs = {} /\ c_toPeer \in Seq(Told2) /\ c_toUs \in Seq(Told2) BY <1>1
<1>5. Vacant \in Slotted BY <1>2 DEF Vacant, Slotted
<1>6. [ours |-> 0, state |-> "Closed", asked |-> FALSE] \in Theirs BY <1>2 DEF Theirs
<1>7. Tables(c_channels, Desired, c_toPeer, c_toUs, c_theirs, c_used)
  BY <1>1, <1>2, <1>3, <1>4, <1>5, <1>6 DEF Tables
<1>8. \A s \in 1..Channels : c_channels[s] = Vacant /\ ~c_channels[s].inUse /\ ~c_channels[s].connected /\ c_channels[s].remote = 0
  BY <1>1 DEF Vacant
<1>9. \A c \in 1..Opens : c_theirs[c].state = "Closed" /\ c_theirs[c].ours = 0 BY <1>1
<1>10. ClassicCore
  BY <1>3, <1>4, <1>7, <1>8, <1>9 DEF ClassicCore, Core, Shaped, NumberedBy, Accepted, Configures, Closes, Agrees, Trusted, Leaves,
     NoReject, OneForEach, Undisturbed, Requested, Answered, Carries
<1>11. ClassicCalls BY <1>1, <1>2, <1>8 DEF ClassicCalls, CallTypes
<1> QED BY <1>10, <1>11 DEF ClassicInv

\* A frame leaves every slot as it was, further on, or free.
Grown(t) ==
  \A s \in 1..Channels :
    /\ t[s].connected => t[s].inUse
    /\ t[s].inUse => /\ c_channels[s].inUse /\ (c_channels[s].connected => t[s].connected)
                     /\ (c_channels[s].rsp => t[s].rsp) /\ (c_channels[s].req => t[s].req)
                     /\ (c_channels[s].remote # 0 => t[s].remote # 0)

LEMMA ClassicGoes ==
  ASSUME ClassicCalls, NEW t, t \in [1..Channels -> Slotted], Grown(t), c_call.op # "None",
         Classic!Goes(t), UNCHANGED <<c_slow, c_stale, c_up>>
  PROVE  ClassicCalls' /\ Desired' \subseteq Desired /\ Opening' \subseteq Opening /\ c_channels' = t
<1> DEFINE Open(s) == t[s].connected /\ t[s].rsp /\ t[s].req
<1>1. /\ c_channels' = t
      /\ c_held' = {s \in c_held : t[s].inUse} \cup {s \in {c_call.slot} \cap DOMAIN t : c_call.op = "open" /\ Open(s)}
      /\ c_call' = IF c_call.op = "open" /\ ~t[c_call.slot].inUse THEN [op |-> "None", slot |-> 0, end |-> "Rejected"]
                   ELSE IF c_call.op = "open" /\ Open(c_call.slot) THEN [op |-> "None", slot |-> 0, end |-> "Ok"]
                   ELSE IF c_call.op = "close" /\ ~t[c_call.slot].inUse THEN [op |-> "None", slot |-> 0, end |-> "Ok"]
                   ELSE c_call
  BY DEF Classic!Goes, Classic!IsOpen, Classic!Idle, Classic!Zero
<1>2. /\ c_call \in [op : {"None", "open", "recv", "close"}, slot : 0..Channels, end : {"Ok", "Timeout", "Rejected", "Failed", "Down"}]
      /\ c_held \subseteq 1..Channels /\ c_stale \subseteq 1..Channels /\ c_slow \in 0..Slow /\ c_up \in BOOLEAN
      /\ DOMAIN t = 1..Channels /\ c_call.end = "Ok" /\ 0 \in 0..Channels
  BY ClassicAssumption DEF ClassicCalls, CallTypes
<1>3. \A s \in 1..Channels : ~t[s].inUse => t[s] \in Slotted OBVIOUS
<1>4. /\ c_call.op \in {"open", "close"} => c_call.slot \in 1..Channels /\ c_channels[c_call.slot].inUse /\ c_call.slot \notin c_held
      /\ c_call.op = "close" => c_channels[c_call.slot].remote # 0
      /\ \A s \in c_held : c_channels[s].connected /\ c_channels[s].rsp /\ c_channels[s].req
      /\ c_slow = 0 => \A s \in 1..Channels : c_channels[s].inUse => s \in c_held \/ (c_call.op \in {"open", "close"} /\ c_call.slot = s)
  BY <1>2 DEF ClassicCalls
<1> HIDE DEF Open
<1>5. c_held' \subseteq Desired /\ c_held' \subseteq 1..Channels BY <1>1, <1>2 DEF Desired, Opening
<1>6. Opening' \subseteq Opening
  <2>1. c_call' = c_call \/ c_call'.op = "None" BY <1>1
  <2> QED BY <2>1 DEF Opening
<1>7. CallTypes' BY <1>1, <1>2, <1>5 DEF CallTypes
<1>8. c_call'.op \in {"open", "close"} =>
         c_call' = c_call /\ c_call.op \in {"open", "close"} /\ t[c_call.slot].inUse /\ (c_call.op = "open" => ~Open(c_call.slot))
  BY <1>1
<1>9. c_call'.op \in {"open", "close"} => c_call'.slot \in 1..Channels /\ c_channels'[c_call'.slot].inUse /\ c_call'.slot \notin c_held'
  <2> SUFFICES ASSUME c_call'.op \in {"open", "close"} PROVE c_call.slot \in 1..Channels /\ t[c_call.slot].inUse /\ c_call.slot \notin c_held'
    BY <1>1, <1>8
  <2> QED BY <1>1, <1>4, <1>8
<1>10. c_call'.op = "close" => c_channels'[c_call'.slot].remote # 0 BY <1>1, <1>4, <1>8 DEF Grown
<1>11. c_call'.op # "None" => c_call'.end = "Ok" BY <1>1, <1>2
<1>12. ASSUME NEW s \in c_held' PROVE c_channels'[s].inUse /\ c_channels'[s].connected /\ c_channels'[s].rsp /\ c_channels'[s].req
  <2>1. s \in 1..Channels BY <1>5
  <2>2. CASE s \in c_held /\ t[s].inUse BY <1>1, <1>4, <2>1, <2>2 DEF Grown
  <2>3. CASE s = c_call.slot /\ c_call.op = "open" /\ Open(s)
    <3>1. t[s].inUse BY <2>1, <2>3 DEF Open, Grown
    <3> QED BY <1>1, <2>3, <3>1 DEF Open
  <2> QED BY <1>1, <2>2, <2>3
<1>13. c_call'.end # "Down" /\ c_slow' = 0 =>
         \A s \in 1..Channels : c_channels'[s].inUse => s \in c_held' \/ (c_call'.op \in {"open", "close"} /\ c_call'.slot = s)
  <2> SUFFICES ASSUME c_slow = 0, NEW s \in 1..Channels, t[s].inUse PROVE s \in c_held' \/ (c_call'.op \in {"open", "close"} /\ c_call'.slot = s)
    BY <1>1
  <2>1. c_channels[s].inUse BY DEF Grown
  <2>2. CASE s \in c_held BY <1>1, <2>2
  <2>3. CASE c_call.op \in {"open", "close"} /\ c_call.slot = s BY <1>1, <1>2, <2>3
  <2> QED BY <1>4, <2>1, <2>2, <2>3
<1>14. Desired' \subseteq Desired BY <1>5, <1>6 DEF Desired
<1> QED BY <1>1, <1>6, <1>7, <1>9, <1>10, <1>11, <1>12, <1>13, <1>14 DEF ClassicCalls

LEMMA ClassicPolled ==
  ASSUME ClassicInv, NEW t, Core(t, Desired, Opening, c_toPeer', c_toUs', c_theirs, c_used, c_stale),
         Grown(t), Classic!Goes(t), Classic!Ours, c_call.op # "None"
  PROVE  ClassicInv'
<1>1. t \in [1..Channels -> Slotted] BY DEF Core, Tables
<1>2. UNCHANGED <<c_theirs, c_used, c_up, c_slow, c_stale>> BY DEF Classic!Ours
<1>3. ClassicCalls' /\ Desired' \subseteq Desired /\ Opening' \subseteq Opening /\ c_channels' = t
  BY <1>1, <1>2, ClassicGoes DEF ClassicInv
<1>4. Core(t, Desired', Opening', c_toPeer', c_toUs', c_theirs, c_used, c_stale)
  <2>1. c_stale \subseteq c_stale OBVIOUS
  <2> QED BY <1>3, <2>1, CoreFewer
<1> QED BY <1>2, <1>3, <1>4 DEF ClassicInv, ClassicCore

LEMMA GrownSame == ASSUME ClassicInv PROVE Grown(c_channels)
<1>1. Shaped(c_channels, c_theirs, c_used) BY DEF ClassicInv, ClassicCore, Core
<1>2. \A s \in 1..Channels : ~c_channels[s].inUse => ~c_channels[s].connected BY <1>1 DEF Shaped, Vacant
<1> QED BY <1>2 DEF Grown

LEMMA ClassicSent ==
  ASSUME c_toPeer \in Seq(Told2), NEW m \in Told2, Classic!Send(m)
  PROVE  c_toPeer' = c_toPeer \/ Longer(c_toPeer', c_toPeer, m)
<1>1. c_toPeer \o <<m>> = Append(c_toPeer, m)
  OBVIOUS
<1>2. c_toPeer' = c_toPeer \/ c_toPeer' = Append(c_toPeer, m) BY <1>1 DEF Classic!Send, Classic!SendAll
<1> QED BY <1>2, Parts

\* What a poll finds at the head of the inbox, in one place.
Popped(m) ==
  /\ c_call.op # "None" /\ m \in Told2
  /\ Core(c_channels, Desired, Opening, c_toPeer, c_toUs', c_theirs, c_used, c_stale)
  /\ ReadOfU(m, c_toUs', c_channels, Opening, c_toPeer, c_theirs, c_used, c_stale)

LEMMA ClassicPops ==
  ASSUME ClassicInv, NEW x, Classic!Polled(x), NEW m, m = Classic!It
  PROVE  Popped(m) /\ m.type = x
<1>1. c_call.op # "None" /\ c_toUs # <<>> /\ m = Head(c_toUs) /\ m.type = x /\ c_toUs' = Tail(c_toUs)
  BY DEF Classic!Polled, Classic!It
<1>2. Core(c_channels, Desired, Opening, c_toPeer, c_toUs, c_theirs, c_used, c_stale) BY DEF ClassicInv, ClassicCore
<1>3. First(m, c_toUs', c_toUs) BY <1>1 DEF First
<1>4. /\ Core(c_channels, Desired, Opening, c_toPeer, c_toUs', c_theirs, c_used, c_stale)
      /\ ReadOfU(m, c_toUs', c_channels, Opening, c_toPeer, c_theirs, c_used, c_stale)
  BY <1>2, <1>3, HeadOfU
<1>5. m \in Told2 BY <1>4 DEF ReadOfU
<1> QED BY <1>1, <1>2, <1>4, <1>5 DEF Popped

LEMMA ByCidIs == \A s : Classic!ByCid(s) <=> (s \in 1..Channels /\ c_channels[s].inUse)
BY DEF Classic!ByCid

\* A slot in use that the peer has accepted.
LEMMA ClassicConnects ==
  ASSUME ClassicInv, NEW m, Popped(m), m.type = "ConnRsp", m.ok, NEW s, s = m.ours, s \in 1..Channels, c_channels[s].inUse,
         NEW t, t = [c_channels EXCEPT ![s].remote = m.peers, ![s].connected = TRUE]
  PROVE  Core(t, Desired, Opening, c_toPeer, c_toUs', c_theirs, c_used, c_stale) /\ Grown(t)
<1>1. /\ m \in Told2 /\ Core(c_channels, Desired, Opening, c_toPeer, c_toUs', c_theirs, c_used, c_stale)
      /\ ReadOfU(m, c_toUs', c_channels, Opening, c_toPeer, c_theirs, c_used, c_stale)
  BY DEF Popped
<1>2. Grown(c_channels) BY GrownSame
<1>3. /\ m.peers <= c_used /\ m.peers # 0 /\ c_theirs[m.peers].ours = m.ours /\ c_theirs[m.peers].state = "Config"
      /\ \A j \in DOMAIN c_toPeer : c_toPeer[j].peers # m.peers
      /\ \A j \in DOMAIN c_toUs' : c_toUs'[j].type = "ConnRsp" /\ c_toUs'[j].ok => c_toUs'[j].peers # m.peers
      /\ m.ours \notin c_stale =>
              /\ \A j \in DOMAIN c_toUs' : c_toUs'[j].type \in {"ConnRsp", "Data"} => c_toUs'[j].ours # m.ours
              /\ \A c \in 1..Opens : c_theirs[c].ours = m.ours /\ c_theirs[c].state # "Closed" => c = m.peers
      /\ \A k \in DOMAIN c_toPeer : c_toPeer[k].type = "ConnReq" /\ c_toPeer[k].ours \notin c_stale => c_toPeer[k].ours # m.ours
  BY <1>1 DEF ReadOfU
<1>4. Tables(c_channels, Desired, c_toPeer, c_toUs', c_theirs, c_used) BY <1>1 DEF Core
<1>5. c_used \in Nat /\ c_used <= Opens /\ m.peers \in 0..Opens /\ c_channels \in [1..Channels -> Slotted]
  BY <1>1, <1>4, CoreTyped, ClassicAssumption DEF Tables, Told2
<1>6. t \in [1..Channels -> Slotted] /\ \A x \in 1..Channels \ {s} : t[x] = c_channels[x] BY <1>5 DEF Slotted
<1>7. t[s].inUse /\ t[s].remote = m.peers /\ t[s].connected /\ t[s].rsp = c_channels[s].rsp /\ t[s].req = c_channels[s].req
  BY <1>5 DEF Slotted
<1>8. m.peers \in 1..c_used BY <1>3, <1>5, ClassicAssumption
<1>9. Core(t, Desired, Opening, c_toPeer, c_toUs', c_theirs, c_used, c_stale)
  <2>1. c_theirs[m.peers].ours = s /\ c_theirs[m.peers].state # "Closed" BY <1>3
  <2>2. s \notin c_stale => /\ \A k \in DOMAIN c_toPeer : c_toPeer[k].type = "ConnReq" => c_toPeer[k].ours # s
                            /\ \A k \in DOMAIN c_toUs' : c_toUs'[k].type \in {"ConnRsp", "Data"} => c_toUs'[k].ours # s
                            /\ \A x \in 1..Opens : c_theirs[x].ours = s /\ c_theirs[x].state # "Closed" => x = m.peers
    BY <1>3
  <2>3. Connects(s, m.peers, t, c_channels, c_toPeer, c_toUs', c_theirs, c_used, c_stale)
    BY <1>3, <1>6, <1>7, <1>8, <2>1, <2>2 DEF Connects
  <2> QED BY <1>1, <2>3, CoreConnect
<1>10. Grown(t) BY <1>2, <1>6, <1>7, <1>8 DEF Grown
<1> QED BY <1>9, <1>10

LEMMA ClassicConnectionRsp ==
  ASSUME ClassicInv, Classic!OnConnectionRsp PROVE ClassicInv'
<1> PICK m : m = Classic!It OBVIOUS
<1>1. Popped(m) /\ m.type = "ConnRsp" /\ Classic!Ours BY ClassicPops DEF Classic!OnConnectionRsp
<1>2. /\ c_call.op # "None" /\ m \in Told2
      /\ Core(c_channels, Desired, Opening, c_toPeer, c_toUs', c_theirs, c_used, c_stale)
      /\ ReadOfU(m, c_toUs', c_channels, Opening, c_toPeer, c_theirs, c_used, c_stale)
  BY <1>1 DEF Popped
<1>3. Grown(c_channels) BY GrownSame
<1>4. /\ m.peers <= c_used
      /\ m.ok =>
              /\ m.peers # 0 /\ c_theirs[m.peers].ours = m.ours /\ c_theirs[m.peers].state = "Config"
              /\ \A j \in DOMAIN c_toPeer : c_toPeer[j].peers # m.peers
              /\ \A j \in DOMAIN c_toUs' : c_toUs'[j].type = "ConnRsp" /\ c_toUs'[j].ok => c_toUs'[j].peers # m.peers
      /\ m.ours \notin c_stale =>
              /\ \A j \in DOMAIN c_toUs' : c_toUs'[j].type \in {"ConnRsp", "Data"} => c_toUs'[j].ours # m.ours
              /\ \A c \in 1..Opens : c_theirs[c].ours = m.ours /\ c_theirs[c].state # "Closed" => c = m.peers
      /\ \A k \in DOMAIN c_toPeer : c_toPeer[k].type = "ConnReq" /\ c_toPeer[k].ours \notin c_stale => c_toPeer[k].ours # m.ours
  BY <1>1, <1>2 DEF ReadOfU
<1>5. Tables(c_channels, Desired, c_toPeer, c_toUs', c_theirs, c_used) /\ Shaped(c_channels, c_theirs, c_used)
      /\ Requested(c_channels, c_toPeer, c_toUs', c_theirs, c_stale)
  BY <1>2 DEF Core
<1>6. /\ c_toPeer \in Seq(Told2) /\ c_used \in Nat /\ c_used <= Opens /\ m.peers \in 0..Opens /\ m.ours \in 0..Channels
      /\ \A k \in DOMAIN c_toPeer : c_toPeer[k].type = "ConnReq" /\ c_toPeer[k].ours \notin c_stale => c_toPeer[k].ours # 0
      /\ c_channels \in [1..Channels -> Slotted] /\ 0 \in 0..Channels
  BY <1>2, <1>5, CoreTyped, ClassicAssumption DEF Tables, Told2, Requested
<1>7. CASE ~Classic!ByCid(m.ours)
  <2>1. Classic!Goes(c_channels) /\ c_toPeer' = c_toPeer BY <1>7 DEF Classic!OnConnectionRsp, Classic!Quiet
  <2> QED BY <1>1, <1>2, <1>3, <2>1, ClassicPolled
<1>8. CASE Classic!ByCid(m.ours) /\ m.ok
  <2> PICK s : s = m.ours OBVIOUS
  <2>0. s \in 1..Channels /\ c_channels[s].inUse BY <1>8, ByCidIs
  <2> PICK t : t = [c_channels EXCEPT ![s].remote = m.peers, ![s].connected = TRUE] OBVIOUS
  <2> PICK q : q = [type |-> "ConfReq", ours |-> 0, peers |-> m.peers, ok |-> TRUE] OBVIOUS
  <2>1. Classic!Goes(t) /\ Classic!Send(q) BY <1>8, <1>1 DEF Classic!OnConnectionRsp, Classic!Msg, Classic!Zero
  <2>2. q \in Told2 BY <1>6 DEF Told2, Frames2
  <2>6. Core(t, Desired, Opening, c_toPeer, c_toUs', c_theirs, c_used, c_stale) /\ Grown(t)
    BY <1>1, <1>8, <2>0, ClassicConnects
  <2>7. Say(q, t, Desired, Opening, c_toPeer, c_toUs', c_theirs, c_used, c_stale)
    <3>1. q.type = "ConfReq" /\ q.ours = 0 /\ q.peers = m.peers OBVIOUS
    <3>2. SayNumbered(q, c_toUs', c_used) BY <3>1, <1>4, <1>8 DEF SayNumbered
    <3>3. SayConfigures(q, c_toPeer, c_theirs) BY <3>1, <1>4, <1>8 DEF SayConfigures
    <3>4. SayRequested(q, t, c_toPeer, c_toUs', c_theirs, c_stale) BY <3>1, <1>6 DEF SayRequested
    <3> QED BY <3>1, <3>2, <3>3, <3>4 DEF Say, SayCloses, SayAgrees, SayTrusted, SayCarries
  <2>8. Core(t, Desired, Opening, c_toPeer', c_toUs', c_theirs, c_used, c_stale)
    <3>1. c_toPeer' = c_toPeer \/ Longer(c_toPeer', c_toPeer, q) BY <1>6, <2>1, <2>2, ClassicSent
    <3> QED BY <3>1, <2>6, <2>7, CoreSay
  <2> QED BY <1>1, <1>2, <2>1, <2>6, <2>8, ClassicPolled
<1>9. CASE Classic!ByCid(m.ours) /\ ~m.ok
  <2> PICK s : s = m.ours OBVIOUS
  <2>0. s \in 1..Channels /\ c_channels[s].inUse BY <1>9, ByCidIs
  <2> PICK t : t = [c_channels EXCEPT ![s] = Vacant] OBVIOUS
  <2>1. Classic!Goes(t) /\ c_toPeer' = c_toPeer
    BY <1>9, <1>1 DEF Classic!OnConnectionRsp, Classic!Empty, Classic!Zero, Vacant, Classic!Quiet
  <2>2. Vacant \in Slotted BY ClassicAssumption DEF Vacant, Slotted
  <2>3. t \in [1..Channels -> Slotted] /\ (\A x \in 1..Channels \ {s} : t[x] = c_channels[x]) /\ t[s] = Vacant
    BY <1>6, <2>0, <2>2
  <2>4. Core(t, Desired, Opening, c_toPeer, c_toUs', c_theirs, c_used, c_stale)
    <3>1. Frees(s, t, c_channels, c_toPeer, c_stale) BY <1>4, <2>0, <2>3 DEF Frees
    <3> QED BY <1>2, <3>1, CoreFree
  <2>5. Grown(t) BY <1>3, <2>0, <2>3 DEF Grown, Vacant
  <2> QED BY <1>1, <1>2, <2>1, <2>4, <2>5, ClassicPolled
<1> QED BY <1>7, <1>8, <1>9

\* A slot freed by what came for it, if the CID is of a slot in use.
LEMMA ClassicFreed ==
  ASSUME ClassicInv, NEW m, Popped(m), NEW t, t = Classic!Freed(m.ours)
  PROVE  /\ Core(t, Desired, Opening, c_toPeer, c_toUs', c_theirs, c_used, c_stale) /\ Grown(t)
         /\ \A x \in 1..Channels : t[x].remote # 0 => x # m.ours /\ t[x].remote = c_channels[x].remote
<1>1. /\ Core(c_channels, Desired, Opening, c_toPeer, c_toUs', c_theirs, c_used, c_stale)
      /\ ReadOfU(m, c_toUs', c_channels, Opening, c_toPeer, c_theirs, c_used, c_stale)
  BY DEF Popped
<1>2. c_channels \in [1..Channels -> Slotted] /\ Shaped(c_channels, c_theirs, c_used) BY <1>1 DEF Core, Tables
<1>3. Grown(c_channels) BY GrownSame
<1>4. CASE ~Classic!ByCid(m.ours)
  <2>1. t = c_channels BY <1>4 DEF Classic!Freed
  <2>2. \A x \in 1..Channels : ~c_channels[x].inUse => c_channels[x].remote = 0 BY <1>2 DEF Shaped, Vacant
  <2>3. \A x \in 1..Channels : x = m.ours => ~c_channels[x].inUse BY <1>4, ByCidIs
  <2> QED BY <1>1, <1>3, <2>1, <2>2, <2>3
<1>5. CASE Classic!ByCid(m.ours)
  <2> PICK s : s = m.ours OBVIOUS
  <2>0. s \in 1..Channels /\ c_channels[s].inUse BY <1>5, ByCidIs
  <2>1. t = [c_channels EXCEPT ![s] = Vacant] BY <1>5 DEF Classic!Freed, Classic!Empty, Classic!Zero, Vacant
  <2>2. Vacant \in Slotted BY ClassicAssumption DEF Vacant, Slotted
  <2>3. t \in [1..Channels -> Slotted] /\ (\A x \in 1..Channels \ {s} : t[x] = c_channels[x]) /\ t[s] = Vacant
    BY <1>2, <2>0, <2>1, <2>2
  <2>4. Core(t, Desired, Opening, c_toPeer, c_toUs', c_theirs, c_used, c_stale)
    <3>1. Frees(s, t, c_channels, c_toPeer, c_stale) BY <1>1, <2>0, <2>3 DEF Frees, ReadOfU
    <3> QED BY <1>1, <3>1, CoreFree
  <2>5. Grown(t) BY <1>3, <2>0, <2>3 DEF Grown, Vacant
  <2>6. \A x \in 1..Channels : t[x].remote # 0 => x # s /\ t[x].remote = c_channels[x].remote BY <2>3 DEF Vacant
  <2> QED BY <2>4, <2>5, <2>6
<1> QED BY <1>4, <1>5

LEMMA ClassicDisconnectionReq ==
  ASSUME ClassicInv, Classic!OnDisconnectionReq PROVE ClassicInv'
<1> PICK m : m = Classic!It OBVIOUS
<1> PICK t : t = Classic!Freed(m.ours) OBVIOUS
<1> PICK q : q = [type |-> "DiscRsp", ours |-> m.ours, peers |-> m.peers, ok |-> TRUE] OBVIOUS
<1>1. Popped(m) /\ m.type = "DiscReq" /\ Classic!Ours BY ClassicPops DEF Classic!OnDisconnectionReq
<1>2. /\ c_call.op # "None" /\ m \in Told2 /\ ReadOfU(m, c_toUs', c_channels, Opening, c_toPeer, c_theirs, c_used, c_stale)
  BY <1>1 DEF Popped
<1>3. /\ Core(t, Desired, Opening, c_toPeer, c_toUs', c_theirs, c_used, c_stale) /\ Grown(t)
      /\ \A x \in 1..Channels : t[x].remote # 0 => x # m.ours /\ t[x].remote = c_channels[x].remote
  BY <1>1, ClassicFreed
<1>4. Classic!Goes(t) /\ Classic!Send(q) BY DEF Classic!OnDisconnectionReq, Classic!Msg
<1>5. q \in Told2 BY <1>2 DEF Told2, Frames2
<1>6. /\ m.peers <= c_used /\ m.peers # 0 /\ c_theirs[m.peers].ours = m.ours /\ c_theirs[m.peers].state = "Closing"
      /\ \A j \in DOMAIN c_toUs' : c_toUs'[j].type = "DiscReq" => c_toUs'[j].peers # m.peers
      /\ \A j \in DOMAIN c_toPeer : c_toPeer[j].type = "DiscRsp" => c_toPeer[j].peers # m.peers
      /\ \A k \in DOMAIN c_toPeer : c_toPeer[k].type = "ConnReq" /\ c_toPeer[k].ours \notin c_stale => c_toPeer[k].ours # m.ours
  BY <1>1, <1>2 DEF ReadOfU
<1>7. c_toPeer \in Seq(Told2) /\ Desired \subseteq 1..Channels /\ Accepted(t, c_toPeer, c_toUs', c_theirs)
      /\ Shaped(c_channels, c_theirs, c_used)
  BY <1>1, <1>3 DEF Core, Tables, Popped
<1>8. Say(q, t, Desired, Opening, c_toPeer, c_toUs', c_theirs, c_used, c_stale)
  <2>1. q.type = "DiscRsp" /\ q.ours = m.ours /\ q.peers = m.peers OBVIOUS
  <2>2. SayNumbered(q, c_toUs', c_used) BY <2>1, <1>6, <1>7 DEF SayNumbered, Accepted
  <2>3. SayAgrees(q, c_toPeer, c_toUs', c_theirs) BY <2>1, <1>6 DEF SayAgrees
  <2>4. SayTrusted(q, t, Desired)
    <3>1. \A s \in Desired : t[s].remote # 0 => t[s].remote # m.peers BY <1>3, <1>6, <1>7 DEF Shaped
    <3> QED BY <2>1, <3>1 DEF SayTrusted
  <2>5. SayRequested(q, t, c_toPeer, c_toUs', c_theirs, c_stale) BY <2>1, <1>6 DEF SayRequested
  <2> QED BY <2>1, <2>2, <2>3, <2>4, <2>5 DEF Say, SayConfigures, SayCloses, SayCarries
<1>9. Core(t, Desired, Opening, c_toPeer', c_toUs', c_theirs, c_used, c_stale)
  <2>1. c_toPeer' = c_toPeer \/ Longer(c_toPeer', c_toPeer, q) BY <1>4, <1>5, <1>7, ClassicSent
  <2> QED BY <2>1, <1>3, <1>8, CoreSay
<1> QED BY <1>1, <1>2, <1>3, <1>4, <1>9, ClassicPolled

LEMMA ClassicDisconnectionRsp ==
  ASSUME ClassicInv, Classic!OnDisconnectionRsp PROVE ClassicInv'
<1> PICK m : m = Classic!It OBVIOUS
<1> PICK t : t = Classic!Freed(m.ours) OBVIOUS
<1>1. Popped(m) /\ Classic!Ours BY ClassicPops DEF Classic!OnDisconnectionRsp
<1>2. Core(t, Desired, Opening, c_toPeer, c_toUs', c_theirs, c_used, c_stale) /\ Grown(t) BY <1>1, ClassicFreed
<1>3. Classic!Goes(t) /\ c_toPeer' = c_toPeer BY DEF Classic!OnDisconnectionRsp, Classic!Quiet
<1>4. c_call.op # "None" BY <1>1 DEF Popped
<1> QED BY <1>1, <1>2, <1>3, <1>4, ClassicPolled

\* A flag of a slot in use is set.
LEMMA ClassicFlagged ==
  ASSUME ClassicInv, NEW m, Popped(m), NEW s, s \in 1..Channels, c_channels[s].inUse,
         NEW t, t = [c_channels EXCEPT ![s].rsp = TRUE] \/ t = [c_channels EXCEPT ![s].req = TRUE]
  PROVE  Core(t, Desired, Opening, c_toPeer, c_toUs', c_theirs, c_used, c_stale) /\ Grown(t)
<1>1. Core(c_channels, Desired, Opening, c_toPeer, c_toUs', c_theirs, c_used, c_stale) BY DEF Popped
<1>2. c_channels \in [1..Channels -> Slotted] BY <1>1 DEF Core, Tables
<1>3. Grown(c_channels) BY GrownSame
<1>4. \A x \in 1..Channels \ {s} : t[x] = c_channels[x] BY <1>2
<1>5. t[s] \in Slotted /\ t[s].inUse = c_channels[s].inUse /\ t[s].remote = c_channels[s].remote
      /\ t[s].connected = c_channels[s].connected /\ (c_channels[s].rsp => t[s].rsp) /\ (c_channels[s].req => t[s].req)
  <2>1. c_channels[s] \in Slotted BY <1>2
  <2>2. CASE t = [c_channels EXCEPT ![s].rsp = TRUE] BY <1>2, <2>1, <2>2 DEF Slotted
  <2>3. CASE t = [c_channels EXCEPT ![s].req = TRUE] BY <1>2, <2>1, <2>3 DEF Slotted
  <2> QED BY <2>2, <2>3
<1>6. t \in [1..Channels -> Slotted]
  <2>1. \A r \in Slotted : [r EXCEPT !.rsp = TRUE] \in Slotted /\ [r EXCEPT !.req = TRUE] \in Slotted BY DEF Slotted
  <2>2. c_channels[s] \in Slotted BY <1>2
  <2> QED BY <1>2, <2>1, <2>2
<1>7. Flags(t, c_channels) BY <1>4, <1>5, <1>6 DEF Flags
<1>8. Grown(t) BY <1>3, <1>4, <1>5 DEF Grown
<1> QED BY <1>1, <1>7, <1>8, CoreFlags

LEMMA ClassicConfigRsp ==
  ASSUME ClassicInv, Classic!OnConfigRsp PROVE ClassicInv'
<1> PICK m : m = Classic!It OBVIOUS
<1>1. Popped(m) /\ Classic!Ours /\ c_toPeer' = c_toPeer BY ClassicPops DEF Classic!OnConfigRsp, Classic!Quiet
<1>2. c_call.op # "None" /\ Core(c_channels, Desired, Opening, c_toPeer, c_toUs', c_theirs, c_used, c_stale) BY <1>1 DEF Popped
<1>3. CASE m.ok /\ Classic!ByCid(m.ours)
  <2> PICK s : s = m.ours OBVIOUS
  <2> PICK t : t = [c_channels EXCEPT ![s].rsp = TRUE] OBVIOUS
  <2>1. s \in 1..Channels /\ c_channels[s].inUse BY <1>3, ByCidIs
  <2>2. Core(t, Desired, Opening, c_toPeer, c_toUs', c_theirs, c_used, c_stale) /\ Grown(t) BY <1>1, <2>1, ClassicFlagged
  <2>3. Classic!Goes(t) BY <1>3 DEF Classic!OnConfigRsp
  <2> QED BY <1>1, <1>2, <2>2, <2>3, ClassicPolled
<1>4. CASE ~(m.ok /\ Classic!ByCid(m.ours))
  <2>1. Classic!Goes(c_channels) BY <1>4 DEF Classic!OnConfigRsp
  <2>2. Grown(c_channels) BY GrownSame
  <2> QED BY <1>1, <1>2, <2>1, <2>2, ClassicPolled
<1> QED BY <1>3, <1>4

LEMMA ClassicConfigReq ==
  ASSUME ClassicInv, Classic!OnConfigReq PROVE ClassicInv'
<1> PICK m : m = Classic!It OBVIOUS
<1>1. Popped(m) /\ Classic!Ours BY ClassicPops DEF Classic!OnConfigReq
<1>2. c_call.op # "None" /\ Core(c_channels, Desired, Opening, c_toPeer, c_toUs', c_theirs, c_used, c_stale) BY <1>1 DEF Popped
<1>3. CASE Classic!ByCid(m.ours)
  <2> PICK s : s = m.ours OBVIOUS
  <2> PICK t : t = [c_channels EXCEPT ![s].req = TRUE] OBVIOUS
  <2> PICK q : q = [type |-> "ConfRsp", ours |-> 0, peers |-> c_channels[s].remote, ok |-> TRUE] OBVIOUS
  <2>1. s \in 1..Channels /\ c_channels[s].inUse BY <1>3, ByCidIs
  <2>2. Core(t, Desired, Opening, c_toPeer, c_toUs', c_theirs, c_used, c_stale) /\ Grown(t) BY <1>1, <2>1, ClassicFlagged
  <2>3. Classic!Goes(t) /\ Classic!Send(q) BY <1>3 DEF Classic!OnConfigReq, Classic!Msg, Classic!Zero
  <2>4. /\ Shaped(t, c_theirs, c_used) /\ Accepted(t, c_toPeer, c_toUs', c_theirs)
        /\ Requested(t, c_toPeer, c_toUs', c_theirs, c_stale) /\ c_toPeer \in Seq(Told2)
        /\ Tables(c_channels, Desired, c_toPeer, c_toUs', c_theirs, c_used) /\ c_channels \in [1..Channels -> Slotted]
    BY <1>2, <2>2 DEF Core, Tables
  <2>5. t[s].remote = c_channels[s].remote /\ c_channels[s].remote \in 0..Opens /\ c_used \in Nat /\ t[s].inUse
    BY <2>1, <2>4, CoreTyped DEF Slotted
  <2>6. c_channels[s].remote # 0 => c_channels[s].remote <= c_used /\ c_theirs[c_channels[s].remote].ours = s
    BY <2>1, <2>4, <2>5 DEF Shaped
  <2>7. q \in Told2 BY <2>5, ClassicAssumption DEF Told2, Frames2
  <2>8. Say(q, t, Desired, Opening, c_toPeer, c_toUs', c_theirs, c_used, c_stale)
    <3>1. q.type = "ConfRsp" /\ q.ours = 0 /\ q.peers = c_channels[s].remote OBVIOUS
    <3>2. SayNumbered(q, c_toUs', c_used)
      <4>1. q.peers <= c_used BY <3>1, <2>5, <2>6
      <4>2. \A k \in DOMAIN c_toUs' : c_toUs'[k].type = "ConnRsp" /\ c_toUs'[k].ok => t[s].remote # c_toUs'[k].peers
        BY <2>1, <2>4 DEF Accepted
      <4> QED BY <3>1, <4>1, <4>2, <2>5 DEF SayNumbered
    <3>3. SayRequested(q, t, c_toPeer, c_toUs', c_theirs, c_stale) BY <3>1, <2>4 DEF SayRequested, Requested
    <3>4. SayCarries(q, t, c_theirs, c_stale) BY <3>1, <2>5, <2>6 DEF SayCarries
    <3> QED BY <3>1, <3>2, <3>3, <3>4 DEF Say, SayConfigures, SayCloses, SayAgrees, SayTrusted
  <2>9. Core(t, Desired, Opening, c_toPeer', c_toUs', c_theirs, c_used, c_stale)
    <3>1. c_toPeer' = c_toPeer \/ Longer(c_toPeer', c_toPeer, q) BY <2>3, <2>4, <2>7, ClassicSent
    <3> QED BY <3>1, <2>2, <2>8, CoreSay
  <2> QED BY <1>1, <1>2, <2>2, <2>3, <2>9, ClassicPolled
<1>4. CASE ~Classic!ByCid(m.ours)
  <2>1. Classic!Goes(c_channels) /\ c_toPeer' = c_toPeer BY <1>4 DEF Classic!OnConfigReq, Classic!Quiet
  <2>2. Grown(c_channels) BY GrownSame
  <2> QED BY <1>1, <1>2, <2>1, <2>2, ClassicPolled
<1> QED BY <1>3, <1>4

\* A call ended by a message that was not sent: the caller's channels are as they were.
LEMMA ClassicUnsent ==
  ASSUME ClassicInv, Classic!Unsent, NEW t, c_channels' = t,
         \A s \in c_held : t[s].inUse /\ t[s].connected /\ t[s].rsp /\ t[s].req,
         c_held' = c_held, c_up' = c_up, c_stale' \subseteq 1..Channels
  PROVE  ClassicCalls' /\ Opening' = {} /\ Desired' = c_held /\ c_toPeer' = c_toPeer
<1>1. /\ c_slow < Slow /\ c_slow' = c_slow + 1 /\ c_toPeer' = c_toPeer
      /\ c_call' = [op |-> "None", slot |-> 0, end |-> "Failed"]
  BY DEF Classic!Unsent, Classic!Idle, Classic!Zero
<1>2. /\ c_slow \in Nat /\ 0 \in 0..Channels /\ c_held \subseteq 1..Channels /\ c_up \in BOOLEAN
  BY ClassicAssumption DEF ClassicInv, ClassicCalls, CallTypes
<1>3. c_slow' \in 0..Slow /\ c_slow' # 0 BY <1>1, <1>2, ClassicAssumption
<1>4. CallTypes' BY <1>1, <1>2, <1>3 DEF CallTypes
<1>6. ClassicCalls' BY <1>1, <1>3, <1>4 DEF ClassicCalls
<1>7. Opening' = {} BY <1>1 DEF Opening
<1>8. Desired' = c_held BY <1>7 DEF Desired
<1> QED BY <1>1, <1>6, <1>7, <1>8

LEMMA ClassicUnanswered == ASSUME ClassicInv, Classic!Unanswered PROVE ClassicInv'
<1> PICK m : m = Classic!It OBVIOUS
<1> PICK t : t = c_channels' OBVIOUS
<1>1. Classic!Unsent /\ UNCHANGED <<c_held, c_theirs, c_used, c_up, c_stale>> BY DEF Classic!Unanswered
<1>2. Popped(m)
  BY ClassicPops DEF Classic!Unanswered
<1>3. Core(t, Desired, Opening, c_toPeer, c_toUs', c_theirs, c_used, c_stale) /\ Grown(t) /\ \A s \in c_held : t[s].inUse
  <2>0. /\ \A s \in c_held : s \in 1..Channels /\ c_channels[s].inUse
        /\ c_channels \in [1..Channels -> Slotted]
    BY DEF ClassicInv, ClassicCalls, CallTypes, ClassicCore, Core, Tables
  <2>1. CASE /\ Classic!Polled("ConnRsp") /\ m.ok /\ Classic!ByCid(m.ours)
             /\ t = [c_channels EXCEPT ![m.ours].remote = m.peers, ![m.ours].connected = TRUE]
    <3>1. m.type = "ConnRsp" BY <2>1, ClassicPops
    <3>2. m.ours \in 1..Channels /\ c_channels[m.ours].inUse BY <2>1, ByCidIs
    <3>3. Core(t, Desired, Opening, c_toPeer, c_toUs', c_theirs, c_used, c_stale) /\ Grown(t)
      BY <1>2, <2>1, <3>1, <3>2, ClassicConnects
    <3>4. \A s \in 1..Channels : t[s].inUse = c_channels[s].inUse BY <2>0, <2>1, <3>2 DEF Slotted
    <3> QED BY <2>0, <3>3, <3>4
  <2>2. CASE Classic!ByCid(m.ours) /\ t = [c_channels EXCEPT ![m.ours].req = TRUE]
    <3>1. m.ours \in 1..Channels /\ c_channels[m.ours].inUse BY <2>2, ByCidIs
    <3>2. Core(t, Desired, Opening, c_toPeer, c_toUs', c_theirs, c_used, c_stale) /\ Grown(t)
      BY <1>2, <2>2, <3>1, ClassicFlagged
    <3>3. \A s \in 1..Channels : t[s].inUse = c_channels[s].inUse BY <2>0, <2>2, <3>1 DEF Slotted
    <3> QED BY <2>0, <3>2, <3>3
  <2>3. CASE t = c_channels
    <3>1. Grown(c_channels) BY GrownSame
    <3> QED BY <1>2, <2>0, <2>3, <3>1 DEF Popped
  <2> QED BY <2>1, <2>2, <2>3 DEF Classic!Unanswered
<1>4. /\ \A s \in c_held : t[s].inUse /\ t[s].connected /\ t[s].rsp /\ t[s].req
      /\ c_stale' \subseteq 1..Channels
  BY <1>1, <1>3 DEF Grown, ClassicInv, ClassicCalls, CallTypes
<1>5. ClassicCalls' /\ Opening' = {} /\ Desired' = c_held /\ c_toPeer' = c_toPeer BY <1>1, <1>4, ClassicUnsent
<1>6. Core(t, Desired', Opening', c_toPeer, c_toUs', c_theirs, c_used, c_stale)
  <2>1. Desired' \subseteq Desired /\ Opening' \subseteq Opening /\ c_stale \subseteq c_stale BY <1>5 DEF Desired
  <2> QED BY <1>3, <2>1, CoreFewer
<1> QED BY <1>1, <1>5, <1>6 DEF ClassicInv, ClassicCore

LEMMA ClassicNoReject == ASSUME ClassicInv, Classic!OnCommandReject PROVE FALSE
<1> PICK m : m = Classic!It OBVIOUS
<1>1. Popped(m) /\ m.type = "Reject" BY ClassicPops DEF Classic!OnCommandReject
<1> QED BY <1>1 DEF Popped, ReadOfU

LEMMA ClassicData == ASSUME ClassicInv, Classic!OnData \/ Classic!OnDown PROVE ClassicInv'
<1> PICK m : m = Classic!It OBVIOUS
<1>1. /\ c_call.op # "None" /\ Popped(m)
      /\ UNCHANGED <<c_channels, c_toPeer, c_held, c_theirs, c_used, c_up, c_slow, c_stale>>
  BY ClassicPops DEF Classic!OnData, Classic!OnDown, Classic!Quiet, Popped
<1>2. Core(c_channels, Desired, Opening, c_toPeer, c_toUs', c_theirs, c_used, c_stale) BY <1>1 DEF Popped
<1>3. \/ c_call' = c_call
      \/ c_call.op = "recv" /\ c_call' = [op |-> "None", slot |-> 0, end |-> "Ok"]
      \/ c_call' = [op |-> "None", slot |-> 0, end |-> "Down"]
  BY DEF Classic!OnData, Classic!OnDown, Classic!Idle, Classic!Zero
<1>4. ClassicCalls /\ 0 \in 0..Channels BY ClassicAssumption DEF ClassicInv
<1>5. c_call.end = "Ok" /\ c_call.op # "None" BY <1>1, <1>4 DEF ClassicCalls
<1>6. ClassicCalls'
  <2>1. CASE c_call' = c_call BY <1>1, <1>4, <2>1 DEF ClassicCalls, CallTypes
  <2>2. CASE c_call.op = "recv" /\ c_call' = [op |-> "None", slot |-> 0, end |-> "Ok"]
    BY <1>1, <1>4, <1>5, <2>2 DEF ClassicCalls, CallTypes
  <2>3. CASE c_call' = [op |-> "None", slot |-> 0, end |-> "Down"]
    BY <1>1, <1>4, <2>3 DEF ClassicCalls, CallTypes
  <2> QED BY <1>3, <2>1, <2>2, <2>3
<1>7. Opening' \subseteq Opening /\ Desired' \subseteq Desired
  <2>1. Opening' \subseteq Opening BY <1>3 DEF Opening
  <2> QED BY <1>1, <2>1 DEF Desired
<1>8. Core(c_channels, Desired', Opening', c_toPeer, c_toUs', c_theirs, c_used, c_stale)
  <2>1. c_stale \subseteq c_stale OBVIOUS
  <2> QED BY <1>2, <1>7, <2>1, CoreFewer
<1> QED BY <1>1, <1>6, <1>8 DEF ClassicInv, ClassicCore

\* The slot an open takes.
LEMMA ClassicTakes ==
  ASSUME ClassicInv, Classic!Free # {}, NEW s, s = Classic!Pick(Classic!Free), Classic!Takes(s), c_call.op = "None"
  PROVE  /\ s \in 1..Channels /\ ~c_channels[s].inUse
         /\ c_channels' \in [1..Channels -> Slotted] /\ \A x \in 1..Channels \ {s} : c_channels'[x] = c_channels[x]
         /\ c_channels'[s].inUse /\ c_channels'[s].remote = 0 /\ ~c_channels'[s].connected
         /\ Opening = {} /\ Desired = c_held
         /\ Core(c_channels', c_held \cup {s}, {s}, c_toPeer, c_toUs, c_theirs, c_used, c_stale')
         /\ c_stale \subseteq c_stale' /\ c_stale' \subseteq 1..Channels
         /\ s \notin c_stale' => /\ \A k \in DOMAIN c_toPeer : c_toPeer[k].ours # s
                                 /\ \A k \in DOMAIN c_toUs : c_toUs[k].ours # s
                                 /\ \A x \in 1..Opens : c_theirs[x].ours = s => c_theirs[x].state = "Closed"
<1> DEFINE F == {x \in 1..Channels : ~c_channels[x].inUse}
<1>1. Classic!Free = F BY DEF Classic!Free
<1>2. Classic!Pick(F) \in F
  <2> HIDE DEF F
  <2>1. F \subseteq Nat BY ClassicAssumption DEF F
  <2>2. \E x \in F : \A y \in F : x <= y BY <1>1, <2>1, Smallest
  <2> QED BY <2>2 DEF Classic!Pick
<1> HIDE DEF F
<1> PICK t : t = [c_channels EXCEPT ![s] = [Vacant EXCEPT !.inUse = TRUE]] OBVIOUS
<1>3. s \in 1..Channels /\ ~c_channels[s].inUse BY <1>1, <1>2 DEF F
<1>4. c_channels' = t /\ c_stale' = IF Classic!Pending(s) THEN c_stale \cup {s} ELSE c_stale
  BY DEF Classic!Takes, Classic!Empty, Classic!Zero, Vacant
<1>5. Opening = {} /\ Desired = c_held BY DEF Opening, Desired
<1>6. Core(c_channels, Desired, Opening, c_toPeer, c_toUs, c_theirs, c_used, c_stale) /\ ClassicCalls
  BY DEF ClassicInv, ClassicCore
<1>7. c_channels \in [1..Channels -> Slotted] /\ s \in 0..Channels /\ 0 \in 0..Opens
  BY <1>3, <1>6, ClassicAssumption DEF Core, Tables
<1>8. /\ [Vacant EXCEPT !.inUse = TRUE] \in Slotted /\ [Vacant EXCEPT !.inUse = TRUE].inUse
      /\ [Vacant EXCEPT !.inUse = TRUE].remote = 0 /\ ~[Vacant EXCEPT !.inUse = TRUE].connected
  <2>1. Vacant \in Slotted /\ Vacant.remote = 0 /\ ~Vacant.connected BY <1>7 DEF Vacant, Slotted
  <2>2. \A r \in Slotted : /\ [r EXCEPT !.inUse = TRUE] \in Slotted /\ [r EXCEPT !.inUse = TRUE].inUse
                           /\ [r EXCEPT !.inUse = TRUE].remote = r.remote
                           /\ [r EXCEPT !.inUse = TRUE].connected = r.connected
    BY DEF Slotted
  <2> QED BY <2>1, <2>2
<1>9. /\ t \in [1..Channels -> Slotted] /\ \A x \in 1..Channels \ {s} : t[x] = c_channels[x]
      /\ t[s] = [Vacant EXCEPT !.inUse = TRUE]
  BY <1>3, <1>7, <1>8
<1>10. t[s].inUse /\ t[s].remote = 0 /\ ~t[s].connected BY <1>8, <1>9
<1>11. s \notin c_stale' => /\ \A k \in DOMAIN c_toPeer : c_toPeer[k].ours # s
                            /\ \A k \in DOMAIN c_toUs : c_toUs[k].ours # s
                            /\ \A x \in 1..Opens : c_theirs[x].ours = s => c_theirs[x].state = "Closed"
  BY <1>4 DEF Classic!Pending
<1>12. c_stale \subseteq c_stale' /\ c_stale' \subseteq 1..Channels BY <1>3, <1>4, <1>6 DEF ClassicCalls, CallTypes
<1>13. Core(t, c_held \cup {s}, {s}, c_toPeer, c_toUs, c_theirs, c_used, c_stale')
  <2>1. Reopens(s, c_stale', t, c_channels, c_toPeer, c_toUs, c_theirs, c_stale) BY <1>3, <1>9, <1>10, <1>11, <1>12 DEF Reopens
  <2>2. Core(t, Desired \cup {s}, {s}, c_toPeer, c_toUs, c_theirs, c_used, c_stale') BY <1>6, <2>1, CoreOpen
  <2> QED BY <1>5, <2>2
<1> QED BY <1>3, <1>4, <1>5, <1>9, <1>10, <1>11, <1>12, <1>13

LEMMA ClassicOpen == ASSUME ClassicInv, Classic!Open PROVE ClassicInv'
<1> PICK s : s = Classic!Pick(Classic!Free) OBVIOUS
<1> PICK t : t = c_channels' OBVIOUS
<1> PICK q : q = [type |-> "ConnReq", ours |-> s, peers |-> 0, ok |-> TRUE] OBVIOUS
<1>1. /\ Classic!Free # {} /\ Classic!Takes(s) /\ c_call.op = "None" /\ c_call.end # "Down"
      /\ c_call' = [op |-> "open", slot |-> s, end |-> "Ok"] /\ Classic!Send(q) /\ c_slow' = c_slow
  BY DEF Classic!Open, Classic!Calls, Classic!Zero, Classic!Msg
<1>2. UNCHANGED <<c_toUs, c_theirs, c_used, c_up, c_held>> BY <1>1 DEF Classic!Takes
<1>3. /\ s \in 1..Channels /\ ~c_channels[s].inUse
      /\ t \in [1..Channels -> Slotted] /\ \A x \in 1..Channels \ {s} : t[x] = c_channels[x]
      /\ t[s].inUse /\ t[s].remote = 0 /\ ~t[s].connected
      /\ Opening = {} /\ Desired = c_held
      /\ Core(t, c_held \cup {s}, {s}, c_toPeer, c_toUs, c_theirs, c_used, c_stale')
      /\ c_stale \subseteq c_stale' /\ c_stale' \subseteq 1..Channels
      /\ s \notin c_stale' => /\ \A k \in DOMAIN c_toPeer : c_toPeer[k].ours # s
                              /\ \A k \in DOMAIN c_toUs : c_toUs[k].ours # s
                              /\ \A x \in 1..Opens : c_theirs[x].ours = s => c_theirs[x].state = "Closed"
  BY <1>1, ClassicTakes
<1>4. Opening' = {s} /\ Desired' = c_held \cup {s} BY <1>1, <1>2 DEF Opening, Desired
<1>5. Core(c_channels, Desired, Opening, c_toPeer, c_toUs, c_theirs, c_used, c_stale) /\ ClassicCalls
  BY DEF ClassicInv, ClassicCore
<1>6. c_toPeer \in Seq(Told2) /\ c_used \in Nat /\ s \in 0..Channels /\ 0 \in 0..Opens
  BY <1>3, <1>5, ClassicAssumption DEF Core, Tables
<1>7. Core(t, Desired', Opening', c_toPeer, c_toUs, c_theirs, c_used, c_stale') BY <1>3, <1>4
<1>8. Say(q, t, Desired', Opening', c_toPeer, c_toUs, c_theirs, c_used, c_stale')
  <2>1. q.type = "ConnReq" /\ q.ours = s /\ q.peers = 0 /\ s # 0 BY <1>3
  <2>2. SayNumbered(q, c_toUs, c_used)
    <3>1. Accepted(t, c_toPeer, c_toUs, c_theirs) BY <1>7 DEF Core
    <3> QED BY <2>1, <3>1, <1>6 DEF SayNumbered, Accepted
  <2>3. SayRequested(q, t, c_toPeer, c_toUs, c_theirs, c_stale')
    <3>1. /\ t[s].remote = 0 /\ t[s].inUse
          /\ s \notin c_stale' => /\ \A k \in DOMAIN c_toPeer : c_toPeer[k].ours # s
                                  /\ \A k \in DOMAIN c_toUs : c_toUs[k].ours # s
                                  /\ \A x \in 1..Opens : c_theirs[x].ours = s => c_theirs[x].state = "Closed"
      BY <1>3
    <3> QED BY <2>1, <3>1 DEF SayRequested
  <2> QED BY <2>1, <2>2, <2>3 DEF Say, SayConfigures, SayCloses, SayAgrees, SayTrusted, SayCarries
<1>9. Core(t, Desired', Opening', c_toPeer', c_toUs, c_theirs, c_used, c_stale')
  <2>1. q \in Told2 BY <1>6 DEF Told2, Frames2
  <2>2. c_toPeer' = c_toPeer \/ Longer(c_toPeer', c_toPeer, q) BY <1>1, <1>6, <2>1, ClassicSent
  <2> QED BY <1>7, <1>8, <2>2, CoreSay
<1>10. ClassicCalls'
  <2>1. CallTypes' BY <1>1, <1>2, <1>3, <1>5, <1>6 DEF ClassicCalls, CallTypes
  <2>2. s \notin c_held /\ \A x \in c_held : x \in 1..Channels /\ t[x] = c_channels[x]
    BY <1>3, <1>5 DEF ClassicCalls, CallTypes
  <2> QED BY <1>1, <1>2, <1>3, <1>5, <2>1, <2>2 DEF ClassicCalls
<1> QED BY <1>2, <1>9, <1>10 DEF ClassicInv, ClassicCore

LEMMA ClassicOpenUnsent == ASSUME ClassicInv, Classic!OpenUnsent PROVE ClassicInv'
<1> PICK s : s = Classic!Pick(Classic!Free) OBVIOUS
<1> PICK t : t = c_channels' OBVIOUS
<1>1. Classic!Free # {} /\ Classic!Takes(s) /\ c_call.op = "None" /\ Classic!Unsent
  BY DEF Classic!OpenUnsent, Classic!Calls
<1>2. UNCHANGED <<c_toUs, c_theirs, c_used, c_up, c_held>> BY <1>1 DEF Classic!Takes
<1>3. /\ s \in 1..Channels /\ ~c_channels[s].inUse
      /\ t \in [1..Channels -> Slotted] /\ \A x \in 1..Channels \ {s} : t[x] = c_channels[x]
      /\ Core(t, c_held \cup {s}, {s}, c_toPeer, c_toUs, c_theirs, c_used, c_stale') /\ c_stale' \subseteq 1..Channels
  BY <1>1, ClassicTakes
<1>4. \A x \in c_held : t[x].inUse /\ t[x].connected /\ t[x].rsp /\ t[x].req
  BY <1>3 DEF ClassicInv, ClassicCalls, CallTypes
<1>5. ClassicCalls' /\ Opening' = {} /\ Desired' = c_held /\ c_toPeer' = c_toPeer BY <1>1, <1>2, <1>3, <1>4, ClassicUnsent
<1>6. Core(t, Desired', Opening', c_toPeer, c_toUs, c_theirs, c_used, c_stale')
  <2>1. Desired' \subseteq c_held \cup {s} /\ Opening' \subseteq {s} /\ c_stale' \subseteq c_stale' BY <1>5
  <2> QED BY <1>3, <2>1, CoreFewer
<1> QED BY <1>2, <1>5, <1>6 DEF ClassicInv, ClassicCore

LEMMA ClassicRecv == ASSUME ClassicInv, Classic!Recv PROVE ClassicInv'
<1>1. /\ c_call.op = "None" /\ c_call.end # "Down" /\ c_call' = [op |-> "recv", slot |-> 0, end |-> "Ok"]
      /\ UNCHANGED <<c_channels, c_toPeer, c_toUs, c_theirs, c_used, c_up, c_held, c_slow, c_stale>>
  BY DEF Classic!Recv, Classic!Calls, Classic!Zero
<1>2. Opening' = Opening /\ Desired' = Desired BY <1>1 DEF Opening, Desired
<1>3. 0 \in 0..Channels BY ClassicAssumption
<1>4. ClassicCalls' BY <1>1, <1>3 DEF ClassicInv, ClassicCalls, CallTypes
<1> QED BY <1>1, <1>2, <1>4 DEF ClassicInv, ClassicCore

LEMMA ClassicClose == ASSUME ClassicInv, Classic!Close PROVE ClassicInv'
<1>1. PICK s \in c_held : /\ c_channels[s].inUse /\ c_call' = [op |-> "close", slot |-> s, end |-> "Ok"]
                          /\ Classic!Send(Classic!Msg("DiscReq", s, c_channels[s].remote, TRUE)) /\ c_held' = c_held \ {s}
  BY DEF Classic!Close
<1> PICK q : q = [type |-> "DiscReq", ours |-> s, peers |-> c_channels[s].remote, ok |-> TRUE] OBVIOUS
<1>2. /\ Classic!Send(q) /\ c_call.op = "None" /\ c_call.end # "Down"
      /\ UNCHANGED <<c_channels, c_toUs, c_theirs, c_used, c_up, c_slow, c_stale>>
  BY <1>1 DEF Classic!Close, Classic!Calls, Classic!Msg
<1>3. Core(c_channels, Desired, Opening, c_toPeer, c_toUs, c_theirs, c_used, c_stale) /\ ClassicCalls
  BY DEF ClassicInv, ClassicCore
<1>4. Opening = {} /\ Desired = c_held /\ Opening' = {} /\ Desired' = c_held \ {s} BY <1>1, <1>2 DEF Opening, Desired
<1>5. /\ c_channels \in [1..Channels -> Slotted] /\ c_toPeer \in Seq(Told2) /\ c_used \in Nat
      /\ Shaped(c_channels, c_theirs, c_used) /\ Trusted(c_channels, Desired, c_toPeer, c_theirs)
      /\ Accepted(c_channels, c_toPeer, c_toUs, c_theirs) /\ Requested(c_channels, c_toPeer, c_toUs, c_theirs, c_stale)
  BY <1>3, ClassicAssumption DEF Core, Tables
<1>6. s \in 1..Channels /\ c_channels[s].connected /\ c_held \subseteq 1..Channels BY <1>3 DEF ClassicCalls, CallTypes
<1>7. c_channels[s].remote # 0 /\ c_channels[s].remote <= c_used /\ c_theirs[c_channels[s].remote].ours = s
      /\ c_channels[s].remote \in 0..Opens
  BY <1>5, <1>6 DEF Shaped, Slotted
<1>8. Core(c_channels, Desired', Opening', c_toPeer, c_toUs, c_theirs, c_used, c_stale)
  <2>1. Desired' \subseteq Desired /\ Opening' \subseteq Opening /\ c_stale \subseteq c_stale BY <1>4
  <2> QED BY <1>3, <2>1, CoreFewer
<1>9. Say(q, c_channels, Desired', Opening', c_toPeer, c_toUs, c_theirs, c_used, c_stale)
  <2>1. q.type = "DiscReq" /\ q.ours = s /\ q.peers = c_channels[s].remote OBVIOUS
  <2>2. SayNumbered(q, c_toUs, c_used) BY <2>1, <1>5, <1>6, <1>7 DEF SayNumbered, Accepted
  <2>3. SayCloses(q, Opening', c_toPeer, c_theirs, c_stale) BY <2>1, <1>4, <1>5, <1>7 DEF SayCloses, Trusted
  <2>4. SayTrusted(q, c_channels, Desired')
    <3>1. \A x \in Desired' : c_channels[x].remote # 0 => c_channels[x].remote # c_channels[s].remote
      BY <1>4, <1>5, <1>6, <1>7 DEF Shaped
    <3> QED BY <2>1, <3>1 DEF SayTrusted
  <2>5. SayRequested(q, c_channels, c_toPeer, c_toUs, c_theirs, c_stale) BY <2>1, <1>5, <1>7 DEF SayRequested, Requested
  <2> QED BY <2>1, <2>2, <2>3, <2>4, <2>5 DEF Say, SayConfigures, SayAgrees, SayCarries
<1>10. Core(c_channels, Desired', Opening', c_toPeer', c_toUs, c_theirs, c_used, c_stale)
  <2>1. q \in Told2 BY <1>6, <1>7, ClassicAssumption DEF Told2, Frames2
  <2>2. c_toPeer' = c_toPeer \/ Longer(c_toPeer', c_toPeer, q) BY <1>2, <1>5, <2>1, ClassicSent
  <2> QED BY <1>8, <1>9, <2>2, CoreSay
<1>11. ClassicCalls'
  <2>1. CallTypes'
    <3>1. s \in 0..Channels BY <1>6, ClassicAssumption
    <3> QED BY <1>1, <1>2, <1>3, <3>1 DEF ClassicCalls, CallTypes
  <2> QED BY <1>1, <1>2, <1>3, <1>6, <1>7, <2>1 DEF ClassicCalls
<1> QED BY <1>2, <1>10, <1>11 DEF ClassicInv, ClassicCore

LEMMA ClassicCloseUnsent == ASSUME ClassicInv, Classic!CloseUnsent PROVE ClassicInv'
<1>1. /\ Classic!Unsent /\ c_call.op = "None"
      /\ UNCHANGED <<c_channels, c_toUs, c_theirs, c_used, c_up, c_held, c_stale>>
  BY DEF Classic!CloseUnsent, Classic!Calls
<1>2. Opening = {} /\ Desired = c_held BY <1>1 DEF Opening, Desired
<1>3. /\ \A s \in c_held : c_channels[s].inUse /\ c_channels[s].connected /\ c_channels[s].rsp /\ c_channels[s].req
      /\ c_stale \subseteq 1..Channels
  BY DEF ClassicInv, ClassicCalls, CallTypes
<1>4. ClassicCalls' /\ Opening' = {} /\ Desired' = c_held /\ c_toPeer' = c_toPeer BY <1>1, <1>3, ClassicUnsent
<1> QED BY <1>1, <1>2, <1>4 DEF ClassicInv, ClassicCore

LEMMA ClassicTimesOut == ASSUME ClassicInv, Classic!TimesOut PROVE ClassicInv'
<1> PICK s : s = c_call.slot OBVIOUS
<1>1. /\ c_call.op # "None" /\ c_slow' = (IF c_call.op = "recv" THEN c_slow ELSE c_slow + 1)
      /\ (c_call.op = "recv" \/ c_slow < Slow)
      /\ c_channels' = IF c_call.op = "close" THEN [c_channels EXCEPT ![s] = Vacant] ELSE c_channels
      /\ c_call' = [op |-> "None", slot |-> 0, end |-> "Timeout"]
      /\ UNCHANGED <<c_toPeer, c_toUs, c_theirs, c_used, c_up, c_held, c_stale>>
  BY DEF Classic!TimesOut, Classic!Idle, Classic!Zero, Classic!Empty, Vacant
<1>2. Core(c_channels, Desired, Opening, c_toPeer, c_toUs, c_theirs, c_used, c_stale) /\ ClassicCalls
  BY DEF ClassicInv, ClassicCore
<1>3. Desired' \subseteq Desired /\ Opening' \subseteq Opening /\ c_stale \subseteq c_stale BY <1>1 DEF Opening, Desired
<1>4. /\ c_channels \in [1..Channels -> Slotted] /\ Requested(c_channels, c_toPeer, c_toUs, c_theirs, c_stale)
      /\ c_slow \in Nat /\ c_slow <= Slow /\ 0 \in 0..Channels /\ 0 \in 0..Opens /\ c_held \subseteq 1..Channels
  BY <1>2, ClassicAssumption DEF Core, Tables, ClassicCalls, CallTypes
<1>5. c_slow' \in 0..Slow
  <2>1. c_slow' \in Nat /\ c_slow' <= Slow BY <1>1, <1>4, ClassicAssumption
  <2> QED BY <2>1, ClassicAssumption
<1>6. c_call.op = "close" => s \in 1..Channels /\ c_channels[s].remote # 0 /\ s \notin c_held
  BY <1>2 DEF ClassicCalls
<1>7. Vacant \in Slotted BY <1>4 DEF Vacant, Slotted
<1>8. Core(c_channels', Desired, Opening, c_toPeer, c_toUs, c_theirs, c_used, c_stale)
  <2>1. CASE c_call.op = "close"
    <3> PICK t : t = c_channels' OBVIOUS
    <3>1. t \in [1..Channels -> Slotted] /\ (\A x \in 1..Channels \ {s} : t[x] = c_channels[x]) /\ t[s] = Vacant
      BY <1>1, <1>4, <1>6, <1>7, <2>1
    <3>2. s \notin c_stale => \A k \in DOMAIN c_toPeer : c_toPeer[k].type = "ConnReq" => c_toPeer[k].ours # s
      BY <1>4, <1>6, <2>1 DEF Requested
    <3>3. Frees(s, t, c_channels, c_toPeer, c_stale) BY <1>6, <2>1, <3>1, <3>2 DEF Frees
    <3> QED BY <1>2, <3>3, CoreFree
  <2>2. CASE c_call.op # "close" BY <1>1, <1>2, <2>2
  <2> QED BY <2>1, <2>2
<1>9. Core(c_channels', Desired', Opening', c_toPeer, c_toUs, c_theirs, c_used, c_stale) BY <1>3, <1>8, CoreFewer
<1>10. ClassicCalls'
  <2>1. CallTypes' BY <1>1, <1>2, <1>4, <1>5 DEF ClassicCalls, CallTypes
  <2>2. \A x \in c_held : c_channels'[x] = c_channels[x] BY <1>1, <1>4, <1>6
  <2>3. c_slow' = 0 => c_slow = 0 /\ c_call.op = "recv" /\ c_channels' = c_channels BY <1>1, <1>4
  <2>4. c_slow' = 0 => \A x \in 1..Channels : c_channels'[x].inUse => x \in c_held'
    BY <1>1, <1>2, <2>3 DEF ClassicCalls
  <2> QED BY <1>1, <1>2, <2>1, <2>2, <2>4 DEF ClassicCalls
<1> QED BY <1>1, <1>9, <1>10 DEF ClassicInv, ClassicCore

\* A step of the peer's leaves the calls as they are.
Ours2 == /\ UNCHANGED <<c_channels, c_call, c_held, c_slow, c_stale>> /\ c_up' \in BOOLEAN
Became(P, U, th, given) == Core(c_channels, Desired, Opening, P, U, th, given, c_stale)
LEMMA ClassicKept ==
  ASSUME ClassicInv, Ours2, Became(c_toPeer', c_toUs', c_theirs', c_used') PROVE ClassicInv'
<1>1. UNCHANGED <<c_channels, c_call, c_held, c_slow, c_stale>> /\ c_up' \in BOOLEAN BY DEF Ours2
<1>2. Opening' = Opening /\ Desired' = Desired BY <1>1 DEF Opening, Desired
<1>3. ClassicCalls' BY <1>1 DEF ClassicInv, ClassicCalls, CallTypes
<1> QED BY <1>1, <1>2, <1>3 DEF ClassicInv, ClassicCore, Became

LEMMA ClassicPeers == ASSUME ClassicInv, Classic!Peers PROVE Ours2
BY DEF Classic!Peers, Ours2, ClassicInv, ClassicCalls, CallTypes

\* What the peer says, after what it read.
Telling(m, P, U, th, given) == Tell(m, c_channels, Opening, P, U, th, given, Desired, c_stale)
LEMMA ClassicTold ==
  ASSUME NEW P, NEW U, NEW th, NEW given, NEW m \in Told2, Became(P, U, th, given), Telling(m, P, U, th, given),
         NEW V, V = Append(U, m)
  PROVE  Became(P, V, th, given)
<1>1. Core(c_channels, Desired, Opening, P, U, th, given, c_stale) BY DEF Became
<1>2. Tell(m, c_channels, Opening, P, U, th, given, Desired, c_stale) BY DEF Telling
<1>3. U \in Seq(Told2) BY <1>1 DEF Core, Tables
<1>4. Longer(V, U, m) BY <1>3, Parts
<1>5. Core(c_channels, Desired, Opening, P, V, th, given, c_stale) BY <1>1, <1>2, <1>4, CoreTell
<1> QED BY <1>5 DEF Became

\* What the peer finds at the head of its inbox, in one place.
Took(m) ==
  /\ m \in Told2 /\ Became(c_toPeer', c_toUs, c_theirs, c_used)
  /\ ReadOfP(m, c_toPeer', c_channels, Desired, Opening, c_toUs, c_theirs, c_used, c_stale)
LEMMA ClassicReads ==
  ASSUME ClassicInv, NEW x, Classic!Reads(x), NEW m, m = Classic!Asked
  PROVE  Took(m) /\ m.type = x
<1>1. c_toPeer # <<>> /\ m = Head(c_toPeer) /\ m.type = x /\ c_toPeer' = Tail(c_toPeer)
  BY DEF Classic!Reads, Classic!Asked
<1>2. Core(c_channels, Desired, Opening, c_toPeer, c_toUs, c_theirs, c_used, c_stale) BY DEF ClassicInv, ClassicCore
<1>3. First(m, c_toPeer', c_toPeer) BY <1>1 DEF First
<1>4. /\ Core(c_channels, Desired, Opening, c_toPeer', c_toUs, c_theirs, c_used, c_stale)
      /\ ReadOfP(m, c_toPeer', c_channels, Desired, Opening, c_toUs, c_theirs, c_used, c_stale)
  BY <1>2, <1>3, HeadOfP
<1>5. m \in Told2 BY <1>4 DEF ReadOfP
<1> QED BY <1>1, <1>4, <1>5 DEF Took, Became

\* The parts of it the peer's steps look at, an element at a time.
LEMMA ClassicKnown ==
  ASSUME NEW P, NEW U, NEW th, NEW given, Became(P, U, th, given)
  PROVE  /\ given \in Nat /\ given <= Opens /\ th \in [1..Opens -> Theirs]
         /\ \A c \in 1..Opens : /\ th[c] \in Theirs /\ th[c].ours \in 0..Channels /\ c \in 0..Opens
                                /\ th[c].state # "Closed" => c <= given
         /\ \A c \in 0..Opens : c # 0 => c \in 1..Opens
         /\ \A k \in DOMAIN P : P[k].peers <= given /\ P[k].peers \in 0..Opens
         /\ \A k \in DOMAIN U : U[k].peers <= given /\ U[k].peers \in 0..Opens
         /\ \A s \in 1..Channels : c_channels[s].remote \in Nat /\ c_channels[s].remote <= given
         /\ Accepted(c_channels, P, U, th) /\ Configures(P, th) /\ Agrees(P, th) /\ Leaves(P, U, th)
         /\ Requested(c_channels, P, U, th, c_stale) /\ Answered(c_channels, U, th, c_stale)
         /\ Carries(c_channels, P, U, th, c_stale)
<1>1. Core(c_channels, Desired, Opening, P, U, th, given, c_stale) BY DEF Became
<1>2. Tables(c_channels, Desired, P, U, th, given) /\ Shaped(c_channels, th, given) /\ NumberedBy(P, U, th, given)
  BY <1>1 DEF Core
<1>3. /\ given \in Nat /\ given <= Opens /\ \A c \in 0..Opens : c # 0 => c \in 1..Opens
      /\ \A c \in 1..Opens : th[c] \in Theirs /\ th[c].ours \in 0..Channels
      /\ \A k \in DOMAIN P : P[k].peers \in 0..Opens
      /\ \A k \in DOMAIN U : U[k].peers \in 0..Opens
      /\ \A s \in 1..Channels : c_channels[s].remote \in 0..Opens
  BY <1>2, CoreTyped
<1>4. th \in [1..Opens -> Theirs] BY <1>2 DEF Tables
<1>5. \A c \in 1..Opens : c \in 0..Opens /\ (th[c].state # "Closed" => c <= given)
  BY <1>2, <1>3, ClassicAssumption DEF NumberedBy
<1>6. \A s \in 1..Channels : c_channels[s].remote \in Nat /\ c_channels[s].remote <= given BY <1>2, <1>3 DEF Shaped
<1>7. (\A k \in DOMAIN P : P[k].peers <= given) /\ \A k \in DOMAIN U : U[k].peers <= given BY <1>2 DEF NumberedBy
<1> QED BY <1>1, <1>3, <1>4, <1>5, <1>6, <1>7 DEF Core

LEMMA ClassicAccepts == ASSUME ClassicInv, Classic!PeerAccepts PROVE ClassicInv'
<1> PICK m : m = Classic!Asked OBVIOUS
<1> PICK s, g : s = m.ours /\ g = c_used + 1 OBVIOUS
<1> PICK n : n = [type |-> "ConnRsp", ours |-> s, peers |-> g, ok |-> TRUE] OBVIOUS
<1>1. Took(m) /\ m.type = "ConnReq" BY ClassicReads DEF Classic!PeerAccepts
<1>2. /\ c_used < Opens /\ c_used' = g /\ c_toUs' = Append(c_toUs, n)
      /\ c_theirs' = [c_theirs EXCEPT ![g] = [ours |-> s, state |-> "Config", asked |-> FALSE]]
      /\ \A x \in 1..Opens : c_theirs[x].ours = s => c_theirs[x].state = "Closed"
  BY DEF Classic!PeerAccepts, Classic!Holds, Classic!Asked, Classic!Answers, Classic!Msg
<1>3. /\ Became(c_toPeer', c_toUs, c_theirs, c_used) /\ m \in Told2
      /\ \A k \in DOMAIN c_toPeer' : c_toPeer'[k].type = "ConnReq" /\ c_toPeer'[k].ours \notin c_stale => c_toPeer'[k].ours # s
      /\ s \notin c_stale => s # 0 /\ c_channels[s].remote = 0 /\ \A j \in DOMAIN c_toUs : c_toUs[j].ours # s
  BY <1>1 DEF Took, ReadOfP
<1> PICK R, th2 : R = c_toPeer' /\ th2 = c_theirs' OBVIOUS
<1>4. /\ c_used \in Nat /\ c_used <= Opens /\ c_theirs \in [1..Opens -> Theirs] /\ s \in 0..Channels
      /\ \A k \in DOMAIN R : R[k].peers <= c_used /\ R[k].peers \in 0..Opens
      /\ \A k \in DOMAIN c_toUs : c_toUs[k].peers <= c_used /\ c_toUs[k].peers \in 0..Opens
      /\ \A x \in 1..Channels : c_channels[x].remote \in Nat /\ c_channels[x].remote <= c_used
  BY <1>3, ClassicKnown DEF Told2
<1>5. g \in 1..Opens /\ g \in 0..Opens /\ g # 0 /\ g <= g /\ g > c_used BY <1>2, <1>4, ClassicAssumption
<1>6. [ours |-> s, state |-> "Config", asked |-> FALSE] \in Theirs BY <1>4 DEF Theirs
<1>7. /\ th2 \in [1..Opens -> Theirs] /\ (\A x \in 1..Opens \ {g} : th2[x] = c_theirs[x])
      /\ th2[g].ours = s /\ th2[g].state = "Config"
  BY <1>2, <1>4, <1>5, <1>6
<1>8. Became(R, c_toUs, th2, g)
  <2>1. Core(c_channels, Desired, Opening, R, c_toUs, c_theirs, c_used, c_stale) BY <1>3 DEF Became
  <2>2. s \notin c_stale => \A k \in DOMAIN R : R[k].type = "ConnReq" => R[k].ours # s BY <1>3
  <2>3. GivesOut(s, th2, R, c_toUs, c_theirs, c_used, c_stale) BY <1>2, <1>3, <1>4, <1>7, <2>2 DEF GivesOut
  <2>4. Core(c_channels, Desired, Opening, R, c_toUs, th2, c_used + 1, c_stale) BY <2>1, <2>3, CoreGive
  <2> QED BY <2>4 DEF Became
<1>9. Telling(n, R, c_toUs, th2, g)
  <2>1. n.type = "ConnRsp" /\ n.ours = s /\ n.peers = g /\ n.ok OBVIOUS
  <2>2. TellAccepted(n, c_channels, R, c_toUs, th2)
    <3>1. /\ \A k \in DOMAIN R : R[k].peers # g
          /\ \A k \in DOMAIN c_toUs : c_toUs[k].peers # g
          /\ \A x \in 1..Channels : c_channels[x].remote # g
      BY <1>4, <1>5
    <3> QED BY <2>1, <3>1, <1>5, <1>7 DEF TellAccepted
  <2>3. TellRequested(n, R, c_stale) BY <2>1, <1>3 DEF TellRequested
  <2>4. TellAnswered(n, c_channels, c_toUs, th2, c_stale)
    <3>1. \A x \in 1..Opens : th2[x].ours = s /\ th2[x].state # "Closed" => x = g BY <1>2, <1>7
    <3> QED BY <2>1, <3>1, <1>3 DEF TellAnswered
  <2> QED BY <2>1, <2>2, <2>3, <2>4, <1>5 DEF Telling, Tell, TellLeaves, TellUndisturbed, TellCarries
<1>10. n \in Told2 BY <1>4, <1>5 DEF Told2, Frames2
<1>11. Became(R, c_toUs', th2, g) BY <1>2, <1>8, <1>9, <1>10, ClassicTold
<1>12. Ours2 BY ClassicPeers DEF Classic!PeerAccepts
<1> QED BY <1>2, <1>11, <1>12, ClassicKept

LEMMA ClassicRefuses == ASSUME ClassicInv, Classic!PeerRefuses PROVE ClassicInv'
<1> PICK m : m = Classic!Asked OBVIOUS
<1> PICK s : s = m.ours OBVIOUS
<1> PICK n : n = [type |-> "ConnRsp", ours |-> s, peers |-> 0, ok |-> FALSE] OBVIOUS
<1>1. Took(m) /\ m.type = "ConnReq" BY ClassicReads DEF Classic!PeerRefuses
<1>2. c_used' = c_used /\ c_theirs' = c_theirs /\ c_toUs' = Append(c_toUs, n)
  BY DEF Classic!PeerRefuses, Classic!Asked, Classic!Answers, Classic!Msg, Classic!Zero
<1>3. /\ Became(c_toPeer', c_toUs, c_theirs, c_used) /\ m \in Told2
      /\ \A k \in DOMAIN c_toPeer' : c_toPeer'[k].type = "ConnReq" /\ c_toPeer'[k].ours \notin c_stale => c_toPeer'[k].ours # s
      /\ s \notin c_stale => /\ s # 0 /\ c_channels[s].remote = 0 /\ \A j \in DOMAIN c_toUs : c_toUs[j].ours # s
                             /\ \A c \in 1..Opens : c_theirs[c].ours = s => c_theirs[c].state = "Closed"
  BY <1>1 DEF Took, ReadOfP
<1> PICK R : R = c_toPeer' OBVIOUS
<1>4. c_used \in Nat /\ s \in 0..Channels BY <1>3, ClassicKnown DEF Told2
<1>5. Telling(n, R, c_toUs, c_theirs, c_used)
  <2>1. n.type = "ConnRsp" /\ n.ours = s /\ n.peers = 0 /\ ~n.ok /\ 0 <= c_used BY <1>4
  <2>2. TellAccepted(n, c_channels, R, c_toUs, c_theirs) BY <2>1 DEF TellAccepted
  <2>3. TellRequested(n, R, c_stale) BY <2>1, <1>3 DEF TellRequested
  <2>4. TellAnswered(n, c_channels, c_toUs, c_theirs, c_stale) BY <2>1, <1>3 DEF TellAnswered
  <2> QED BY <2>1, <2>2, <2>3, <2>4 DEF Telling, Tell, TellLeaves, TellUndisturbed, TellCarries
<1>6. n \in Told2 BY <1>4, ClassicAssumption DEF Told2, Frames2
<1>7. Became(R, c_toUs', c_theirs, c_used) BY <1>2, <1>3, <1>5, <1>6, ClassicTold
<1>8. Ours2 BY ClassicPeers DEF Classic!PeerRefuses
<1> QED BY <1>2, <1>7, <1>8, ClassicKept

\* A word of a channel the peer holds disturbs no open.
LEMMA ClassicUnasked ==
  ASSUME NEW P, NEW U, NEW th, NEW given, Became(P, U, th, given), NEW c \in 1..Opens, th[c].state # "Closed",
         NEW m, m.ours = th[c].ours
  PROVE  TellRequested(m, P, c_stale)
<1>1. Requested(c_channels, P, U, th, c_stale) BY ClassicKnown
<1> QED BY <1>1 DEF Requested, TellRequested

LEMMA ClassicConfigures == ASSUME ClassicInv, Classic!PeerConfigures PROVE ClassicInv'
<1>1. PICK c \in 1..Opens : /\ c_theirs[c].state = "Config" /\ c_theirs' = [c_theirs EXCEPT ![c].asked = TRUE]
                            /\ c_toUs' = Append(c_toUs, Classic!Msg("ConfReq", c_theirs[c].ours, c, TRUE))
  BY DEF Classic!PeerConfigures, Classic!Answers
<1> PICK n : n = [type |-> "ConfReq", ours |-> c_theirs[c].ours, peers |-> c, ok |-> TRUE] OBVIOUS
<1>2. c_toUs' = Append(c_toUs, n) BY <1>1 DEF Classic!Msg
<1>3. c_toPeer' = c_toPeer /\ c_used' = c_used BY DEF Classic!PeerConfigures
<1>4. Became(c_toPeer, c_toUs, c_theirs, c_used) BY DEF ClassicInv, ClassicCore, Became
<1>5. /\ c_theirs \in [1..Opens -> Theirs] /\ c_theirs[c].ours \in 0..Channels /\ c \in 0..Opens /\ c <= c_used
  BY <1>1, <1>4, ClassicKnown
<1> PICK th2 : th2 = c_theirs' OBVIOUS
<1>6. AsksOnly(th2, c_theirs)
  <2>1. \A t \in Theirs : /\ [t EXCEPT !.asked = TRUE] \in Theirs /\ [t EXCEPT !.asked = TRUE].ours = t.ours
                          /\ [t EXCEPT !.asked = TRUE].state = t.state
    BY DEF Theirs
  <2>2. th2 = [c_theirs EXCEPT ![c] = [c_theirs[c] EXCEPT !.asked = TRUE]] BY <1>1
  <2>3. th2 \in [1..Opens -> Theirs] BY <1>5, <2>1, <2>2
  <2>4. ASSUME NEW x \in 1..Opens PROVE th2[x].ours = c_theirs[x].ours /\ th2[x].state = c_theirs[x].state
    <3>1. CASE x = c
      <4>1. th2[x] = [c_theirs[c] EXCEPT !.asked = TRUE] BY <1>5, <2>2, <3>1
      <4> QED BY <1>5, <2>1, <3>1, <4>1
    <3>2. CASE x # c BY <1>5, <2>2, <3>2
    <3> QED BY <3>1, <3>2
  <2> QED BY <2>3, <2>4 DEF AsksOnly
<1>7. Became(c_toPeer, c_toUs, th2, c_used) BY <1>4, <1>6, CoreAsked DEF Became
<1>8. th2[c].state # "Closed" /\ n.ours = th2[c].ours BY <1>1, <1>6 DEF AsksOnly
<1>9. TellRequested(n, c_toPeer, c_stale) BY <1>7, <1>8, ClassicUnasked
<1>10. Telling(n, c_toPeer, c_toUs, th2, c_used)
  BY <1>5, <1>9 DEF Telling, Tell, TellAccepted, TellLeaves, TellUndisturbed, TellAnswered, TellCarries
<1>11. n \in Told2 BY <1>5 DEF Told2, Frames2
<1>12. Became(c_toPeer, c_toUs', th2, c_used) BY <1>2, <1>7, <1>10, <1>11, ClassicTold
<1>13. Ours2 BY ClassicPeers DEF Classic!PeerConfigures
<1> QED BY <1>3, <1>12, <1>13, ClassicKept

LEMMA ClassicAnswersConfig == ASSUME ClassicInv, Classic!PeerAnswersConfig PROVE ClassicInv'
<1> PICK m : m = Classic!Asked OBVIOUS
<1> PICK c : c = m.peers OBVIOUS
<1> PICK n : n = [type |-> "ConfRsp", ours |-> c_theirs[c].ours, peers |-> c, ok |-> TRUE] OBVIOUS
<1>1. Took(m) /\ m.type = "ConfReq" BY ClassicReads DEF Classic!PeerAnswersConfig
<1>2. Became(c_toPeer', c_toUs, c_theirs, c_used) /\ c \in 0..Opens /\ c <= c_used /\ c # 0 /\ c_theirs[c].state = "Config"
  BY <1>1 DEF Took, ReadOfP, Told2
<1>3. c \in 1..Opens /\ c_theirs[c].ours \in 0..Channels BY <1>2, ClassicKnown
<1>4. c_used' = c_used /\ c_theirs' = c_theirs /\ c_toUs' = Append(c_toUs, n)
  BY <1>2, <1>3 DEF Classic!PeerAnswersConfig, Classic!Live, Classic!Asked, Classic!Answers, Classic!Msg
<1>5. TellRequested(n, c_toPeer', c_stale)
  <2> PICK R : R = c_toPeer' OBVIOUS
  <2>1. Became(R, c_toUs, c_theirs, c_used) /\ c_theirs[c].state # "Closed" /\ n.ours = c_theirs[c].ours BY <1>2
  <2>2. TellRequested(n, R, c_stale) BY <1>3, <2>1, ClassicUnasked
  <2> QED BY <2>2
<1>6. Telling(n, c_toPeer', c_toUs, c_theirs, c_used)
  BY <1>2, <1>5 DEF Telling, Tell, TellAccepted, TellLeaves, TellUndisturbed, TellAnswered, TellCarries
<1>7. n \in Told2 BY <1>2, <1>3 DEF Told2, Frames2
<1>8. Became(c_toPeer', c_toUs', c_theirs, c_used) BY <1>2, <1>4, <1>6, <1>7, ClassicTold
<1>9. Ours2 BY ClassicPeers DEF Classic!PeerAnswersConfig
<1> QED BY <1>4, <1>8, <1>9, ClassicKept

\* A channel's state moves on.
Moving(c, st, th2, P, U, th) == Moves(c, st, th2, c_channels, Desired, P, U, th, c_stale)
LEMMA ClassicMoved ==
  ASSUME NEW c, NEW st, NEW th2, NEW P, NEW U, NEW th, NEW given, Became(P, U, th, given), Moving(c, st, th2, P, U, th)
  PROVE  Became(P, U, th2, given)
BY CoreSet DEF Became, Moving
Sets(th2, th, c, st) ==
  /\ th \in [1..Opens -> Theirs] /\ c \in 1..Opens /\ st \in {"Open", "Closing", "Closed"}
  /\ th2 = [th EXCEPT ![c].state = st]
LEMMA StateMoved ==
  ASSUME NEW th, NEW c, NEW st, NEW th2, Sets(th2, th, c, st)
  PROVE  /\ th2 \in [1..Opens -> Theirs] /\ (\A x \in 1..Opens \ {c} : th2[x] = th[x])
         /\ th2[c].ours = th[c].ours /\ th2[c].state = st
<1> USE DEF Sets
<1>1. \A t \in Theirs : /\ [t EXCEPT !.state = st] \in Theirs /\ [t EXCEPT !.state = st].ours = t.ours
                        /\ [t EXCEPT !.state = st].state = st
  BY DEF Theirs
<1>2. th2 = [th EXCEPT ![c] = [th[c] EXCEPT !.state = st]] OBVIOUS
<1>3. th[c] \in Theirs OBVIOUS
<1>4. th2 \in [1..Opens -> Theirs] /\ (\A x \in 1..Opens \ {c} : th2[x] = th[x]) /\ th2[c] = [th[c] EXCEPT !.state = st]
  BY <1>1, <1>2, <1>3
<1> QED BY <1>1, <1>3, <1>4

LEMMA ClassicConfigured == ASSUME ClassicInv, Classic!PeerConfigured PROVE ClassicInv'
<1> PICK m : m = Classic!Asked OBVIOUS
<1> PICK c : c = m.peers OBVIOUS
<1>1. Took(m) /\ m.type = "ConfRsp" BY ClassicReads DEF Classic!PeerConfigured
<1> PICK R, th2 : R = c_toPeer' /\ th2 = c_theirs' OBVIOUS
<1>2. /\ Became(R, c_toUs, c_theirs, c_used) /\ c \in 0..Opens
      /\ \A k \in DOMAIN c_toUs : c_toUs[k].type = "ConnRsp" /\ c_toUs[k].ok => c_toUs[k].peers # c
      /\ \A k \in DOMAIN R : R[k].type = "ConfReq" => R[k].peers # c
      /\ c # 0 => (c_theirs[c].ours # 0 /\ c_theirs[c].ours \notin c_stale /\ c_channels[c_theirs[c].ours].inUse
                     /\ c_theirs[c].state \in {"Config", "Open"} => c_channels[c_theirs[c].ours].remote = c)
  BY <1>1 DEF Took, ReadOfP, Told2
<1>3. c_used' = c_used /\ c_toUs' = c_toUs /\ Ours2 BY ClassicPeers DEF Classic!PeerConfigured
<1>4. Became(R, c_toUs, th2, c_used)
  <2>1. CASE Classic!Live(c)
    <3>1. c \in 1..Opens /\ c_theirs[c].state \in {"Config", "Open"} BY <2>1 DEF Classic!Live
    <3>2. c_theirs' = [c_theirs EXCEPT ![c].state = "Open"] BY <2>1 DEF Classic!PeerConfigured, Classic!Asked
    <3>3. /\ c_theirs \in [1..Opens -> Theirs] /\ Leaves(R, c_toUs, c_theirs) /\ Agrees(R, c_theirs)
      BY <1>2, ClassicKnown
    <3>4. /\ th2 \in [1..Opens -> Theirs] /\ (\A x \in 1..Opens \ {c} : th2[x] = c_theirs[x])
          /\ th2[c].ours = c_theirs[c].ours /\ th2[c].state = "Open"
      <4>1. Sets(th2, c_theirs, c, "Open") BY <3>1, <3>2, <3>3 DEF Sets
      <4> QED BY <4>1, StateMoved
    <3>5. /\ \A k \in DOMAIN c_toUs : c_toUs[k].type = "DiscReq" => c_toUs[k].peers # c
          /\ \A k \in DOMAIN R : R[k].type = "DiscRsp" => R[k].peers # c
      BY <3>1, <3>3 DEF Leaves, Agrees
    <3>6. Moving(c, "Open", th2, R, c_toUs, c_theirs)
      <4>1. c_theirs[c].state # "Closed" BY <3>1
      <4> QED BY <4>1, <1>2, <3>1, <3>4, <3>5 DEF Moving, Moves
    <3> QED BY <1>2, <3>6, ClassicMoved
  <2>2. CASE ~Classic!Live(c)
    <3>1. th2 = c_theirs BY <2>2 DEF Classic!PeerConfigured, Classic!Asked
    <3> QED BY <1>2, <3>1
  <2> QED BY <2>1, <2>2
<1> QED BY <1>3, <1>4, ClassicKept

LEMMA ClassicSends == ASSUME ClassicInv, Classic!PeerSends PROVE ClassicInv'
<1>1. PICK c \in 1..Opens : /\ c_theirs[c].state = "Open"
                            /\ c_toUs' = Append(c_toUs, Classic!Msg("Data", c_theirs[c].ours, c, TRUE))
  BY DEF Classic!PeerSends, Classic!Answers
<1> PICK n : n = [type |-> "Data", ours |-> c_theirs[c].ours, peers |-> c, ok |-> TRUE] OBVIOUS
<1>2. c_toUs' = Append(c_toUs, n) /\ c_toPeer' = c_toPeer /\ c_used' = c_used /\ c_theirs' = c_theirs /\ Ours2
  BY <1>1, ClassicPeers DEF Classic!Msg, Classic!PeerSends
<1>3. Became(c_toPeer, c_toUs, c_theirs, c_used) BY DEF ClassicInv, ClassicCore, Became
<1>4. /\ c_theirs[c].ours \in 0..Channels /\ c \in 0..Opens /\ c <= c_used /\ c # 0
      /\ Accepted(c_channels, c_toPeer, c_toUs, c_theirs) /\ Answered(c_channels, c_toUs, c_theirs, c_stale)
      /\ Carries(c_channels, c_toPeer, c_toUs, c_theirs, c_stale)
  BY <1>1, <1>3, ClassicKnown
<1>5. TellRequested(n, c_toPeer, c_stale)
  <2>1. c_theirs[c].state # "Closed" /\ n.ours = c_theirs[c].ours BY <1>1
  <2> QED BY <1>3, <2>1, ClassicUnasked
<1>6. TellAnswered(n, c_channels, c_toUs, c_theirs, c_stale)
  <2>1. n.type = "Data" /\ n.ours = c_theirs[c].ours OBVIOUS
  <2>2. ASSUME NEW k \in DOMAIN c_toUs, c_toUs[k].type = "ConnRsp" /\ c_toUs[k].ours \notin c_stale, c_toUs[k].ours = c_theirs[c].ours
        PROVE  FALSE
    <3>1. c = c_toUs[k].peers /\ (c_toUs[k].ok \/ c_toUs[k].peers = 0) BY <1>1, <1>4, <2>2 DEF Answered
    <3>2. c_toUs[k].ok BY <1>4, <3>1
    <3>3. c_theirs[c_toUs[k].peers].state = "Config" BY <1>4, <2>2, <3>2 DEF Accepted
    <3> QED BY <1>1, <3>1, <3>3
  <2> QED BY <2>1, <2>2 DEF TellAnswered
<1>7. TellCarries(n, c_channels, c_stale) BY <1>1, <1>4 DEF TellCarries, Carries
<1>8. Telling(n, c_toPeer, c_toUs, c_theirs, c_used)
  BY <1>4, <1>5, <1>6, <1>7 DEF Telling, Tell, TellAccepted, TellLeaves, TellUndisturbed
<1>9. n \in Told2 BY <1>4 DEF Told2, Frames2
<1>10. Became(c_toPeer, c_toUs', c_theirs, c_used) BY <1>2, <1>3, <1>8, <1>9, ClassicTold
<1> QED BY <1>2, <1>10, ClassicKept

LEMMA ClassicLeaves == ASSUME ClassicInv, Classic!PeerCloses PROVE ClassicInv'
<1>1. PICK c \in 1..Opens : /\ c_theirs[c].state = "Open" /\ c_theirs' = [c_theirs EXCEPT ![c].state = "Closing"]
                            /\ c_toUs' = Append(c_toUs, Classic!Msg("DiscReq", c_theirs[c].ours, c, TRUE))
  BY DEF Classic!PeerCloses, Classic!Answers
<1> PICK n : n = [type |-> "DiscReq", ours |-> c_theirs[c].ours, peers |-> c, ok |-> TRUE] OBVIOUS
<1> PICK th2 : th2 = c_theirs' OBVIOUS
<1>2. c_toUs' = Append(c_toUs, n) /\ c_toPeer' = c_toPeer /\ c_used' = c_used /\ Ours2
  BY <1>1, ClassicPeers DEF Classic!Msg, Classic!PeerCloses
<1>3. Became(c_toPeer, c_toUs, c_theirs, c_used) BY DEF ClassicInv, ClassicCore, Became
<1>4. /\ c_theirs \in [1..Opens -> Theirs] /\ c_theirs[c].ours \in 0..Channels /\ c \in 0..Opens /\ c <= c_used /\ c # 0
      /\ Accepted(c_channels, c_toPeer, c_toUs, c_theirs) /\ Configures(c_toPeer, c_theirs)
      /\ Agrees(c_toPeer, c_theirs) /\ Leaves(c_toPeer, c_toUs, c_theirs)
  BY <1>1, <1>3, ClassicKnown
<1>5. /\ th2 \in [1..Opens -> Theirs] /\ (\A x \in 1..Opens \ {c} : th2[x] = c_theirs[x])
      /\ th2[c].ours = c_theirs[c].ours /\ th2[c].state = "Closing"
  <2>1. Sets(th2, c_theirs, c, "Closing") BY <1>1, <1>4 DEF Sets
  <2> QED BY <2>1, StateMoved
<1>6. /\ \A k \in DOMAIN c_toUs : c_toUs[k].type = "ConnRsp" /\ c_toUs[k].ok => c_toUs[k].peers # c
      /\ \A k \in DOMAIN c_toUs : c_toUs[k].type = "DiscReq" => c_toUs[k].peers # c
      /\ \A k \in DOMAIN c_toPeer : c_toPeer[k].type = "ConfReq" => c_toPeer[k].peers # c
      /\ \A k \in DOMAIN c_toPeer : c_toPeer[k].type = "DiscRsp" => c_toPeer[k].peers # c
  BY <1>1, <1>4 DEF Accepted, Leaves, Configures, Agrees
<1>7. Moving(c, "Closing", th2, c_toPeer, c_toUs, c_theirs) BY <1>1, <1>5, <1>6 DEF Moving, Moves
<1>8. Became(c_toPeer, c_toUs, th2, c_used) BY <1>3, <1>7, ClassicMoved
<1>9. TellRequested(n, c_toPeer, c_stale)
  <2>1. th2[c].state # "Closed" /\ n.ours = th2[c].ours BY <1>5
  <2> QED BY <1>8, <2>1, ClassicUnasked
<1>10. TellLeaves(n, c_toPeer, c_toUs, th2)
  <2>1. n.ours = c_theirs[c].ours /\ n.peers = c OBVIOUS
  <2> QED BY <2>1, <1>4, <1>5, <1>6 DEF TellLeaves
<1>11. Telling(n, c_toPeer, c_toUs, th2, c_used)
  BY <1>4, <1>9, <1>10 DEF Telling, Tell, TellAccepted, TellAnswered, TellUndisturbed, TellCarries
<1>12. n \in Told2 BY <1>4 DEF Told2, Frames2
<1>13. Became(c_toPeer, c_toUs', th2, c_used) BY <1>2, <1>8, <1>11, <1>12, ClassicTold
<1> QED BY <1>2, <1>13, ClassicKept

LEMMA ClassicLeft == ASSUME ClassicInv, Classic!PeerClosed PROVE ClassicInv'
<1> PICK m : m = Classic!Asked OBVIOUS
<1> PICK c : c = m.peers OBVIOUS
<1>1. Took(m) /\ m.type = "DiscRsp" BY ClassicReads DEF Classic!PeerClosed
<1> PICK R, th2 : R = c_toPeer' /\ th2 = c_theirs' OBVIOUS
<1>2. /\ Became(R, c_toUs, c_theirs, c_used) /\ c \in 0..Opens /\ c # 0 /\ c_theirs[c].state = "Closing"
      /\ \A k \in DOMAIN c_toUs : c_toUs[k].type = "ConnRsp" /\ c_toUs[k].ok => c_toUs[k].peers # c
      /\ \A k \in DOMAIN c_toUs : c_toUs[k].type = "DiscReq" => c_toUs[k].peers # c
      /\ \A k \in DOMAIN R : R[k].type \in {"DiscReq", "DiscRsp"} => R[k].peers # c
      /\ \A s \in Desired : c_channels[s].remote # 0 => c_channels[s].remote # c
  BY <1>1 DEF Took, ReadOfP, Told2
<1>3. /\ c_used' = c_used /\ c_toUs' = c_toUs /\ Ours2 /\ th2 = [c_theirs EXCEPT ![c].state = "Closed"]
  BY ClassicPeers DEF Classic!PeerClosed, Classic!Asked
<1>4. c_theirs \in [1..Opens -> Theirs] /\ Configures(R, c_theirs) /\ c \in 1..Opens BY <1>2, ClassicKnown
<1>5. /\ th2 \in [1..Opens -> Theirs] /\ (\A x \in 1..Opens \ {c} : th2[x] = c_theirs[x])
      /\ th2[c].ours = c_theirs[c].ours /\ th2[c].state = "Closed"
  <2>1. Sets(th2, c_theirs, c, "Closed") BY <1>3, <1>4 DEF Sets
  <2> QED BY <2>1, StateMoved
<1>6. Moving(c, "Closed", th2, R, c_toUs, c_theirs)
  <2>1. \A k \in DOMAIN R : R[k].type = "ConfReq" => R[k].peers # c BY <1>2, <1>4 DEF Configures
  <2>2. \A s \in Desired : c_channels[s].remote # c BY <1>2
  <2> QED BY <1>2, <1>4, <1>5, <2>1, <2>2 DEF Moving, Moves
<1>7. Became(R, c_toUs, th2, c_used) BY <1>2, <1>6, ClassicMoved
<1> QED BY <1>3, <1>7, ClassicKept

LEMMA ClassicAnswersClose == ASSUME ClassicInv, Classic!PeerAnswersClose PROVE ClassicInv'
<1> PICK m : m = Classic!Asked OBVIOUS
<1> PICK c : c = m.peers OBVIOUS
<1> PICK n : n = [type |-> "DiscRsp", ours |-> m.ours, peers |-> c, ok |-> TRUE] OBVIOUS
<1>1. Took(m) /\ m.type = "DiscReq" BY ClassicReads DEF Classic!PeerAnswersClose
<1> PICK R, th2 : R = c_toPeer' /\ th2 = c_theirs' OBVIOUS
<1>2. /\ Became(R, c_toUs, c_theirs, c_used) /\ c \in 0..Opens /\ c <= c_used /\ c # 0 /\ c_theirs[c].state # "Closed"
      /\ m.ours \in 0..Channels /\ m.ours \notin Opening \ c_stale
      /\ \A k \in DOMAIN c_toUs : c_toUs[k].type = "ConnRsp" /\ c_toUs[k].ok => c_toUs[k].peers # c
      /\ \A k \in DOMAIN R : R[k].type \in {"ConfReq", "DiscReq"} => R[k].peers # c
      /\ \A s \in Desired : c_channels[s].remote # 0 => c_channels[s].remote # c
      /\ \A k \in DOMAIN R : R[k].type = "ConnReq" /\ R[k].ours \notin c_stale => R[k].ours # m.ours
  BY <1>1 DEF Took, ReadOfP, Told2
<1>3. /\ c_theirs \in [1..Opens -> Theirs] /\ Leaves(R, c_toUs, c_theirs) /\ Agrees(R, c_theirs) /\ c \in 1..Opens
      /\ c_theirs[c] \in Theirs
  BY <1>2, ClassicKnown
<1>4. /\ c_used' = c_used /\ Ours2 /\ c_toUs' = Append(c_toUs, n)
      /\ th2 = IF Classic!Live(c) THEN [c_theirs EXCEPT ![c].state = "Closed"] ELSE c_theirs
  BY <1>2, <1>3, ClassicPeers DEF Classic!PeerAnswersClose, Classic!Asked, Classic!Answers, Classic!Msg
<1>5. Became(R, c_toUs, th2, c_used)
  <2>1. CASE Classic!Live(c)
    <3>1. c_theirs[c].state \in {"Config", "Open"} BY <2>1 DEF Classic!Live
    <3>2. /\ th2 \in [1..Opens -> Theirs] /\ (\A x \in 1..Opens \ {c} : th2[x] = c_theirs[x])
          /\ th2[c].ours = c_theirs[c].ours /\ th2[c].state = "Closed"
      <4>1. Sets(th2, c_theirs, c, "Closed") BY <1>3, <1>4, <2>1 DEF Sets
      <4> QED BY <4>1, StateMoved
    <3>3. Moving(c, "Closed", th2, R, c_toUs, c_theirs)
      <4>1. /\ \A k \in DOMAIN c_toUs : c_toUs[k].type = "DiscReq" => c_toUs[k].peers # c
            /\ \A k \in DOMAIN R : R[k].type = "DiscRsp" => R[k].peers # c
        BY <1>3, <3>1 DEF Leaves, Agrees
      <4>2. \A s \in Desired : c_channels[s].remote # c BY <1>2
      <4> QED BY <1>2, <1>3, <3>2, <4>1, <4>2 DEF Moving, Moves
    <3> QED BY <1>2, <3>3, ClassicMoved
  <2>2. CASE ~Classic!Live(c) BY <1>2, <1>4, <2>2
  <2> QED BY <2>1, <2>2
<1>6. Telling(n, R, c_toUs, th2, c_used)
  <2>1. n.type = "DiscRsp" /\ n.ours = m.ours /\ n.peers = c OBVIOUS
  <2>2. TellRequested(n, R, c_stale) BY <1>2, <2>1 DEF TellRequested
  <2>3. TellUndisturbed(n, Opening, c_stale) BY <1>2, <2>1 DEF TellUndisturbed
  <2> QED BY <1>2, <2>1, <2>2, <2>3 DEF Telling, Tell, TellAccepted, TellLeaves, TellAnswered, TellCarries
<1>7. n \in Told2 BY <1>2 DEF Told2, Frames2
<1>8. Became(R, c_toUs', th2, c_used) BY <1>4, <1>5, <1>6, <1>7, ClassicTold
<1> QED BY <1>4, <1>8, ClassicKept

LEMMA ClassicDrops == ASSUME ClassicInv, Classic!Drop PROVE ClassicInv'
<1>1. PICK kept \in 0..Len(c_toUs) :
        c_toUs' = Append(SubSeq(c_toUs, 1, kept), Classic!Msg("Down", Classic!Zero, Classic!Zero, TRUE))
  BY DEF Classic!Drop
<1> PICK n : n = [type |-> "Down", ours |-> 0, peers |-> 0, ok |-> TRUE] OBVIOUS
<1> PICK U2 : U2 = SubSeq(c_toUs, 1, kept) OBVIOUS
<1>2. c_toUs' = Append(U2, n) BY <1>1 DEF Classic!Msg, Classic!Zero
<1>3. /\ c_toPeer' = <<>> /\ c_up' = FALSE
      /\ UNCHANGED <<c_channels, c_call, c_theirs, c_used, c_held, c_slow, c_stale>>
  BY DEF Classic!Drop
<1>4. Core(c_channels, Desired, Opening, c_toPeer, c_toUs, c_theirs, c_used, c_stale) BY DEF ClassicInv, ClassicCore
<1>5. c_toPeer \in Seq(Told2) /\ c_toUs \in Seq(Told2) /\ c_used \in Nat /\ 0 \in 0..Channels /\ 0 \in 0..Opens
  BY <1>4, ClassicAssumption DEF Core, Tables
<1>6. PartOf(<<>>, c_toPeer) /\ PartOf(U2, c_toUs) BY <1>5, Parts
<1>7. Became(<<>>, U2, c_theirs, c_used) BY <1>4, <1>6, CoreLess DEF Became
<1>8. Telling(n, <<>>, U2, c_theirs, c_used)
  <2>1. n.type = "Down" /\ n.peers = 0 /\ 0 <= c_used BY <1>5
  <2>2. TellRequested(n, <<>>, c_stale) BY DEF TellRequested
  <2> QED BY <2>1, <2>2 DEF Telling, Tell, TellAccepted, TellLeaves, TellUndisturbed, TellAnswered, TellCarries
<1>9. n \in Told2 BY <1>5 DEF Told2, Frames2
<1>10. Became(<<>>, c_toUs', c_theirs, c_used) BY <1>2, <1>7, <1>8, <1>9, ClassicTold
<1>11. Ours2 BY <1>3 DEF Ours2
<1> QED BY <1>3, <1>10, <1>11, ClassicKept

LEMMA ClassicStep == ASSUME ClassicInv, [Classic!Next]_cVars PROVE ClassicInv'
<1>1. CASE Classic!Open BY <1>1, ClassicOpen
<1>2. CASE Classic!Recv BY <1>2, ClassicRecv
<1>3. CASE Classic!Close BY <1>3, ClassicClose
<1>4. CASE Classic!TimesOut BY <1>4, ClassicTimesOut
<1>5. CASE Classic!Poll
  BY <1>5, ClassicConnectionRsp, ClassicConfigReq, ClassicConfigRsp, ClassicDisconnectionReq, ClassicDisconnectionRsp,
     ClassicUnanswered, ClassicNoReject, ClassicData DEF Classic!Poll
<1>6. CASE Classic!Replies
  BY <1>6, ClassicAccepts, ClassicRefuses, ClassicConfigures, ClassicAnswersConfig, ClassicConfigured, ClassicLeft,
     ClassicAnswersClose DEF Classic!Replies
<1>7. CASE Classic!PeerSends BY <1>7, ClassicSends
<1>8. CASE Classic!PeerCloses BY <1>8, ClassicLeaves
<1>9. CASE Classic!Drop BY <1>9, ClassicDrops
<1>11. CASE Classic!OpenUnsent BY <1>11, ClassicOpenUnsent
<1>12. CASE Classic!CloseUnsent BY <1>12, ClassicCloseUnsent
<1>10. CASE UNCHANGED cVars
  <2>1. UNCHANGED <<c_channels, c_call, c_toPeer, c_toUs, c_theirs, c_used, c_up, c_held, c_slow, c_stale>>
    BY <1>10 DEF cVars
  <2>2. Opening' = Opening /\ Desired' = Desired BY <2>1 DEF Opening, Desired
  <2> QED BY <2>1, <2>2 DEF ClassicInv, ClassicCore, ClassicCalls, CallTypes
<1> QED BY <1>1, <1>2, <1>3, <1>4, <1>5, <1>6, <1>7, <1>8, <1>9, <1>10, <1>11, <1>12 DEF Classic!Next

\* A call ends as rejected by its slot's going, and nothing else ends one so.
LEMMA ClassicGone ==
  ASSUME ClassicInv, c_call.op = "open", c_call'.end = "Rejected", NEW t, Classic!Goes(t)
  PROVE  ~t[c_call.slot].inUse /\ c_call.slot \in 1..Channels /\ c_channels[c_call.slot].inUse
<1>1. c_call.end = "Ok" /\ c_call.slot \in 1..Channels /\ c_channels[c_call.slot].inUse BY DEF ClassicInv, ClassicCalls
<1>2. c_call' = IF ~t[c_call.slot].inUse THEN [op |-> "None", slot |-> 0, end |-> "Rejected"]
                ELSE IF Classic!IsOpen(t, c_call.slot) THEN [op |-> "None", slot |-> 0, end |-> "Ok"] ELSE c_call
  BY DEF Classic!Goes, Classic!Idle, Classic!Zero
<1>3. ASSUME t[c_call.slot].inUse PROVE FALSE
  <2>1. CASE Classic!IsOpen(t, c_call.slot) BY <1>2, <1>3, <2>1
  <2>2. CASE ~Classic!IsOpen(t, c_call.slot) BY <1>1, <1>2, <1>3, <2>2
  <2> QED BY <2>1, <2>2
<1> QED BY <1>1, <1>3

Real == \/ Classic!It.type = "DiscReq"
        \/ Classic!It.type = "ConnRsp" /\ ~Classic!It.ok
LEMMA ClassicRejects ==
  ASSUME ClassicInv, [Classic!Next]_cVars, c_call.op = "open", c_call'.end = "Rejected", c_call.slot \notin c_stale
  PROVE  Classic!It.ours = c_call.slot /\ Real
<1> PICK m : m = Classic!It OBVIOUS
<1> PICK s : s = c_call.slot OBVIOUS
<1>1. s \in 1..Channels /\ c_channels[s].inUse /\ c_call.end = "Ok" BY DEF ClassicInv, ClassicCalls
<1>2. c_channels \in [1..Channels -> Slotted] BY DEF ClassicInv, ClassicCore, Core, Tables
<1>3. ASSUME NEW t, Classic!Goes(t), t[s].inUse PROVE FALSE BY <1>3, ClassicGone
<1>4. ~Classic!Goes(c_channels) BY <1>1, <1>3
<1>5. ASSUME NEW x \in 1..Channels, Classic!Goes([c_channels EXCEPT ![x] = Vacant]) PROVE x = s
  <2> PICK t : t = [c_channels EXCEPT ![x] = Vacant] OBVIOUS
  <2>1. ~t[s].inUse BY <1>5, <1>3
  <2> QED BY <1>1, <1>2, <2>1
<1>6. ASSUME NEW x \in 1..Channels, NEW r \in Slotted, r.inUse = c_channels[x].inUse PROVE ~Classic!Goes([c_channels EXCEPT ![x] = r])
  <2> PICK t : t = [c_channels EXCEPT ![x] = r] OBVIOUS
  <2>1. CASE x = s
    <3>1. t[s] = r BY <1>1, <1>2, <2>1
    <3>2. t[s].inUse BY <1>1, <1>6, <2>1, <3>1
    <3> QED BY <1>3, <3>2
  <2>2. CASE x # s
    <3>1. t[s] = c_channels[s] BY <1>1, <1>2, <2>2
    <3>2. t[s].inUse BY <1>1, <3>1
    <3> QED BY <1>3, <3>2
  <2> QED BY <2>1, <2>2
<1>7. CASE Classic!OnConnectionRsp
  <2>1. Popped(m) /\ m.type = "ConnRsp" BY <1>7, ClassicPops DEF Classic!OnConnectionRsp
  <2>2. m.peers \in 0..Opens BY <2>1 DEF Popped, Told2
  <2>3. CASE ~Classic!ByCid(m.ours) BY <1>4, <1>7, <2>3 DEF Classic!OnConnectionRsp
  <2>4. CASE Classic!ByCid(m.ours) /\ m.ok
    <3>1. m.ours \in 1..Channels BY <2>4 DEF Classic!ByCid
    <3>2. Classic!Goes([c_channels EXCEPT ![m.ours].remote = m.peers, ![m.ours].connected = TRUE])
      BY <1>7, <2>4 DEF Classic!OnConnectionRsp
    <3>3. \A r \in Slotted : /\ [r EXCEPT !.remote = m.peers, !.connected = TRUE] \in Slotted
                             /\ [r EXCEPT !.remote = m.peers, !.connected = TRUE].inUse = r.inUse
      BY <2>2 DEF Slotted
    <3>4. [c_channels EXCEPT ![m.ours].remote = m.peers, ![m.ours].connected = TRUE]
            = [c_channels EXCEPT ![m.ours] = [c_channels[m.ours] EXCEPT !.remote = m.peers, !.connected = TRUE]]
      BY <1>2, <3>1
    <3> PICK r : r = [c_channels[m.ours] EXCEPT !.remote = m.peers, !.connected = TRUE] OBVIOUS
    <3>a. c_channels[m.ours] \in Slotted BY <1>2, <3>1
    <3>5. r \in Slotted /\ r.inUse = c_channels[m.ours].inUse BY <3>3, <3>a, Zenon
    <3>6. Classic!Goes([c_channels EXCEPT ![m.ours] = r]) BY <3>2, <3>4
    <3> QED BY <1>6, <3>1, <3>5, <3>6
  <2>5. CASE Classic!ByCid(m.ours) /\ ~m.ok
    <3>1. m.ours \in 1..Channels BY <2>5 DEF Classic!ByCid
    <3>2. Classic!Goes([c_channels EXCEPT ![m.ours] = Vacant])
      BY <1>7, <2>5 DEF Classic!OnConnectionRsp, Classic!Empty, Classic!Zero, Vacant
    <3>3. m.ours = s BY <1>5, <3>1, <3>2
    <3> QED BY <2>1, <2>5, <3>3 DEF Real
  <2> QED BY <2>3, <2>4, <2>5
<1>8. CASE Classic!OnConfigReq \/ Classic!OnConfigRsp
  <2>1. CASE Classic!Goes(c_channels) BY <1>4, <2>1
  <2>2. ASSUME Classic!ByCid(m.ours), NEW v, v = [c_channels EXCEPT ![m.ours].req = TRUE] \/ v = [c_channels EXCEPT ![m.ours].rsp = TRUE]
        PROVE  ~Classic!Goes(v)
    <3>1. m.ours \in 1..Channels /\ c_channels[m.ours] \in Slotted BY <1>2, <2>2 DEF Classic!ByCid
    <3>2. \A r \in Slotted : /\ [r EXCEPT !.req = TRUE] \in Slotted /\ [r EXCEPT !.req = TRUE].inUse = r.inUse
                             /\ [r EXCEPT !.rsp = TRUE] \in Slotted /\ [r EXCEPT !.rsp = TRUE].inUse = r.inUse
      BY DEF Slotted
    <3>3. PICK r : /\ r = [c_channels[m.ours] EXCEPT !.req = TRUE] \/ r = [c_channels[m.ours] EXCEPT !.rsp = TRUE]
                   /\ v = [c_channels EXCEPT ![m.ours] = r]
      BY <2>2
    <3>4. r \in Slotted /\ r.inUse = c_channels[m.ours].inUse BY <3>1, <3>2, <3>3
    <3> QED BY <1>6, <3>1, <3>3, <3>4
  <2>3. CASE Classic!OnConfigReq BY <2>1, <2>2, <2>3 DEF Classic!OnConfigReq
  <2>4. CASE Classic!OnConfigRsp BY <2>1, <2>2, <2>4 DEF Classic!OnConfigRsp
  <2> QED BY <1>8, <2>3, <2>4
<1>9. ASSUME Classic!Goes(Classic!Freed(m.ours)) PROVE m.ours = s
  <2>1. CASE Classic!ByCid(m.ours)
    <3>1. m.ours \in 1..Channels BY <2>1 DEF Classic!ByCid
    <3>2. Classic!Goes([c_channels EXCEPT ![m.ours] = Vacant])
      BY <1>9, <2>1 DEF Classic!Freed, Classic!Empty, Classic!Zero, Vacant
    <3> QED BY <1>5, <3>1, <3>2
  <2>2. CASE ~Classic!ByCid(m.ours) BY <1>4, <1>9, <2>2 DEF Classic!Freed
  <2> QED BY <2>1, <2>2
<1>10. CASE Classic!OnDisconnectionReq
  <2>1. m.type = "DiscReq" /\ m.ours = s
    BY <1>9, <1>10 DEF Classic!OnDisconnectionReq, Classic!Polled, Classic!It
  <2> QED BY <2>1 DEF Real
<1>11. CASE Classic!OnDisconnectionRsp
  <2>1. Popped(m) /\ m.type = "DiscRsp" /\ m.ours = s BY <1>9, <1>11, ClassicPops DEF Classic!OnDisconnectionRsp
  <2>2. m.ours \notin Opening \ c_stale BY <2>1 DEF Popped, ReadOfU
  <2> QED BY <2>1, <2>2 DEF Opening
<1>12. CASE Classic!OnCommandReject BY <1>12, ClassicNoReject
<1>13. CASE Classic!OnData \/ Classic!OnDown
  BY <1>1, <1>13 DEF Classic!OnData, Classic!OnDown, Classic!Idle
<1>14. CASE Classic!Open \/ Classic!Recv \/ Classic!Close \/ Classic!TimesOut
  BY <1>14 DEF Classic!Open, Classic!Recv, Classic!Close, Classic!TimesOut, Classic!Calls, Classic!Idle
<1>17. CASE Classic!OpenUnsent \/ Classic!CloseUnsent \/ Classic!Unanswered
  BY <1>17 DEF Classic!OpenUnsent, Classic!CloseUnsent, Classic!Unanswered, Classic!Unsent, Classic!Idle
<1>15. CASE c_call' = c_call BY <1>1, <1>15
<1>16. CASE Classic!Replies \/ Classic!PeerSends \/ Classic!PeerCloses \/ Classic!Drop \/ UNCHANGED cVars
  <2>1. c_call' = c_call
    BY <1>16 DEF Classic!Replies, Classic!PeerAccepts, Classic!PeerRefuses, Classic!PeerConfigures, Classic!PeerAnswersConfig,
       Classic!PeerConfigured, Classic!PeerClosed, Classic!PeerAnswersClose, Classic!PeerSends, Classic!PeerCloses,
       Classic!Drop, Classic!Peers, cVars
  <2> QED BY <1>15, <2>1
<1> QED BY <1>7, <1>8, <1>10, <1>11, <1>12, <1>13, <1>14, <1>16, <1>17 DEF Classic!Next, Classic!Poll

\* A call to recv ends well by a frame alone.
LEMMA ClassicHands ==
  ASSUME ClassicInv, [Classic!Next]_cVars, c_call.op = "recv", c_call'.op = "None", c_call'.end = "Ok"
  PROVE  LET s == c_got'[1] IN
         IF s \in c_held THEN s \in c_stale \/ c_channels[s].remote = c_got'[2] ELSE c_slow > 0
<1> PICK m : m = Classic!It OBVIOUS
<1>1. CASE Classic!OnData
  <2>1. Popped(m) /\ m.type = "Data" BY <1>1, ClassicPops DEF Classic!OnData
  <2>2. c_got' = <<m.ours, m.peers>> /\ m.ours \in 1..Channels /\ c_channels[m.ours].inUse
    <3>1. c_call' # c_call OBVIOUS
    <3> QED BY <1>1, <3>1 DEF Classic!OnData, Classic!ByCid
  <2>3. m.ours \notin c_stale => c_channels[m.ours].remote = m.peers BY <2>1, <2>2 DEF Popped, ReadOfU
  <2>4. m.ours \notin c_held => c_slow # 0 BY <2>2 DEF ClassicInv, ClassicCalls
  <2>5. c_slow \in Nat BY ClassicAssumption DEF ClassicInv, ClassicCalls, CallTypes
  <2> QED BY <2>2, <2>3, <2>4, <2>5
<1>2. ASSUME NEW t, Classic!Goes(t) PROVE FALSE
  <2>1. c_call' = c_call BY <1>2 DEF Classic!Goes
  <2> QED BY <2>1
<1>3. CASE \/ Classic!OnConnectionRsp \/ Classic!OnConfigReq \/ Classic!OnConfigRsp \/ Classic!OnDisconnectionReq
           \/ Classic!OnDisconnectionRsp \/ Classic!OnCommandReject
  <2>1. \E t : Classic!Goes(t)
    BY <1>3 DEF Classic!OnConnectionRsp, Classic!OnConfigReq, Classic!OnConfigRsp, Classic!OnDisconnectionReq,
                Classic!OnDisconnectionRsp, Classic!OnCommandReject
  <2> QED BY <1>2, <2>1
<1>4. CASE Classic!OnDown BY <1>4 DEF Classic!OnDown, Classic!Idle
<1>5. CASE Classic!Open \/ Classic!Recv \/ Classic!Close \/ Classic!TimesOut
  BY <1>5 DEF Classic!Open, Classic!Recv, Classic!Close, Classic!TimesOut, Classic!Calls, Classic!Idle
<1>6. CASE Classic!Replies \/ Classic!PeerSends \/ Classic!PeerCloses \/ Classic!Drop \/ UNCHANGED cVars
  <2>1. c_call' = c_call
    BY <1>6 DEF Classic!Replies, Classic!PeerAccepts, Classic!PeerRefuses, Classic!PeerConfigures, Classic!PeerAnswersConfig,
       Classic!PeerConfigured, Classic!PeerClosed, Classic!PeerAnswersClose, Classic!PeerSends, Classic!PeerCloses,
       Classic!Drop, Classic!Peers, cVars
  <2> QED BY <2>1
<1>7. CASE Classic!OpenUnsent \/ Classic!CloseUnsent \/ Classic!Unanswered
  BY <1>7 DEF Classic!OpenUnsent, Classic!CloseUnsent, Classic!Unanswered, Classic!Unsent, Classic!Idle
<1> QED BY <1>1, <1>3, <1>4, <1>5, <1>6, <1>7 DEF Classic!Next, Classic!Poll

LEMMA ClassicSays == ClassicInv => Classic!TypeOK /\ Classic!HeldIsAgreed
<1> SUFFICES ASSUME ClassicInv PROVE Classic!TypeOK /\ Classic!HeldIsAgreed OBVIOUS
<1>1. /\ Tables(c_channels, Desired, c_toPeer, c_toUs, c_theirs, c_used) /\ Shaped(c_channels, c_theirs, c_used)
      /\ Trusted(c_channels, Desired, c_toPeer, c_theirs) /\ CallTypes
      /\ \A s \in c_held : c_channels[s].connected /\ c_channels[s].rsp /\ c_channels[s].req
  BY DEF ClassicInv, ClassicCore, Core, ClassicCalls
<1>2. \A s \in 1..Channels : c_channels[s].remote \in 0..Opens BY <1>1 DEF Tables, Slotted
<1>3. Classic!TypeOK BY <1>1, <1>2 DEF CallTypes, Classic!TypeOK, Tables
<1>4. ASSUME NEW s \in c_held
      PROVE /\ c_channels[s].remote # 0 /\ c_theirs[c_channels[s].remote].ours = s
            /\ c_theirs[c_channels[s].remote].state # "Closed"
  <2>1. s \in 1..Channels /\ s \in Desired BY <1>1 DEF CallTypes, Desired
  <2>2. c_channels[s].remote # 0 /\ c_theirs[c_channels[s].remote].ours = s BY <1>1, <2>1 DEF Shaped
  <2> QED BY <1>1, <2>1, <2>2 DEF Trusted
<1>5. Classic!HeldIsAgreed BY <1>1, <1>4 DEF Classic!HeldIsAgreed, Classic!IsOpen, Classic!Zero
<1> QED BY <1>3, <1>5
================================================================================
