---------------------------- MODULE ServicesProofs ----------------------------
(***************************************************************************)
(* The invariants of MCServices, for any sizes of its instances.  Each     *)
(* section takes one of them, up to what its step keeps; the last section  *)
(* composes these with those of PeersProofs and LinksProofs.              *)
(***************************************************************************)
EXTENDS MCServices, PeersProofs, LinksProofs

\* The remainder, of what is less than three turns.
LEMMA TurnsOver ==
  ASSUME NEW N \in Nat \ {0}, NEW x \in Nat
  PROVE  /\ x < N => x % N = x
         /\ N <= x /\ x < 2 * N => x % N = x - N
         /\ 2 * N <= x /\ x < 3 * N => x % N = x - 2 * N
         /\ x % N \in 0..(N - 1)
<1> DEFINE q == x \div N
<1>1. x = (q * N) + (x % N) /\ x % N \in 0..(N - 1) /\ q \in Nat OBVIOUS
<1> HIDE DEF q
<1>2. x % N \in Nat /\ x % N < N BY <1>1
<1>3. q >= 3 => q * N >= 3 * N
  <2> SUFFICES ASSUME q >= 3 PROVE q * N >= 3 * N OBVIOUS
  <2>1. (q - 3) * N >= 0 BY <1>1
  <2>2. q * N = ((q - 3) * N) + (3 * N) BY <1>1
  <2> QED BY <2>1, <2>2, <1>1
<1>4. q \in {0, 1, 2} \/ q >= 3 BY <1>1
<1>5. CASE q = 0 BY <1>1, <1>2, <1>5
<1>6. CASE q = 1 BY <1>1, <1>2, <1>6
<1>7. CASE q = 2 BY <1>1, <1>2, <1>7
<1>8. CASE q >= 3 BY <1>1, <1>2, <1>3, <1>8
<1> QED BY <1>4, <1>5, <1>6, <1>7, <1>8

\* The next place of a ring.
LEMMA NextPlace ==
  ASSUME NEW N \in Nat \ {0}, NEW x \in 0..(N - 1)
  PROVE  (x + 1) % N = IF x + 1 = N THEN 0 ELSE x + 1
<1> DEFINE y == x + 1
<1>1. y \in Nat /\ y <= N OBVIOUS
<1> HIDE DEF y
<1>2. (y < N => y % N = y) /\ (N <= y /\ y < 2 * N => y % N = y - N) BY <1>1, TurnsOver
<1> QED BY <1>1, <1>2 DEF y

\* How many places lie between two.
LEMMA Apart ==
  ASSUME NEW N \in Nat \ {0}, NEW h \in 0..(N - 1), NEW t \in 0..(N - 1)
  PROVE  (t + N - h) % N = IF t >= h THEN t - h ELSE t + N - h
<1> DEFINE y == t + N - h
<1>1. y \in Nat /\ y < 2 * N OBVIOUS
<1> HIDE DEF y
<1>2. (y < N => y % N = y) /\ (N <= y /\ y < 2 * N => y % N = y - N) BY <1>1, TurnsOver
<1> QED BY <1>1, <1>2 DEF y

-----------------------------------------------------------------------------
(* The credit of the Wi-Fi chip. *)

CreditSteps == ~astray => Ahead(window, seq) + held <= Buffers
CreditInv == TypeOK /\ lag <= Buffers + Excess /\ CreditSteps /\ WithinCredit

USE CreditAssumption

\* The next number, and how far one number is ahead of another.
LEMMA Numbers ==
  ASSUME NEW a \in 0..(Mod - 1), NEW b \in 0..(Mod - 1)
  PROVE  /\ Ahead(a, b) = IF a >= b THEN a - b ELSE a + Mod - b
         /\ Plus(a, 1) = IF a + 1 = Mod THEN 0 ELSE a + 1
         /\ Plus(a, 2) \in 0..(Mod - 1)
<1> DEFINE x == a + Mod - b
           y == a + 1
           z == a + 2
<1>1. x \in Nat /\ y \in Nat /\ z \in Nat /\ Mod \in Nat \ {0} OBVIOUS
<1> HIDE DEF x, y, z
<1>2. /\ x < Mod => x % Mod = x
      /\ Mod <= x /\ x < 2 * Mod => x % Mod = x - Mod
      /\ y < Mod => y % Mod = y
      /\ Mod <= y /\ y < 2 * Mod => y % Mod = y - Mod
      /\ z % Mod \in 0..(Mod - 1)
  BY <1>1, TurnsOver
<1>3. Ahead(a, b) = x % Mod /\ Plus(a, 1) = y % Mod /\ Plus(a, 2) = z % Mod
  BY DEF Ahead, Plus, x, y, z
<1>4. Ahead(a, b) = IF a >= b THEN a - b ELSE a + Mod - b BY <1>2, <1>3 DEF x
<1>5. Plus(a, 1) = IF a + 1 = Mod THEN 0 ELSE a + 1 BY <1>2, <1>3 DEF y
<1> QED BY <1>2, <1>3, <1>4, <1>5

\* A ceiling read, the chip holding h and the frame as old as d, is as far ahead as there is room,
\* or further than any that is believed.
LEMMA Ceilings ==
  ASSUME NEW s \in 0..(Mod - 1), NEW h \in 0..(Buffers + Excess), NEW d \in 0..(Buffers + Excess)
  PROVE  LET w == Plus(Plus(s + Mod - h, Buffers), Mod - d)
         IN w \in 0..(Mod - 1) /\ (Ahead(w, s) <= Far => Ahead(w, s) + h <= Buffers)
<1> DEFINE x == s + Mod - h + Buffers
           c == x % Mod
           y == c + (Mod - d)
           w == y % Mod
<1>1. x \in Nat /\ x < 3 * Mod /\ Mod \in Nat \ {0} OBVIOUS
<1> HIDE DEF x
<1>2. /\ c \in 0..(Mod - 1)
      /\ x < Mod => c = x
      /\ Mod <= x /\ x < 2 * Mod => c = x - Mod
      /\ 2 * Mod <= x /\ x < 3 * Mod => c = x - 2 * Mod
  BY <1>1, TurnsOver
<1> HIDE DEF c
<1>3. y \in Nat /\ y < 2 * Mod BY <1>2
<1> HIDE DEF y
<1>4. /\ w \in 0..(Mod - 1)
      /\ y < Mod => w = y
      /\ Mod <= y /\ y < 2 * Mod => w = y - Mod
  BY <1>1, <1>3, TurnsOver
<1> HIDE DEF w
<1>5. Ahead(w, s) = IF w >= s THEN w - s ELSE w + Mod - s BY <1>4, Numbers
<1>6. Ahead(w, s) <= Far => Ahead(w, s) + h <= Buffers BY <1>1, <1>2, <1>3, <1>4, <1>5 DEF x, y
<1>7. Plus(Plus(s + Mod - h, Buffers), Mod - d) = w BY DEF Plus, x, c, y, w
<1> QED BY <1>4, <1>6, <1>7

LEMMA CreditInit == Init => CreditInv
<1> SUFFICES ASSUME Init PROVE CreditInv OBVIOUS
<1>1. 0 \in 0..(Mod - 1) OBVIOUS
<1>2. Ahead(0, 0) = IF 0 >= 0 THEN 0 - 0 ELSE 0 + Mod - 0 BY <1>1, Numbers
<1>3. Ahead(window, seq) = 0 /\ held = 0 BY <1>2 DEF Init
<1>4. CreditSteps BY <1>3 DEF CreditSteps
<1>5. paused \in BOOLEAN /\ astray \in BOOLEAN BY Zenon DEF Init
<1> QED BY <1>4, <1>5 DEF Init, CreditInv, TypeOK, WithinCredit

LEMMA CreditStep == CreditInv /\ [Next]_vars => CreditInv'
<1> SUFFICES ASSUME CreditInv, [Next]_vars PROVE CreditInv' OBVIOUS
<1> USE DEF CreditInv, TypeOK, WithinCredit
<1>1. /\ seq \in 0..(Mod - 1) /\ window \in 0..(Mod - 1) /\ held \in Nat /\ lag \in Nat
      /\ Ahead(window, seq) = IF window >= seq THEN window - seq ELSE window + Mod - seq
      /\ Plus(seq, 1) = IF seq + 1 = Mod THEN 0 ELSE seq + 1
      /\ Plus(seq, 1) \in 0..(Mod - 1) /\ Plus(seq, 2) \in 0..(Mod - 1)
  BY Numbers, SMTT(30)
<1>2. Ahead(window, Plus(seq, 1)) = IF window >= Plus(seq, 1) THEN window - Plus(seq, 1)
                                    ELSE window + Mod - Plus(seq, 1)
  BY <1>1, Numbers
<1>3. CASE Free BY <1>1, <1>3 DEF Free, CreditSteps
<1>4. CASE Send
  <2>1. CreditSteps' BY <1>1, <1>2, <1>4 DEF Send, CreditSteps
  <2>2. overrun' # "plain" BY <1>1, <1>4 DEF Send, Worse, CreditSteps
  <2>3. overrun' \in {"none", "astray", "plain"} BY <1>4 DEF Send, Worse
  <2> QED BY <1>1, <1>4, <2>1, <2>2, <2>3 DEF Send
<1>5. CASE Command
  <2>1. ~astray' => ~astray /\ seq # window BY <1>5, Zenon DEF Command
  <2>2. ~astray' => Ahead(window, seq) + held <= Buffers BY <2>1 DEF CreditSteps
  <2>3. window' = window /\ seq' = Plus(seq, 1) /\ held' = held + 1 BY <1>5 DEF Command
  <2>4. ~astray' => Ahead(window', seq') + held' <= Buffers BY <1>1, <1>2, <2>1, <2>2, <2>3
  <2>5. CreditSteps' BY <2>4 DEF CreditSteps
  <2>6. astray' \in BOOLEAN BY <1>5, Zenon DEF Command
  <2> QED BY <1>1, <1>5, <2>5, <2>6 DEF Command
<1>6. CASE ReadHeader
  <2>1. PICK d \in 0..lag :
          /\ LET w == Plus(Ceiling, Mod - d)
             IN /\ window' = IF Ahead(w, seq) > Far THEN Plus(seq, 2) ELSE w
                /\ astray' = (Ahead(w, seq) > Far)
          /\ lag' = d
    BY <1>6 DEF ReadHeader
  <2> DEFINE w == Plus(Ceiling, Mod - d)
  <2>2. w \in 0..(Mod - 1) /\ (Ahead(w, seq) <= Far => Ahead(w, seq) + held <= Buffers)
    <3>1. /\ held \in 0..(Buffers + Excess) /\ d \in 0..(Buffers + Excess)
          /\ seq \in 0..(Mod - 1)
      BY <1>1
    <3> QED BY <3>1, Ceilings DEF Ceiling
  <2>3. /\ window' = IF Ahead(w, seq) > Far THEN Plus(seq, 2) ELSE w
        /\ astray' = (Ahead(w, seq) > Far) /\ UNCHANGED <<seq, held, overrun>> /\ lag' = d
        /\ paused' \in BOOLEAN
    BY <1>6, <2>1 DEF ReadHeader
  <2> HIDE DEF w
  <2>8. w \in 0..(Mod - 1) BY <2>2
  <2>9. Ahead(w, seq) = IF w >= seq THEN w - seq ELSE w + Mod - seq BY <1>1, <2>8, Numbers
  <2>4. Ahead(w, seq) \in Int BY <1>1, <2>8, <2>9
  <2>7. astray' \in BOOLEAN BY <2>3, <2>4
  <2>5. CASE Ahead(w, seq) > Far
    <3>1. CreditSteps' BY <2>3, <2>5 DEF CreditSteps
    <3> QED BY <1>1, <2>3, <2>5, <2>7, <3>1
  <2>6. CASE ~(Ahead(w, seq) > Far)
    <3>1. window' = w /\ ~astray' BY <2>3, <2>6
    <3>2. Ahead(window', seq') + held' <= Buffers BY <2>2, <2>3, <2>4, <2>6, <3>1
    <3>3. CreditSteps' BY <3>2 DEF CreditSteps
    <3> QED BY <1>1, <2>2, <2>3, <2>7, <3>1, <3>3
  <2> QED BY <2>5, <2>6
<1>7. CASE UNCHANGED vars BY <1>7 DEF vars, CreditSteps, Ahead
<1> QED BY <1>3, <1>4, <1>5, <1>6, <1>7 DEF Next

HIDE CreditAssumption

-----------------------------------------------------------------------------
(* The Wi-Fi chip's memory. *)

Setting == {"low", "mid", "high"}
Awaiting == {"CmdDone", "WriteRdy", "DataDone"}

ChipTyped == Chip!TypeOK /\ d_chip \in Chip!Window

\* Where the driver is in the script: in the load until it ends, and then past it for good.
ChipInPlace == /\ d_outcome = "loading" => d_at <= Loads
               /\ d_outcome = "running" => d_at \in Chip!Served
               /\ d_stage \in Awaiting => Chip!Op.kind = "write"

\* An access finds the chip where it and base say.  Before it, and while the window moves, base may
\* be wrong only if it is not where the access goes.
WindowTracked == /\ d_stage \in Awaiting \cup {"access"} => d_chip = d_base /\ d_base = Chip!Op.at
                 /\ d_stage = "begin" => d_chip = d_base \/ d_base # Chip!Op.at \/ d_base = Chip!Zero
                 /\ d_stage \in Setting => d_base # Chip!Op.at \/ d_base = Chip!Zero
                 /\ d_stage = "mid" => d_chip[1] = Chip!Op.at[1]
                 /\ d_stage = "high" => d_chip[1] = Chip!Op.at[1] /\ d_chip[2] = Chip!Op.at[2]

\* A block moves only while its driver waits for the end of it, and the end is of that block.
ChipInPhase == /\ d_phase = "data" => d_stage = "DataDone" /\ "DataDone" \notin d_irq
               /\ "DataDone" \in d_irq /\ d_stage \in Awaiting => d_stage = "DataDone" /\ d_at \in d_wrote

\* What the load has passed is in the chip.
Loaded == d_outcome # "failed" =>
            \A k \in 1..Loads : k < d_at /\ Script[k].kind = "write" => k \in d_wrote

ChipInv == ChipTyped /\ ChipInPlace /\ WindowTracked /\ ChipInPhase /\ Loaded /\ Chip!LandsWhereAsked

-----------------------------------------------------------------------------

\* Each access of the script is one.
LEMMA ChipAccesses ==
  ASSUME Chip!Sensible
  PROVE  \A k \in 1..Len(Script) : Script[k].kind \in {"read", "write"} /\ Script[k].at \in Chip!Window
<1>1. \A k \in 1..Len(Script) : Script[k] \in [kind : {"read", "write"}, at : Chip!Window]
  BY ElementOfSeq DEF Chip!Sensible
<1> QED
  BY <1>1

\* The stages with a byte to set, and where it goes.
LEMMA WindowBytes == /\ DOMAIN Chip!Place = Setting /\ Chip!Place["low"] = 1 /\ Chip!Place["mid"] = 2 /\ Chip!Place["high"] = 3
                     /\ Chip!After["low"] = "mid" /\ Chip!After["mid"] = "high" /\ Chip!After["high"] = "access"
BY DEF Chip!Place, Chip!After, Setting

LEMMA ChipInit == ASSUME Chip!Sensible, Chip!Init PROVE ChipInv
<1>1. d_chip \in Chip!Window
  BY ChipAccesses DEF Chip!Init, Chip!Windows
<1>2. Chip!TypeOK
  BY DEF Chip!Sensible, Chip!Init, Chip!TypeOK
<1>3. ChipTyped
  BY <1>1, <1>2 DEF ChipTyped
<1>4. ChipInPlace /\ WindowTracked /\ ChipInPhase /\ Loaded /\ Chip!LandsWhereAsked
  BY DEF Chip!Sensible, Chip!Init, ChipInPlace, WindowTracked, ChipInPhase, Loaded, Chip!LandsWhereAsked, Awaiting, Setting
<1> QED
  BY <1>3, <1>4 DEF ChipInv

LEMMA ChipFacts ==
  ASSUME Chip!Sensible, ChipInv
  PROVE  Chip!Op.at \in Chip!Window /\ Chip!Op.kind \in {"read", "write"} /\ d_at \in 1..Len(Script)
BY ChipAccesses DEF ChipInv, ChipTyped, Chip!TypeOK, Chip!Op

\* An access that ends where base and the chip agree leaves them so for whatever comes next.
LEMMA ChipFinishes ==
  ASSUME Chip!Sensible, ChipInv, Chip!Finish, d_stage \in Awaiting \cup {"access"}, Chip!Busy,
         Chip!Op.kind = "write" => d_at \in d_wrote,
         d_base' = d_base, d_chip' = d_chip, d_wrote' = d_wrote, d_phase' # "data", d_irq' \subseteq Chip!Bits,
         d_phase' \in {"idle", "command", "ready", "filling", "data", "done"}, d_faults' \in 0..Faults,
         Chip!LandsWhereAsked'
  PROVE  ChipInv'
<1> USE ChipFacts, WindowBytes
<1>1. ChipTyped'
  BY DEF Chip!Sensible, ChipInv, ChipTyped, Chip!TypeOK, Chip!Finish, Chip!Busy, Chip!Served, ChipInPlace, Setting
<1>2. ChipInPlace' /\ WindowTracked'
  BY DEF Chip!Sensible, ChipInv, ChipTyped, Chip!TypeOK, Chip!Finish, Chip!Busy, Chip!Served, ChipInPlace, WindowTracked, Awaiting, Setting, Chip!Op
<1>3. ChipInPhase'
  BY DEF Chip!Finish, ChipInPhase, Awaiting
<1>4. Loaded'
  BY DEF Chip!Sensible, ChipInv, ChipTyped, Chip!TypeOK, Chip!Finish, Chip!Busy, Chip!Served, ChipInPlace, Loaded, Chip!Op
<1> QED
  BY <1>1, <1>2, <1>3, <1>4 DEF ChipInv

\* Giving up keeps the invariant wherever base is right or the access was not in it: the same access
\* is tried again, the load has failed, or the next access is in the same window.
LEMMA ChipGivesUp ==
  ASSUME Chip!Sensible, ChipInv, Chip!Busy, NEW dataError \in BOOLEAN, Chip!GivesUp(dataError),
         d_base' = d_base, d_chip' \in Chip!Window, d_wrote' = d_wrote, d_faults' \in 0..Faults, Chip!LandsWhereAsked',
         \/ d_chip' = d_chip /\ (d_stage \in Awaiting \cup {"access"})
         \/ /\ d_stage \in Setting /\ d_phase # "data"
            /\ \A i \in 1..3 : i # Chip!Place[d_stage] => d_chip'[i] = d_chip[i]
  PROVE  ChipInv'
<1> USE ChipFacts, WindowBytes
<1>1. CASE d_stage' = "begin" /\ d_attempt' = d_attempt + 1 /\ d_irq' = {} /\ d_phase' = "idle"
           /\ d_at' = d_at /\ d_outcome' = d_outcome /\ d_attempt < Attempts
  <2>1. ChipTyped' /\ ChipInPlace'
    BY <1>1 DEF Chip!Sensible, ChipInv, ChipTyped, Chip!TypeOK, ChipInPlace, Awaiting, Setting, Chip!Op, Chip!Bits
  <2>2. WindowTracked'
    BY <1>1 DEF ChipInv, WindowTracked, Awaiting, Setting, Chip!Op
  <2>3. ChipInPhase' /\ Loaded'
    BY <1>1 DEF ChipInv, ChipInPhase, Loaded, Awaiting
  <2> QED
    BY <2>1, <2>2, <2>3 DEF ChipInv
<1>2. CASE d_outcome' = "failed" /\ UNCHANGED <<d_at, d_stage, d_attempt, d_irq, d_phase>>
  <2>1. ChipTyped' /\ ChipInPlace'
    BY <1>2 DEF ChipInv, ChipTyped, Chip!TypeOK, ChipInPlace, Chip!Op
  <2>2. WindowTracked'
    BY <1>2, SMTT(30) DEF ChipInv, ChipTyped, Chip!Window, WindowTracked, Awaiting, Setting, Chip!Op
  <2>3. ChipInPhase' /\ Loaded'
    BY <1>2 DEF ChipInv, ChipInPhase, Loaded
  <2> QED
    BY <2>1, <2>2, <2>3 DEF ChipInv
<1>3. CASE d_at' \in Chip!Served /\ d_stage' = "begin" /\ d_attempt' = 1 /\ d_phase' = "idle"
           /\ UNCHANGED <<d_irq, d_outcome>> /\ d_outcome = "running"
  <2>1. ChipTyped' /\ ChipInPlace'
    BY <1>3 DEF Chip!Sensible, ChipInv, ChipTyped, Chip!TypeOK, ChipInPlace, Chip!Served, Awaiting, Setting, Chip!Op
  <2>2. Script[d_at'].at = Script[d_at].at
    BY <1>3 DEF Chip!Sensible, ChipInv, ChipInPlace
  <2>3. WindowTracked'
    BY <1>3, <2>2 DEF ChipInv, WindowTracked, Awaiting, Setting, Chip!Op
  <2>4. ChipInPhase' /\ Loaded'
    BY <1>3 DEF Chip!Sensible, ChipInv, ChipInPlace, ChipTyped, Chip!TypeOK, Chip!Served, ChipInPhase, Loaded, Awaiting
  <2> QED
    BY <2>1, <2>3, <2>4 DEF ChipInv
<1>4. d_outcome \in {"loading", "running"}
  BY DEF ChipInv, ChipTyped, Chip!TypeOK, Chip!Busy
<1> QED
  BY <1>1, <1>2, <1>3, <1>4 DEF Chip!GivesUp

LEMMA ChipStep == ASSUME Chip!Sensible, ChipInv, [Chip!Next]_dVars PROVE ChipInv'
<1> USE ChipFacts, WindowBytes
<1>1. CASE Chip!EnsureWindow
  <2>1. ChipTyped' /\ ChipInPlace'
    BY <1>1 DEF Chip!EnsureWindow, Chip!busVars, ChipInv, ChipTyped, Chip!TypeOK, ChipInPlace, Awaiting, Setting, Chip!Op, Chip!Busy
  <2>2. WindowTracked' /\ ChipInPhase' /\ Loaded' /\ Chip!LandsWhereAsked'
    BY <1>1 DEF Chip!EnsureWindow, Chip!busVars, ChipInv, WindowTracked, ChipInPhase, Loaded, Chip!LandsWhereAsked, Awaiting, Setting, Chip!Op
  <2> QED
    BY <2>1, <2>2 DEF ChipInv
<1>2. CASE Chip!SetByte
  <2>1. d_chip' \in Chip!Window /\ d_chip'[Chip!Place[d_stage]] = Chip!Op.at[Chip!Place[d_stage]]
        /\ \A i \in 1..3 : i # Chip!Place[d_stage] => d_chip'[i] = d_chip[i]
    BY <1>2 DEF Chip!SetByte, ChipInv, ChipTyped, Chip!Window, Setting
  <2>2. ChipTyped' /\ ChipInPlace'
    BY <1>2, <2>1 DEF Chip!SetByte, ChipInv, ChipTyped, Chip!TypeOK, ChipInPlace, Awaiting, Setting, Chip!Op, Chip!Busy
  <2>3. ASSUME d_stage = "high" PROVE d_chip' = Chip!Op.at
    <3>1. \A i \in 1..3 : d_chip'[i] = Chip!Op.at[i]
      BY <2>1, <2>3 DEF ChipInv, WindowTracked
    <3> QED
      BY <2>1, <3>1 DEF Chip!Window
  <2>4. WindowTracked'
    BY <1>2, <2>1, <2>3 DEF Chip!SetByte, ChipInv, WindowTracked, Awaiting, Setting, Chip!Op
  <2>5. ChipInPhase' /\ Loaded' /\ Chip!LandsWhereAsked'
    BY <1>2 DEF Chip!SetByte, ChipInv, ChipInPhase, Loaded, Chip!LandsWhereAsked, Awaiting, Setting
  <2> QED
    BY <2>2, <2>4, <2>5 DEF ChipInv
<1>3. CASE Chip!ByteFails
  <2>1. d_chip' \in Chip!Window /\ \A i \in 1..3 : i # Chip!Place[d_stage] => d_chip'[i] = d_chip[i]
    BY <1>3 DEF Chip!ByteFails, ChipInv, ChipTyped, Chip!Window, Setting
  <2>2. d_stage \in Setting /\ d_phase # "data" /\ Chip!Busy
    BY <1>3 DEF Chip!ByteFails, ChipInv, ChipInPhase, Setting
  <2>3. PICK dataError \in BOOLEAN : Chip!GivesUp(dataError)
    BY <1>3 DEF Chip!ByteFails
  <2>4. d_faults' \in 0..Faults /\ Chip!LandsWhereAsked' /\ d_base' = d_base /\ d_wrote' = d_wrote
    BY <1>3 DEF Chip!ByteFails, Chip!Fault, ChipInv, ChipTyped, Chip!TypeOK, Chip!LandsWhereAsked, Chip!Sensible
  <2> QED
    BY <2>1, <2>2, <2>3, <2>4, ChipGivesUp
<1>4. CASE Chip!Read
  <2>1. d_stage = "access" /\ Chip!Busy /\ Chip!Op.kind = "read" /\ UNCHANGED <<d_base, d_chip, d_wrote>>
    BY <1>4 DEF Chip!Read
  <2>2. CASE d_landed' = <<d_at, d_chip>> /\ Chip!Finish /\ UNCHANGED <<d_irq, d_phase, d_faults>>
    <3>1. Chip!LandsWhereAsked'
      BY <2>1, <2>2 DEF Chip!LandsWhereAsked, ChipInv, WindowTracked, Chip!Op
    <3>2. d_phase' # "data" /\ d_irq' \subseteq Chip!Bits /\ d_faults' \in 0..Faults
          /\ d_phase' \in {"idle", "command", "ready", "filling", "data", "done"}
      BY <2>1, <2>2 DEF ChipInv, ChipTyped, Chip!TypeOK, ChipInPhase
    <3> QED
      BY <2>1, <2>2, <3>1, <3>2, ChipFinishes
  <2>3. CASE Chip!Fault /\ Chip!GivesUp(TRUE) /\ UNCHANGED d_landed
    <3>1. d_faults' \in 0..Faults /\ Chip!LandsWhereAsked' /\ d_chip' \in Chip!Window
      BY <2>1, <2>3 DEF Chip!Fault, ChipInv, ChipTyped, Chip!TypeOK, Chip!LandsWhereAsked, Chip!Sensible
    <3> QED
      BY <2>1, <2>3, <3>1, ChipGivesUp
  <2> QED
    BY <1>4, <2>2, <2>3 DEF Chip!Read
<1>5. CASE Chip!Issue
  <2>1. ChipTyped' /\ ChipInPlace'
    BY <1>5 DEF Chip!Issue, Chip!busVars, ChipInv, ChipTyped, Chip!TypeOK, ChipInPlace, Awaiting, Chip!Op, Chip!Busy
  <2>2. WindowTracked' /\ ChipInPhase' /\ Loaded' /\ Chip!LandsWhereAsked'
    BY <1>5 DEF Chip!Issue, Chip!busVars, ChipInv, WindowTracked, ChipInPhase, Loaded, Chip!LandsWhereAsked, Awaiting, Setting, Chip!Op
  <2> QED
    BY <2>1, <2>2 DEF ChipInv
<1>6. CASE Chip!WaitDataInt
  <2>1. /\ d_stage \in Awaiting /\ d_stage \in d_irq /\ d_irq' = d_irq \ {d_stage} /\ Chip!Busy
        /\ UNCHANGED <<d_base, d_chip, d_wrote, d_landed, d_faults>>
    BY <1>6 DEF Chip!WaitDataInt, Chip!Awaited, Awaiting, Chip!busVars
  <2>2. CASE d_stage = "DataDone"
    <3>1. Chip!Finish /\ d_phase' = "idle" /\ d_at \in d_wrote
      BY <1>6, <2>1, <2>2 DEF Chip!WaitDataInt, ChipInv, ChipInPhase
    <3>2. Chip!LandsWhereAsked' /\ d_irq' \subseteq Chip!Bits /\ d_faults' \in 0..Faults
      BY <2>1 DEF ChipInv, ChipTyped, Chip!TypeOK, Chip!LandsWhereAsked
    <3> QED
      BY <2>1, <3>1, <3>2, ChipFinishes
  <2>3. CASE d_stage # "DataDone"
    <3>1. d_stage' = Chip!Phases[d_stage] /\ UNCHANGED <<d_at, d_attempt, d_outcome>>
          /\ d_phase' = (IF d_stage = "WriteRdy" THEN "data" ELSE d_phase)
      BY <1>6, <2>3 DEF Chip!WaitDataInt
    <3>2. d_stage' = (IF d_stage = "CmdDone" THEN "WriteRdy" ELSE "DataDone") /\ d_stage' \in Awaiting
      BY <2>1, <2>3, <3>1 DEF Chip!Phases, Awaiting
    <3>3. ChipTyped' /\ ChipInPlace'
      BY <2>1, <3>1, <3>2 DEF ChipInv, ChipTyped, Chip!TypeOK, ChipInPlace, Awaiting, Chip!Op
    <3>4. WindowTracked' /\ Loaded' /\ Chip!LandsWhereAsked'
      BY <2>1, <3>1, <3>2 DEF ChipInv, WindowTracked, Loaded, Chip!LandsWhereAsked, Awaiting, Setting, Chip!Op
    <3>5. ChipInPhase'
      BY <2>1, <2>3, <3>1, <3>2 DEF ChipInv, ChipInPhase, Awaiting
    <3> QED
      BY <3>3, <3>4, <3>5 DEF ChipInv
  <2> QED
    BY <2>2, <2>3
<1>7. CASE Chip!WaitFails
  <2>1. /\ d_stage \in Awaiting /\ Chip!Busy /\ Chip!GivesUp(TRUE)
        /\ UNCHANGED <<d_base, d_chip, d_wrote, d_landed, d_faults>>
    BY <1>7 DEF Chip!WaitFails, Chip!Awaited, Awaiting, Chip!busVars
  <2>2. d_faults' \in 0..Faults /\ Chip!LandsWhereAsked' /\ d_chip' \in Chip!Window
    BY <2>1 DEF ChipInv, ChipTyped, Chip!TypeOK, Chip!LandsWhereAsked
  <2> QED
    BY <2>1, <2>2, ChipGivesUp
<1>8. CASE Chip!CommandDone \/ Chip!CardReady
  <2>1. /\ UNCHANGED <<d_at, d_stage, d_attempt, d_base, d_faults, d_outcome, d_chip, d_landed, d_wrote>>
        /\ d_phase' \in {"ready", "filling"} /\ d_irq' \subseteq d_irq \cup {"CmdDone", "WriteRdy"}
    BY <1>8 DEF Chip!CommandDone, Chip!CardReady, Chip!Raise, Chip!busVars
  <2>2. ChipTyped' /\ ChipInPlace'
    BY <2>1 DEF ChipInv, ChipTyped, Chip!TypeOK, Chip!Bits, ChipInPlace, Chip!Op
  <2>3. WindowTracked' /\ ChipInPhase' /\ Loaded' /\ Chip!LandsWhereAsked'
    BY <2>1 DEF ChipInv, WindowTracked, ChipInPhase, Loaded, Chip!LandsWhereAsked, Chip!Op
  <2> QED
    BY <2>2, <2>3 DEF ChipInv
<1>9. CASE Chip!BlockDone
  <2>1. d_stage = "DataDone" /\ d_phase' = "done" /\ d_irq' = d_irq \cup {"DataDone"}
        /\ d_landed' = <<d_at, d_chip>> /\ d_wrote' = d_wrote \cup {d_at}
        /\ UNCHANGED <<d_at, d_stage, d_attempt, d_base, d_faults, d_outcome, d_chip>>
    BY <1>9 DEF Chip!BlockDone, Chip!Raise, ChipInv, ChipInPhase
  <2>2. ChipTyped' /\ ChipInPlace'
    BY <2>1 DEF ChipInv, ChipTyped, Chip!TypeOK, Chip!Bits, ChipInPlace, Chip!Op
  <2>3. WindowTracked' /\ ChipInPhase' /\ Loaded' /\ Chip!LandsWhereAsked'
    BY <2>1 DEF ChipInv, WindowTracked, ChipInPhase, Loaded, Chip!LandsWhereAsked, Awaiting, Chip!Op
  <2> QED
    BY <2>2, <2>3 DEF ChipInv
<1>10. CASE Chip!Errs
  <2>1. /\ UNCHANGED <<d_at, d_stage, d_attempt, d_base, d_chip, d_wrote, d_outcome>>
        /\ d_phase' = "done" /\ d_irq' = d_irq \cup {"Error"} /\ d_faults' \in 0..Faults
        /\ d_landed' = d_landed \/ (d_phase = "data" /\ d_landed' = <<d_at, d_chip>>)
    BY <1>10 DEF Chip!Errs, Chip!Fault, ChipInv, ChipTyped, Chip!TypeOK, Chip!Sensible
  <2>2. ChipTyped' /\ ChipInPlace'
    BY <2>1 DEF ChipInv, ChipTyped, Chip!TypeOK, Chip!Bits, ChipInPlace, Chip!Op
  <2>3. WindowTracked' /\ ChipInPhase' /\ Loaded' /\ Chip!LandsWhereAsked'
    BY <2>1 DEF ChipInv, WindowTracked, ChipInPhase, Loaded, Chip!LandsWhereAsked, Awaiting, Chip!Op
  <2> QED
    BY <2>2, <2>3 DEF ChipInv
<1>11. ~Chip!Reload
  BY DEF Chip!Reload, Chip!Sensible
<1>12. CASE UNCHANGED dVars
  <2>1. ChipTyped' /\ ChipInPlace' /\ WindowTracked' /\ ChipInPhase' /\ Loaded' /\ Chip!LandsWhereAsked'
    BY <1>12 DEF dVars, Chip!busVars, ChipInv, ChipTyped, Chip!TypeOK, ChipInPlace, WindowTracked, ChipInPhase, Loaded, Chip!LandsWhereAsked, Chip!Op
  <2> QED
    BY <2>1 DEF ChipInv
<1> QED
  BY <1>1, <1>2, <1>3, <1>4, <1>5, <1>6, <1>7, <1>8, <1>9, <1>10, <1>11, <1>12
  DEF Chip!Next, Chip!Driver, Chip!Controller

LEMMA ChipSays == ASSUME Chip!Sensible, ChipInv PROVE Chip!TypeOK /\ Chip!LandsWhereAsked /\ Chip!LoadedIsWhole
<1>1. Chip!TypeOK /\ Chip!LandsWhereAsked
  BY DEF ChipInv, ChipTyped
<1>2. Chip!LoadedIsWhole
  <2>1. d_outcome = "running" => d_at \in Nat /\ d_at > Loads
    BY DEF Chip!Sensible, ChipInv, ChipTyped, Chip!TypeOK, ChipInPlace, Chip!Served
  <2> QED
    BY <2>1 DEF Chip!Sensible, ChipInv, Loaded, Chip!LoadedIsWhole
<1> QED
  BY <1>1, <1>2

-----------------------------------------------------------------------------
(* The frames of the Wi-Fi chip. *)

\* How many commands up to the r-th have been sent since the one of an identifier.
Age(r, id) == (r + ReqIds - id) % ReqIds
Answers == {j \in DOMAIN l_fifo : l_fifo[j].kind = "control"}

\* The answers come in the order of the commands, and none between two that are due is missing.
Due == /\ \A k \in DOMAIN l_owed : Age(l_reqId, l_owed[k].id) = Len(l_owed) - k
       /\ \A j \in Answers : Age(l_reqId, l_fifo[j].id) >= Len(l_owed)
       /\ \A j, k \in Answers : j < k => Age(l_reqId, l_fifo[j].id) > Age(l_reqId, l_fifo[k].id)
       /\ \A j \in Answers : \A a \in Len(l_owed)..Age(l_reqId, l_fifo[j].id) :
             \E k \in Answers : Age(l_reqId, l_fifo[k].id) = a
\* The answer to the command being run is not one to a command given up.
Awaited == l_op = "command" =>
             /\ \A k \in DOMAIN l_owed : l_owed[k].id = l_reqId => ~l_owed[k].late
             /\ \A j \in Answers : l_fifo[j].id = l_reqId => ~l_fifo[j].late
LinkInv == Link!TypeOK /\ Due /\ Awaited /\ Link!AnswerIsOwn

LEMMA Ordered ==
  ASSUME NEW S, NEW n \in Nat, NEW f \in [1..n -> S]
  PROVE  f \in Seq(S) /\ Len(f) = n /\ DOMAIN f = 1..n
<1>1. f \in Seq(S) OBVIOUS
<1>2. DOMAIN f = 1..n OBVIOUS
<1>3. Len(f) \in Nat /\ DOMAIN f = 1..Len(f) BY <1>1, LenProperties
<1>4. Len(f) = n BY <1>2, <1>3
<1> QED BY <1>1, <1>2, <1>4

USE LinkAssumption

LEMMA Ages ==
  ASSUME NEW r \in 0..(ReqIds - 1), NEW id \in 0..(ReqIds - 1)
  PROVE  /\ Age(r, id) = IF r >= id THEN r - id ELSE r + ReqIds - id
         /\ Age(r, id) \in 0..(ReqIds - 1)
         /\ Age(r, id) = 0 <=> r = id
         /\ (r + 1) % ReqIds \in 0..(ReqIds - 1)
         /\ Age(r, id) + 1 < ReqIds => Age((r + 1) % ReqIds, id) = Age(r, id) + 1
<1>1. Age(r, id) = IF r >= id THEN r - id ELSE r + ReqIds - id BY Apart DEF Age
<1> DEFINE n == (r + 1) % ReqIds
<1>2. n = IF r + 1 = ReqIds THEN 0 ELSE r + 1 BY NextPlace
<1> HIDE DEF n
<1>3. n \in 0..(ReqIds - 1) BY <1>2
<1>4. Age(n, id) = IF n >= id THEN n - id ELSE n + ReqIds - id BY <1>3, Apart DEF Age
<1>5. Age(r, id) + 1 < ReqIds => Age(n, id) = Age(r, id) + 1 BY <1>1, <1>2, <1>4
<1> QED BY <1>1, <1>3, <1>5 DEF n

\* The lengths, the numbers and the ages of what is due.
LEMMA LinkTypes ==
  ASSUME LinkInv
  PROVE  /\ l_owed \in Seq(Link!Request) /\ Len(l_owed) \in Nat /\ DOMAIN l_owed = 1..Len(l_owed)
         /\ l_fifo \in Seq(Link!Frame) /\ Len(l_fifo) \in Nat /\ DOMAIN l_fifo = 1..Len(l_fifo)
         /\ Answers \subseteq 1..Len(l_fifo) /\ l_reqId \in 0..(ReqIds - 1)
         /\ \A k \in DOMAIN l_owed : l_owed[k].id \in 0..(ReqIds - 1) /\ l_owed[k] \in Link!Request
         /\ \A j \in Answers : /\ l_fifo[j].id \in 0..(ReqIds - 1)
                               /\ l_fifo[j] = [kind |-> "control", id |-> l_fifo[j].id, late |-> l_fifo[j].late]
                               /\ Age(l_reqId, l_fifo[j].id) \in 0..(ReqIds - 1)
<1>1. /\ l_owed \in Seq(Link!Request) /\ l_fifo \in Seq(Link!Frame) /\ l_reqId \in 0..(ReqIds - 1)
  BY DEF LinkInv, Link!TypeOK
<1>2. /\ Len(l_owed) \in Nat /\ DOMAIN l_owed = 1..Len(l_owed) /\ l_owed \in [1..Len(l_owed) -> Link!Request]
      /\ Len(l_fifo) \in Nat /\ DOMAIN l_fifo = 1..Len(l_fifo) /\ l_fifo \in [1..Len(l_fifo) -> Link!Frame]
  BY <1>1, LenProperties
<1>3. \A k \in DOMAIN l_owed : l_owed[k].id \in 0..(ReqIds - 1) /\ l_owed[k] \in Link!Request
  BY <1>2 DEF Link!Request
<1>4. ASSUME NEW j \in Answers
      PROVE  /\ l_fifo[j].id \in 0..(ReqIds - 1)
             /\ l_fifo[j] = [kind |-> "control", id |-> l_fifo[j].id, late |-> l_fifo[j].late]
  <2>1. l_fifo[j] \in Link!Frame /\ l_fifo[j].kind = "control" BY <1>2 DEF Answers
  <2> QED BY <2>1 DEF Link!Frame
<1>5. \A j \in Answers : Age(l_reqId, l_fifo[j].id) \in 0..(ReqIds - 1) BY <1>1, <1>4, Ages
<1> QED BY <1>1, <1>2, <1>3, <1>4, <1>5 DEF Answers

LEMMA AnswerAges ==
  ASSUME LinkInv, NEW j \in Answers
  PROVE  /\ Age(l_reqId, l_fifo[j].id) \in Nat /\ Age(l_reqId, l_fifo[j].id) \in 0..(ReqIds - 1)
         /\ j \in 1..Len(l_fifo) /\ l_fifo[j].id \in 0..(ReqIds - 1) /\ l_reqId \in 0..(ReqIds - 1)
<1>1. Age(l_reqId, l_fifo[j].id) \in 0..(ReqIds - 1) /\ l_fifo[j].id \in 0..(ReqIds - 1)
  BY LinkTypes
<1>2. j \in 1..Len(l_fifo) /\ l_reqId \in 0..(ReqIds - 1) BY LinkTypes
<1> QED BY <1>1, <1>2

\* Nothing is due but what the bound of a new command counts.
LEMMA Counted ==
  ASSUME LinkInv, NEW j \in Answers
  PROVE  Age(l_reqId, l_fifo[j].id) + 1 <= Link!Outstanding /\ Len(l_owed) <= Link!Outstanding
<1> DEFINE age == Age(l_reqId, l_fifo[j].id)
           span == Len(l_owed)..age
           f == [a \in span |-> CHOOSE k \in Answers : Age(l_reqId, l_fifo[k].id) = a]
<1>1. age \in Nat /\ Len(l_owed) \in Nat /\ age >= Len(l_owed)
  <2>1. Age(l_reqId, l_fifo[j].id) >= Len(l_owed) BY DEF LinkInv, Due
  <2>2. Age(l_reqId, l_fifo[j].id) \in 0..(ReqIds - 1) /\ Len(l_owed) \in Nat BY LinkTypes
  <2> QED BY <2>1, <2>2
<1>2. \A a \in span : f[a] \in Answers /\ Age(l_reqId, l_fifo[f[a]].id) = a BY DEF LinkInv, Due
<1>3. f \in Injection(span, Answers)
  <2>1. f \in [span -> Answers] BY <1>2
  <2>2. \A a, b \in span : f[a] = f[b] => a = b BY <1>2
  <2> HIDE DEF f
  <2> QED BY <2>1, <2>2 DEF Injection, IsInjective
<1>4. IsFiniteSet(Answers) /\ Cardinality(Answers) \in Nat
  <2>1. IsFiniteSet(1..Len(l_fifo)) BY LinkTypes, FS_Interval
  <2>2. IsFiniteSet(Answers) BY <2>1, LinkTypes, FS_Subset
  <2> QED BY <2>2, FS_CardinalityType
<1>5. Cardinality(span) <= Cardinality(Answers)
  <2> HIDE DEF f, span
  <2> QED BY <1>3, <1>4, FS_Injection
<1>6. Cardinality(span) = age - Len(l_owed) + 1
  <2> HIDE DEF age
  <2>1. age \in Int /\ Len(l_owed) \in Int /\ ~(Len(l_owed) > age) BY <1>1
  <2> QED BY <2>1, FS_Interval
<1>7. Link!Outstanding = Len(l_owed) + Cardinality(Answers)
  BY DEF Link!Outstanding, Answers, Link!Cardinality, Cardinality
<1> HIDE DEF age, span
<1>8. age + 1 <= Link!Outstanding /\ Len(l_owed) <= Link!Outstanding BY <1>1, <1>4, <1>5, <1>6, <1>7
<1> QED BY <1>8 DEF age

LEMMA LinkInit == Link!Init => LinkInv
<1> SUFFICES ASSUME Link!Init PROVE LinkInv OBVIOUS
<1> USE DEF Link!Init
<1>1. l_fifo \in Seq(Link!Frame) /\ l_owed \in Seq(Link!Request) OBVIOUS
<1>2. {l_seen, l_draining, l_ready, l_handed, l_resynced} \subseteq BOOLEAN BY Zenon
<1>3. Link!TypeOK BY <1>1, <1>2 DEF Link!TypeOK
<1>4. Answers = {} /\ DOMAIN l_owed = {} BY DEF Answers
<1>5. Due /\ Awaited BY <1>4 DEF Due, Awaited
<1> QED BY <1>3, <1>5 DEF LinkInv, Link!AnswerIsOwn

\* The chip's queue and what is due stay as they are.
LEMMA LinkAsBefore ==
  ASSUME LinkInv, l_owed' = l_owed, l_reqId' = l_reqId, Answers' = Answers,
         \A j \in Answers : l_fifo'[j] = l_fifo[j]
  PROVE  Due' /\ ((l_op' = "command" => l_op = "command") => Awaited')
<1>1. Due' BY DEF LinkInv, Due
<1>2. (l_op' = "command" => l_op = "command") => Awaited' BY DEF LinkInv, Awaited
<1> QED BY <1>1, <1>2

LEMMA LinkTraffic == LinkInv /\ Link!Traffic => LinkInv'
<1> SUFFICES ASSUME LinkInv, Link!Traffic PROVE LinkInv' OBVIOUS
<1>1. PICK k \in {"data", "glom", "event", "bad"} : Link!Queue(k, 0, FALSE) /\ l_owed' = l_owed
  BY DEF Link!Traffic
<1> DEFINE f == [kind |-> k, id |-> 0, late |-> FALSE]
<1>2. f \in Link!Frame BY DEF Link!Frame
<1>3. l_fifo' = Append(l_fifo, f) /\ l_ready' = (l_ready \/ l_fifo = <<>>)
  BY <1>1 DEF Link!Queue
<1>4. UNCHANGED <<l_op, l_seen, l_reqId, l_draining, l_glom, l_handed, l_answered, l_resynced>>
  BY <1>1 DEF Link!Queue, Link!host, Link!history
<1>5. f.kind # "control" OBVIOUS
<1> HIDE DEF f
<1>6. /\ l_fifo' \in Seq(Link!Frame) /\ DOMAIN l_fifo' = 1..(Len(l_fifo) + 1) /\ DOMAIN l_fifo = 1..Len(l_fifo)
      /\ \A j \in 1..Len(l_fifo) : l_fifo'[j] = l_fifo[j]
      /\ l_fifo'[Len(l_fifo) + 1] = f /\ Len(l_fifo) \in Nat
  BY <1>2, <1>3, LinkTypes, Appended
<1>7. Answers' = Answers BY <1>5, <1>6 DEF Answers
<1>8. \A j \in Answers : l_fifo'[j] = l_fifo[j] BY <1>6 DEF Answers
<1>9. Due' /\ Awaited' BY <1>1, <1>4, <1>7, <1>8, LinkAsBefore
<1>10. l_ready' \in BOOLEAN BY <1>3, Zenon
<1> QED BY <1>1, <1>4, <1>6, <1>9, <1>10 DEF LinkInv, Link!TypeOK, Link!AnswerIsOwn

LEMMA LinkAnswer == LinkInv /\ Link!Answer => LinkInv'
<1> SUFFICES ASSUME LinkInv, Link!Answer PROVE LinkInv' OBVIOUS
<1>t. LinkInv OBVIOUS
<1> DEFINE f == [kind |-> "control", id |-> Head(l_owed).id, late |-> Head(l_owed).late]
           last == Len(l_fifo) + 1
<1>1. /\ l_owed # <<>> /\ l_owed' = Tail(l_owed) /\ l_fifo' = Append(l_fifo, f)
      /\ l_ready' = (l_ready \/ l_fifo = <<>>)
      /\ UNCHANGED <<l_op, l_seen, l_reqId, l_draining, l_glom, l_handed, l_answered, l_resynced>>
  BY DEF Link!Answer, Link!Queue, Link!host, Link!history
<1>2. /\ l_owed' \in Seq(Link!Request) /\ Len(l_owed') = Len(l_owed) - 1 /\ Len(l_owed) \in Nat \ {0}
      /\ DOMAIN l_owed = 1..Len(l_owed) /\ DOMAIN l_owed' = 1..(Len(l_owed) - 1)
      /\ \A k \in 1..(Len(l_owed) - 1) : l_owed'[k] = l_owed[k + 1]
      /\ Head(l_owed) = l_owed[1] /\ 1 \in DOMAIN l_owed
  BY <1>1, LinkTypes, Shortened
<1>3. /\ f \in Link!Frame /\ f.kind = "control" /\ f.id = l_owed[1].id /\ f.late = l_owed[1].late
  <2>1. l_owed[1] \in Link!Request BY <1>2, LinkTypes
  <2> QED BY <1>2, <2>1 DEF Link!Frame, Link!Request
<1> HIDE DEF f
<1>4. /\ l_fifo' \in Seq(Link!Frame) /\ DOMAIN l_fifo' = 1..last /\ DOMAIN l_fifo = 1..Len(l_fifo)
      /\ \A j \in 1..Len(l_fifo) : l_fifo'[j] = l_fifo[j]
      /\ l_fifo'[last] = f /\ Len(l_fifo) \in Nat
  BY <1>1, <1>3, LinkTypes, Appended
<1>5. /\ Answers' = Answers \cup {last} /\ Answers \subseteq 1..Len(l_fifo)
      /\ \A j \in Answers : l_fifo'[j] = l_fifo[j]
  BY <1>3, <1>4 DEF Answers
<1> DEFINE age(j) == Age(l_reqId, l_fifo'[j].id)
<1>6. age(last) = Len(l_owed) - 1
  <2>1. Age(l_reqId, l_owed[1].id) = Len(l_owed) - 1 BY <1>2 DEF LinkInv, Due
  <2> QED BY <1>3, <1>4, <2>1
<1>7. \A j \in Answers : age(j) = Age(l_reqId, l_fifo[j].id) /\ age(j) \in Nat
  <2> SUFFICES ASSUME NEW j \in Answers PROVE age(j) = Age(l_reqId, l_fifo[j].id) /\ age(j) \in Nat
    OBVIOUS
  <2>1. l_fifo'[j] = l_fifo[j] BY <1>5
  <2> QED BY <2>1, AnswerAges
<1>8. Due'
  <2>1. ASSUME NEW k \in DOMAIN l_owed' PROVE Age(l_reqId, l_owed'[k].id) = Len(l_owed') - k
    <3>1. k + 1 \in DOMAIN l_owed /\ l_owed'[k] = l_owed[k + 1] BY <1>2
    <3>2. Age(l_reqId, l_owed[k + 1].id) = Len(l_owed) - (k + 1) BY <3>1 DEF LinkInv, Due
    <3> QED BY <1>2, <3>1, <3>2
  <2>2. \A j \in Answers : age(j) >= Len(l_owed)
    <3>1. \A j \in Answers : Age(l_reqId, l_fifo[j].id) >= Len(l_owed) BY DEF LinkInv, Due
    <3> HIDE DEF age
    <3> QED BY <1>7, <3>1
  <2>3. ASSUME NEW j \in Answers' PROVE age(j) >= Len(l_owed')
    <3> HIDE DEF age
    <3>1. CASE j = last BY <1>2, <1>6, <3>1
    <3>2. CASE j # last
      <4>1. j \in Answers BY <1>5, <3>2
      <4>2. age(j) >= Len(l_owed) /\ age(j) \in Nat BY <1>7, <2>2, <4>1
      <4> QED BY <1>2, <4>2
    <3> QED BY <3>1, <3>2
  <2>4. ASSUME NEW j \in Answers', NEW k \in Answers', j < k PROVE age(j) > age(k)
    <3>1. j \in Answers /\ age(j) = Age(l_reqId, l_fifo[j].id) BY <1>4, <1>5, <1>7, <2>4
    <3>2. CASE k = last
      <4> HIDE DEF age
      <4>1. age(j) \in Nat /\ age(j) >= Len(l_owed) BY <1>7, <2>2, <3>1
      <4> QED BY <1>2, <1>6, <3>2, <4>1
    <3>3. CASE k # last
      <4>1. k \in Answers /\ age(k) = Age(l_reqId, l_fifo[k].id) BY <1>5, <1>7, <3>3
      <4>2. Age(l_reqId, l_fifo[j].id) > Age(l_reqId, l_fifo[k].id) BY <2>4, <3>1, <4>1 DEF LinkInv, Due
      <4> HIDE DEF age
      <4> QED BY <3>1, <4>1, <4>2
    <3> QED BY <3>2, <3>3
  <2>5. ASSUME NEW j \in Answers', NEW a \in Len(l_owed')..age(j)
        PROVE  \E k \in Answers' : age(k) = a
    <3>1. CASE a = Len(l_owed) - 1 BY <1>5, <1>6, <3>1
    <3>2. CASE a # Len(l_owed) - 1
      <4>1. j \in Answers /\ a \in Len(l_owed)..age(j)
        <5> HIDE DEF age
        <5> QED BY <1>2, <1>5, <1>6, <1>7, <3>2
      <4>2. \E k \in Answers : Age(l_reqId, l_fifo[k].id) = a BY <1>7, <4>1 DEF LinkInv, Due
      <4> QED BY <1>5, <1>7, <4>2
    <3> QED BY <3>1, <3>2
  <2> QED BY <1>1, <2>1, <2>3, <2>4, <2>5 DEF Due
<1>9. Awaited'
  <2> SUFFICES ASSUME l_op = "command" PROVE Awaited' BY <1>1 DEF Awaited
  <2>1. /\ \A k \in DOMAIN l_owed : l_owed[k].id = l_reqId => ~l_owed[k].late
        /\ \A j \in Answers : l_fifo[j].id = l_reqId => ~l_fifo[j].late
    BY DEF LinkInv, Awaited
  <2>2. ASSUME NEW k \in DOMAIN l_owed', l_owed'[k].id = l_reqId PROVE ~l_owed'[k].late
    <3>1. k + 1 \in DOMAIN l_owed /\ l_owed'[k] = l_owed[k + 1] BY <1>2
    <3> QED BY <2>1, <2>2, <3>1
  <2>3. ASSUME NEW j \in Answers', l_fifo'[j].id = l_reqId PROVE ~l_fifo'[j].late
    <3>1. CASE j = last BY <1>2, <1>3, <1>4, <2>1, <2>3, <3>1
    <3>2. CASE j # last BY <1>5, <2>1, <2>3, <3>2
    <3> QED BY <3>1, <3>2
  <2> QED BY <1>1, <2>2, <2>3 DEF Awaited
<1>10. l_ready' \in BOOLEAN BY <1>1, Zenon
<1>11. Link!TypeOK' BY <1>1, <1>2, <1>4, <1>10 DEF LinkInv, Link!TypeOK
<1> QED BY <1>1, <1>8, <1>9, <1>11 DEF LinkInv, Link!AnswerIsOwn

LEMMA LinkCommand == LinkInv /\ Link!Command => LinkInv'
<1> SUFFICES ASSUME LinkInv, Link!Command PROVE LinkInv' OBVIOUS
<1> DEFINE e == [id |-> l_reqId', late |-> FALSE]
           last == Len(l_owed) + 1
<1>1. /\ l_op = "idle" /\ Link!Outstanding < ReqIds - 1 /\ l_reqId' = (l_reqId + 1) % ReqIds
      /\ l_owed' = Append(l_owed, e) /\ l_glom' = 0 /\ l_op' = "command"
      /\ UNCHANGED <<l_seen, l_draining, l_fifo, l_ready, l_handed, l_answered, l_resynced>>
  BY DEF Link!Command, Link!history
<1>2. l_reqId' \in 0..(ReqIds - 1) /\ Age(l_reqId', l_reqId') = 0 BY <1>1, LinkTypes, Ages
<1>3. e \in Link!Request /\ e.id = l_reqId' /\ e.late = FALSE BY <1>2 DEF Link!Request
<1> HIDE DEF e
<1>4. /\ l_owed' \in Seq(Link!Request) /\ Len(l_owed') = last /\ DOMAIN l_owed' = 1..last
      /\ DOMAIN l_owed = 1..Len(l_owed) /\ Len(l_owed) \in Nat
      /\ \A k \in 1..Len(l_owed) : l_owed'[k] = l_owed[k]
      /\ l_owed'[last] = e
  BY <1>1, <1>3, LinkTypes, Appended
<1>5. Answers' = Answers BY <1>1 DEF Answers
<1>6. Link!Outstanding \in Int
  <2>1. IsFiniteSet(1..Len(l_fifo)) BY LinkTypes, FS_Interval
  <2>2. Cardinality(Answers) \in Nat BY <2>1, LinkTypes, FS_Subset, FS_CardinalityType
  <2>3. Link!Outstanding = Len(l_owed) + Cardinality(Answers)
    BY DEF Link!Outstanding, Answers, Link!Cardinality, Cardinality
  <2> QED BY <1>4, <2>2, <2>3
<1>7. \A j \in Answers : /\ Age(l_reqId', l_fifo[j].id) = Age(l_reqId, l_fifo[j].id) + 1
                         /\ Age(l_reqId, l_fifo[j].id) \in Nat
  <2> SUFFICES ASSUME NEW j \in Answers
               PROVE  /\ Age(l_reqId', l_fifo[j].id) = Age(l_reqId, l_fifo[j].id) + 1
                      /\ Age(l_reqId, l_fifo[j].id) \in Nat
    OBVIOUS
  <2>1. Age(l_reqId, l_fifo[j].id) + 1 <= Link!Outstanding BY Counted
  <2>2. /\ l_reqId \in 0..(ReqIds - 1) /\ l_fifo[j].id \in 0..(ReqIds - 1)
        /\ Age(l_reqId, l_fifo[j].id) \in Nat
    BY AnswerAges
  <2>3. Age(l_reqId, l_fifo[j].id) + 1 < ReqIds BY <1>1, <1>6, <2>1, <2>2
  <2> QED BY <1>1, <2>2, <2>3, Ages
<1>8. \A k \in DOMAIN l_owed : Age(l_reqId', l_owed[k].id) = Len(l_owed) - k + 1
  <2> SUFFICES ASSUME NEW k \in DOMAIN l_owed PROVE Age(l_reqId', l_owed[k].id) = Len(l_owed) - k + 1
    OBVIOUS
  <2>1. Age(l_reqId, l_owed[k].id) = Len(l_owed) - k BY DEF LinkInv, Due
  <2>2. Len(l_owed) <= Link!Outstanding
    <3>1. IsFiniteSet(1..Len(l_fifo)) BY LinkTypes, FS_Interval
    <3>2. Cardinality(Answers) \in Nat BY <3>1, LinkTypes, FS_Subset, FS_CardinalityType
    <3>3. Link!Outstanding = Len(l_owed) + Cardinality(Answers)
      BY DEF Link!Outstanding, Answers, Link!Cardinality, Cardinality
    <3> QED BY <1>4, <3>2, <3>3
  <2>3. l_reqId \in 0..(ReqIds - 1) /\ l_owed[k].id \in 0..(ReqIds - 1) BY LinkTypes
  <2>4. Age(l_reqId, l_owed[k].id) + 1 < ReqIds BY <1>1, <1>4, <1>6, <2>1, <2>2
  <2>5. Age(l_reqId', l_owed[k].id) = Age(l_reqId, l_owed[k].id) + 1 BY <1>1, <2>3, <2>4, Ages
  <2> QED BY <1>4, <2>1, <2>5
<1>9. Due'
  <2>1. ASSUME NEW k \in DOMAIN l_owed' PROVE Age(l_reqId', l_owed'[k].id) = Len(l_owed') - k
    <3>1. CASE k = last BY <1>2, <1>3, <1>4, <3>1
    <3>2. CASE k # last BY <1>4, <1>8, <3>2
    <3> QED BY <3>1, <3>2
  <2>2. \A j \in Answers : Age(l_reqId', l_fifo[j].id) >= Len(l_owed')
    <3>1. \A j \in Answers : Age(l_reqId, l_fifo[j].id) >= Len(l_owed) BY DEF LinkInv, Due
    <3> QED BY <1>4, <1>7, <3>1
  <2>3. \A j, k \in Answers : j < k => Age(l_reqId', l_fifo[j].id) > Age(l_reqId', l_fifo[k].id)
    <3>1. \A j, k \in Answers : j < k => Age(l_reqId, l_fifo[j].id) > Age(l_reqId, l_fifo[k].id)
      BY DEF LinkInv, Due
    <3> QED BY <1>7, <3>1
  <2>4. ASSUME NEW j \in Answers, NEW a \in Len(l_owed')..Age(l_reqId', l_fifo[j].id)
        PROVE  \E k \in Answers : Age(l_reqId', l_fifo[k].id) = a
    <3>1. a - 1 \in Len(l_owed)..Age(l_reqId, l_fifo[j].id) BY <1>4, <1>7
    <3>2. PICK k \in Answers : Age(l_reqId, l_fifo[k].id) = a - 1 BY <3>1 DEF LinkInv, Due
    <3> QED BY <1>7, <3>2
  <2> QED BY <1>1, <1>5, <2>1, <2>2, <2>3, <2>4 DEF Due
<1>10. Awaited'
  <2>1. ASSUME NEW k \in DOMAIN l_owed', l_owed'[k].id = l_reqId' PROVE ~l_owed'[k].late
    <3>1. CASE k = last BY <1>3, <1>4, <3>1
    <3>2. CASE k # last
      <4>1. k \in DOMAIN l_owed /\ l_owed'[k] = l_owed[k] /\ k <= Len(l_owed) BY <1>4, <3>2
      <4>2. Age(l_reqId', l_reqId') = Len(l_owed) - k + 1 BY <1>8, <2>1, <4>1
      <4> QED BY <1>2, <1>4, <4>1, <4>2
    <3> QED BY <3>1, <3>2
  <2>2. ASSUME NEW j \in Answers', l_fifo'[j].id = l_reqId' PROVE ~l_fifo'[j].late
    <3>1. Age(l_reqId', l_reqId') = Age(l_reqId, l_fifo[j].id) + 1 /\ Age(l_reqId, l_fifo[j].id) \in Nat
      BY <1>1, <1>5, <1>7, <2>2
    <3> QED BY <1>2, <3>1
  <2> QED BY <2>1, <2>2 DEF Awaited
<1>11. Link!TypeOK' BY <1>1, <1>2, <1>4 DEF LinkInv, Link!TypeOK
<1> QED BY <1>1, <1>9, <1>10, <1>11 DEF LinkInv, Link!AnswerIsOwn

\* A frame is read.
LEMMA LinkShortens ==
  ASSUME LinkInv, l_fifo # <<>>, l_fifo' = Tail(l_fifo), l_owed' = l_owed, l_reqId' = l_reqId
  PROVE  /\ l_fifo' \in Seq(Link!Frame) /\ Due' /\ ((l_op' = "command" => l_op = "command") => Awaited')
         /\ Head(l_fifo) = l_fifo[1] /\ 1 \in DOMAIN l_fifo
<1>1. /\ l_fifo' \in Seq(Link!Frame) /\ Len(l_fifo) \in Nat \ {0}
      /\ DOMAIN l_fifo = 1..Len(l_fifo) /\ DOMAIN l_fifo' = 1..(Len(l_fifo) - 1)
      /\ \A k \in 1..(Len(l_fifo) - 1) : l_fifo'[k] = l_fifo[k + 1]
      /\ Head(l_fifo) = l_fifo[1] /\ 1 \in DOMAIN l_fifo
  BY LinkTypes, Shortened
<1>2. /\ Answers' = {j \in 1..(Len(l_fifo) - 1) : j + 1 \in Answers}
      /\ \A j \in Answers' : l_fifo'[j] = l_fifo[j + 1] /\ j + 1 \in Answers /\ j \in Nat \ {0}
  BY <1>1 DEF Answers
<1>3. Len(l_owed) \in Nat /\ \A j \in Answers : Age(l_reqId, l_fifo[j].id) \in Nat /\ j \in 1..Len(l_fifo)
  BY LinkTypes, AnswerAges
<1>4. Due'
  <2>1. \A k \in DOMAIN l_owed : Age(l_reqId, l_owed[k].id) = Len(l_owed) - k BY DEF LinkInv, Due
  <2>2. \A j \in Answers' : Age(l_reqId, l_fifo'[j].id) >= Len(l_owed) BY <1>2 DEF LinkInv, Due
  <2>3. ASSUME NEW j \in Answers', NEW k \in Answers', j < k
        PROVE  Age(l_reqId, l_fifo'[j].id) > Age(l_reqId, l_fifo'[k].id)
    <3>1. j + 1 \in Answers /\ k + 1 \in Answers /\ j + 1 < k + 1 BY <1>2, <2>3
    <3> QED BY <1>2, <3>1 DEF LinkInv, Due
  <2>4. ASSUME NEW j \in Answers', NEW a \in Len(l_owed)..Age(l_reqId, l_fifo'[j].id)
        PROVE  \E k \in Answers' : Age(l_reqId, l_fifo'[k].id) = a
    <3>1. j + 1 \in Answers /\ l_fifo'[j] = l_fifo[j + 1] BY <1>2
    <3>2. PICK k \in Answers : Age(l_reqId, l_fifo[k].id) = a BY <3>1 DEF LinkInv, Due
    <3>3. k # 1
      <4> SUFFICES ASSUME k = 1 PROVE FALSE OBVIOUS
      <4>1. 1 \in Answers /\ 1 < j + 1 BY <1>2
      <4>2. Age(l_reqId, l_fifo[1].id) > Age(l_reqId, l_fifo[j + 1].id)
        BY <3>1, <4>1 DEF LinkInv, Due
      <4>3. a \in Len(l_owed)..Age(l_reqId, l_fifo[j + 1].id) BY <3>1
      <4>4. Age(l_reqId, l_fifo[j + 1].id) \in Nat BY <1>3, <3>1
      <4>5. Age(l_reqId, l_fifo[1].id) = a BY <3>2
      <4> QED BY <1>3, <4>2, <4>3, <4>4, <4>5
    <3>4. k - 1 \in Answers' /\ l_fifo'[k - 1] = l_fifo[k] BY <1>1, <1>2, <1>3, <3>2, <3>3
    <3> QED BY <3>2, <3>4
  <2> QED BY <2>1, <2>2, <2>3, <2>4 DEF Due
<1>5. (l_op' = "command" => l_op = "command") => Awaited' BY <1>2 DEF LinkInv, Awaited
<1> QED BY <1>1, <1>4, <1>5

LEMMA LinkTimesOut == LinkInv /\ Link!TimesOut => LinkInv'
<1> SUFFICES ASSUME LinkInv, Link!TimesOut PROVE LinkInv' OBVIOUS
<1>1. /\ l_op' = "idle"
      /\ l_owed' = [k \in DOMAIN l_owed |-> [l_owed[k] EXCEPT !.late = TRUE]]
      /\ l_fifo' = [k \in DOMAIN l_fifo |-> IF l_fifo[k].kind = "control"
                                            THEN [l_fifo[k] EXCEPT !.late = TRUE] ELSE l_fifo[k]]
      /\ UNCHANGED <<l_seen, l_reqId, l_draining, l_glom, l_ready, l_handed, l_answered, l_resynced>>
  BY DEF Link!TimesOut, Link!history
<1>2. /\ l_owed \in [1..Len(l_owed) -> Link!Request] /\ Len(l_owed) \in Nat
      /\ l_fifo \in [1..Len(l_fifo) -> Link!Frame] /\ Len(l_fifo) \in Nat
      /\ DOMAIN l_owed = 1..Len(l_owed) /\ DOMAIN l_fifo = 1..Len(l_fifo)
  BY LinkTypes, LenProperties
<1>3. /\ \A e \in Link!Request : [e EXCEPT !.late = TRUE] \in Link!Request /\ [e EXCEPT !.late = TRUE].id = e.id
      /\ \A f \in Link!Frame : f.kind = "control" =>
           /\ [f EXCEPT !.late = TRUE] \in Link!Frame /\ [f EXCEPT !.late = TRUE].id = f.id
           /\ [f EXCEPT !.late = TRUE].kind = "control"
  BY DEF Link!Request, Link!Frame
<1>4. /\ l_owed' \in [1..Len(l_owed) -> Link!Request]
      /\ \A k \in DOMAIN l_owed : l_owed'[k].id = l_owed[k].id
  BY <1>1, <1>2, <1>3
<1>5. /\ l_fifo' \in [1..Len(l_fifo) -> Link!Frame]
      /\ \A k \in DOMAIN l_fifo : /\ l_fifo'[k].kind = l_fifo[k].kind
                                  /\ l_fifo[k].kind = "control" => l_fifo'[k].id = l_fifo[k].id
  BY <1>1, <1>2, <1>3
<1>6. /\ l_owed' \in Seq(Link!Request) /\ Len(l_owed') = Len(l_owed) /\ DOMAIN l_owed' = DOMAIN l_owed
      /\ l_fifo' \in Seq(Link!Frame) /\ DOMAIN l_fifo' = DOMAIN l_fifo
  BY <1>2, <1>4, <1>5, Ordered
<1>7. Answers' = Answers /\ \A k \in Answers : l_fifo'[k].id = l_fifo[k].id BY <1>5, <1>6 DEF Answers
<1>8. Due' BY <1>1, <1>4, <1>6, <1>7 DEF LinkInv, Due
<1>9. Awaited' BY <1>1 DEF Awaited
<1>10. Link!TypeOK' BY <1>1, <1>6 DEF LinkInv, Link!TypeOK
<1> QED BY <1>1, <1>8, <1>9, <1>10 DEF LinkInv, Link!AnswerIsOwn

LEMMA LinkStep == LinkInv /\ [Link!Next]_lVars => LinkInv'
<1> SUFFICES ASSUME LinkInv, [Link!Next]_lVars PROVE LinkInv' OBVIOUS
<1>1. CASE Link!HandOut \/ Link!Call \/ Link!Look \/ Link!Acknowledge \/ Link!ReadNothing
  <2> USE DEF Link!HandOut, Link!Call, Link!Look, Link!Acknowledge, Link!ReadNothing, Link!chip, Link!history
  <2>1. UNCHANGED <<l_fifo, l_owed, l_reqId, l_answered>> /\ (l_op' = "command" => l_op = "command") BY <1>1
  <2>2. Answers' = Answers /\ \A j \in Answers : l_fifo'[j] = l_fifo[j] BY <2>1 DEF Answers
  <2>3. Due' /\ Awaited' BY <2>1, <2>2, LinkAsBefore
  <2>4. {l_seen', l_draining', l_ready', l_handed', l_resynced'} \subseteq BOOLEAN
    <3>1. {l_seen, l_draining, l_ready, l_handed, l_resynced} \subseteq BOOLEAN BY DEF LinkInv, Link!TypeOK
    <3>2. CASE Link!HandOut BY <3>1, <3>2
    <3>3. CASE Link!Call BY <3>1, <3>3
    <3>4. CASE Link!Look BY <3>1, <3>4
    <3>5. CASE Link!Acknowledge BY <3>1, <3>5
    <3>6. CASE Link!ReadNothing BY <3>1, <3>6
    <3> QED BY <1>1, <3>2, <3>3, <3>4, <3>5, <3>6
  <2>5. l_op' \in {"idle", "recv", "event", "command"} /\ l_glom' \in 0..2
    BY <1>1 DEF LinkInv, Link!TypeOK
  <2>6. Link!TypeOK' BY <2>1, <2>4, <2>5 DEF LinkInv, Link!TypeOK
  <2> QED BY <2>1, <2>3, <2>6 DEF LinkInv, Link!AnswerIsOwn
<1>2. CASE Link!ReadData \/ Link!ReadControl \/ Link!ReadBad
  <2> USE DEF Link!ReadData, Link!ReadControl, Link!ReadBad, Link!Reads
  <2>1. /\ l_fifo # <<>> /\ l_fifo' = Tail(l_fifo) /\ UNCHANGED <<l_owed, l_reqId, l_seen, l_ready>>
        /\ (l_op' = "command" => l_op = "command") /\ l_op' \in {"idle", l_op} /\ l_glom' \in 0..2
    <3>1. CASE Link!ReadData BY <3>1
    <3>2. CASE Link!ReadControl BY <3>2
    <3>3. CASE Link!ReadBad BY <3>3
    <3> QED BY <1>2, <3>1, <3>2, <3>3
  <2>2. l_fifo' \in Seq(Link!Frame) /\ Due' /\ Awaited' /\ Head(l_fifo) = l_fifo[1] /\ 1 \in DOMAIN l_fifo
    BY <2>1, LinkShortens
  <2>3. l_answered' = l_answered
    <3>1. CASE Link!ReadControl
      <4>1. l_op = "command" /\ Head(l_fifo).kind = "control" /\ Head(l_fifo).id = l_reqId => ~Head(l_fifo).late
        BY <2>2 DEF LinkInv, Awaited, Answers
      <4> QED BY <3>1, <4>1
    <3>2. CASE Link!ReadData BY <3>2
    <3>3. CASE Link!ReadBad BY <3>3
    <3> QED BY <1>2, <3>1, <3>2, <3>3
  <2>4. {l_draining', l_handed', l_resynced'} \subseteq BOOLEAN
    <3>1. {l_draining, l_handed, l_resynced} \subseteq BOOLEAN BY DEF LinkInv, Link!TypeOK
    <3>2. CASE Link!ReadData BY <3>1, <3>2
    <3>3. CASE Link!ReadControl BY <3>1, <3>3
    <3>4. CASE Link!ReadBad BY <3>1, <3>4
    <3> QED BY <1>2, <3>2, <3>3, <3>4
  <2>5. Link!TypeOK' BY <2>1, <2>2, <2>3, <2>4 DEF LinkInv, Link!TypeOK
  <2> QED BY <2>2, <2>3, <2>5 DEF LinkInv, Link!AnswerIsOwn
<1>3. CASE UNCHANGED lVars
  <2>1. Answers' = Answers BY <1>3 DEF lVars, Answers
  <2> QED BY <1>3, <2>1 DEF lVars, LinkInv, Link!TypeOK, Link!AnswerIsOwn, Due, Awaited
<1> QED BY <1>1, <1>2, <1>3, LinkTraffic, LinkAnswer, LinkCommand, LinkTimesOut
        DEF Link!Next, Link!Receive

HIDE LinkAssumption

-----------------------------------------------------------------------------
(* NVMe. *)

\* The places of a ring from one up to another.
Between(head, tail, size) == {i \in 0..(size - 1) : IF head <= tail THEN head <= i /\ i < tail
                                                    ELSE head <= i \/ i < tail}

\* What the controller has not fetched, and what the driver has not taken.
Pushed == Between(n_sqHead, n_sqDoor, Slots)
Posted == Between(n_cqHead, n_cqTail, CqEntries)

\* The phase bits tell the entries of this round from those of the one before.
Marked == \A j \in 0..(CqEntries - 1) : n_cq[j].phase = IF j < n_cqTail THEN n_cqPhase ELSE ~n_cqPhase
InRound == n_phase = IF n_cqHead <= n_cqTail THEN n_cqPhase ELSE ~n_cqPhase

\* Of what is in flight, only the command waited for has its identifier.
Identified == n_job = "wait" =>
                /\ \A j \in Pushed : n_sq[j].id = n_id => n_sq[j].own
                /\ \A c \in n_work : c.id = n_id => c.own
                /\ \A j \in Posted : n_cq[j].id = n_id => n_cq[j].own

\* Until one is late, a command is in flight only while it is waited for, and in one place.
Pushes == n_sqDoor = (n_sqHead + 1) % Slots /\ n_work = {} /\ n_cqHead = n_cqTail /\ n_sq[n_sqHead].own
Works == n_sqHead = n_sqDoor /\ n_cqHead = n_cqTail /\ \E c \in n_work : n_work = {c} /\ c.own
Posts == n_sqHead = n_sqDoor /\ n_work = {} /\ n_cqTail = (n_cqHead + 1) % CqEntries /\ n_cq[n_cqHead].own
Rests == n_sqHead = n_sqDoor /\ n_work = {} /\ n_cqHead = n_cqTail
OneByOne == ~n_late => n_wrong = {} /\ IF n_job = "wait" THEN Pushes \/ Works \/ Posts ELSE Rests

NvmeInv == /\ Nvme!TypeOK /\ IsFiniteSet(n_work) /\ n_sqTail = n_sqDoor /\ n_cqDoor = n_cqHead
           /\ (n_job = "wait" => n_left > 0) /\ Marked /\ InRound /\ Identified /\ OneByOne /\ Nvme!OkIsOwn

LEMMA RingEnds ==
  ASSUME NEW N \in Nat \ {0}, NEW h \in 0..(N - 1), NEW t \in 0..(N - 1)
  PROVE  /\ (h + 1) % N \in 0..(N - 1)
         /\ h # t => h \in Between(h, t, N) /\ Between((h + 1) % N, t, N) \subseteq Between(h, t, N)
         /\ (t + 1) % N # h => Between(h, (t + 1) % N, N) \subseteq Between(h, t, N) \cup {t}
         /\ t \notin Between(h, t, N)
<1>1. /\ (h + 1) % N = IF h + 1 = N THEN 0 ELSE h + 1
      /\ (t + 1) % N = IF t + 1 = N THEN 0 ELSE t + 1
  BY NextPlace
<1>2. (h + 1) % N \in 0..(N - 1) BY <1>1
<1>3. h # t => h \in Between(h, t, N) BY DEF Between
<1>4. h # t => Between((h + 1) % N, t, N) \subseteq Between(h, t, N) BY <1>1 DEF Between
<1>5. (t + 1) % N # h => Between(h, (t + 1) % N, N) \subseteq Between(h, t, N) \cup {t}
  BY <1>1 DEF Between
<1>6. t \notin Between(h, t, N) BY DEF Between
<1> QED BY <1>2, <1>3, <1>4, <1>5, <1>6

\* The places between are the ones so many steps on from the first.
LEMMA Reached ==
  ASSUME NEW N \in Nat \ {0}, NEW h \in 0..(N - 1), NEW t \in 0..(N - 1),
         NEW i \in Between(h, t, N)
  PROVE  \E k \in 0..(((t + N - h) % N) - 1) : i = (h + k) % N
<1>1. (t + N - h) % N = IF t >= h THEN t - h ELSE t + N - h BY Apart
<1>2. i \in 0..(N - 1) BY DEF Between
<1> DEFINE k == IF h <= i THEN i - h ELSE i + N - h
           y == h + k
<1>3. k \in 0..(((t + N - h) % N) - 1) BY <1>1, <1>2 DEF Between
<1>4. y \in Nat /\ y = (IF h <= i THEN i ELSE i + N) BY <1>2
<1> HIDE DEF y
<1>5. (y < N => y % N = y) /\ (N <= y /\ y < 2 * N => y % N = y - N) BY <1>4, TurnsOver
<1>6. i = y % N BY <1>2, <1>4, <1>5
<1> QED BY <1>3, <1>6 DEF y

USE NvmeAssumption

LEMMA NvmeInit == Nvme!Init => NvmeInv
<1> SUFFICES ASSUME Nvme!Init PROVE NvmeInv OBVIOUS
<1> USE DEF Nvme!Init
<1>1. Nvme!TypeOK
  <2>1. n_sq \in [0..(Slots - 1) -> Nvme!Command] BY DEF Nvme!NoCommand, Nvme!Command
  <2>2. n_cq \in [0..(CqEntries - 1) -> [id: 0..Ids, own: BOOLEAN, phase: BOOLEAN, ok: BOOLEAN]] OBVIOUS
  <2>3. {n_phase, n_cqPhase, n_late} \subseteq BOOLEAN BY Zenon
  <2>4. /\ n_job = "idle" /\ n_left \in 0..MaxChunks /\ n_id \in 0..(Ids - 1) /\ n_nextId \in 0..(Ids - 1)
        /\ {n_sqTail, n_sqDoor, n_sqHead} \subseteq 0..(Slots - 1)
        /\ {n_cqHead, n_cqDoor, n_cqTail} \subseteq 0..(CqEntries - 1)
    OBVIOUS
  <2> QED BY <2>1, <2>2, <2>3, <2>4 DEF Nvme!TypeOK
<1>2. IsFiniteSet(n_work) BY FS_EmptySet
<1>3. Marked
  <2>1. \A j \in 0..(CqEntries - 1) : n_cq[j].phase = FALSE /\ ~(j < n_cqTail) OBVIOUS
  <2>2. n_cqPhase = TRUE OBVIOUS
  <2> QED BY <2>1, <2>2, Zenon DEF Marked
<1>4. InRound
  <2>1. n_cqHead <= n_cqTail OBVIOUS
  <2> QED BY <2>1, Zenon DEF InRound
<1>5. Identified /\ OneByOne BY DEF Identified, OneByOne, Rests
<1>6. Nvme!OkIsOwn BY DEF Nvme!OkIsOwn
<1> QED BY <1>1, <1>2, <1>3, <1>4, <1>5, <1>6 DEF NvmeInv

\* What the places and the commands are.
NvmeTypes == /\ n_sqHead \in 0..(Slots - 1) /\ n_sqDoor \in 0..(Slots - 1) /\ n_sqTail = n_sqDoor
             /\ n_cqHead \in 0..(CqEntries - 1) /\ n_cqTail \in 0..(CqEntries - 1)
             /\ n_cqDoor = n_cqHead

LEMMA NvmePlaces == NvmeInv => NvmeTypes
BY DEF NvmeInv, Nvme!TypeOK, NvmeTypes

LEMMA NvmeFetch == NvmeInv /\ Nvme!Fetch => NvmeInv'
<1> SUFFICES ASSUME NvmeInv, Nvme!Fetch PROVE NvmeInv' OBVIOUS
<1> USE DEF Nvme!Fetch, Nvme!driver
<1>0. NvmeTypes /\ Nvme!TypeOK BY NvmePlaces DEF NvmeInv
<1>1. /\ n_sqHead' \in 0..(Slots - 1) /\ n_sqHead \in Pushed /\ Pushed' \subseteq Pushed
  BY <1>0, RingEnds DEF Pushed, NvmeTypes
<1>2. Nvme!TypeOK' BY <1>0, <1>1 DEF Nvme!TypeOK
<1>3. IsFiniteSet(n_work') BY FS_AddElement DEF NvmeInv
<1>4. Marked' /\ InRound' BY DEF NvmeInv, Marked, InRound
<1>5. Posted' = Posted BY DEF Posted
<1>6. Identified' BY <1>1, <1>5 DEF NvmeInv, Identified
<1>7. OneByOne'
  <2> SUFFICES ASSUME ~n_late PROVE OneByOne' BY DEF OneByOne
  <2>1. n_job = "wait" /\ Pushes BY DEF NvmeInv, OneByOne, Rests, Works, Posts
  <2>2. n_sqHead' = n_sqDoor /\ n_work' = {n_sq[n_sqHead]} /\ n_sq[n_sqHead].own
    BY <2>1 DEF Pushes
  <2>3. Works' BY <2>1, <2>2 DEF Pushes, Works
  <2> QED BY <2>1, <2>3 DEF NvmeInv, OneByOne
<1>8. Nvme!OkIsOwn' BY DEF NvmeInv, Nvme!OkIsOwn
<1> QED BY <1>2, <1>3, <1>4, <1>6, <1>7, <1>8 DEF NvmeInv

LEMMA NvmeComplete == NvmeInv /\ Nvme!Complete => NvmeInv'
<1> SUFFICES ASSUME NvmeInv, Nvme!Complete PROVE NvmeInv' OBVIOUS
<1> USE DEF Nvme!driver
<1>0. NvmeTypes /\ Nvme!TypeOK BY NvmePlaces DEF NvmeInv
<1>1. PICK c \in n_work, ok \in BOOLEAN :
        /\ n_work' = n_work \ {c}
        /\ n_cq' = [n_cq EXCEPT ![n_cqTail] = [id |-> c.id, own |-> c.own, phase |-> n_cqPhase, ok |-> ok]]
  BY DEF Nvme!Complete
<1>2. /\ n_cqTail' = (n_cqTail + 1) % CqEntries /\ n_cqTail' # n_cqHead
      /\ n_cqPhase' = IF n_cqTail + 1 = CqEntries THEN ~n_cqPhase ELSE n_cqPhase
      /\ UNCHANGED <<Nvme!driver, n_sqHead, n_late, n_wrong>>
  BY <1>0 DEF Nvme!Complete, NvmeTypes
<1>3. /\ n_cqTail' \in 0..(CqEntries - 1) /\ Posted' \subseteq Posted \cup {n_cqTail}
      /\ n_cqTail \notin Posted
      /\ n_cqTail' = IF n_cqTail + 1 = CqEntries THEN 0 ELSE n_cqTail + 1
  BY <1>0, <1>2, RingEnds, NextPlace DEF Posted, NvmeTypes
<1>4. c \in [id: 0..Ids, own: BOOLEAN] BY <1>0 DEF Nvme!TypeOK, Nvme!Command
<1>5. /\ n_cq' \in [0..(CqEntries - 1) -> [id: 0..Ids, own: BOOLEAN, phase: BOOLEAN, ok: BOOLEAN]]
      /\ n_cq'[n_cqTail] = [id |-> c.id, own |-> c.own, phase |-> n_cqPhase, ok |-> ok]
      /\ \A j \in 0..(CqEntries - 1) : j # n_cqTail => n_cq'[j] = n_cq[j]
  BY <1>0, <1>1, <1>4 DEF Nvme!TypeOK, NvmeTypes
<1>6. Nvme!TypeOK'
  <2>1. n_cqPhase' \in BOOLEAN BY <1>0, <1>2 DEF Nvme!TypeOK
  <2>2. n_work' \subseteq n_work BY <1>1
  <2> QED BY <1>0, <1>2, <1>3, <1>5, <2>1, <2>2 DEF Nvme!TypeOK
<1>7. IsFiniteSet(n_work') BY <1>1, FS_RemoveElement DEF NvmeInv
<1>8. Marked'
  <2> SUFFICES ASSUME NEW j \in 0..(CqEntries - 1)
               PROVE  n_cq'[j].phase = IF j < n_cqTail' THEN n_cqPhase' ELSE ~n_cqPhase'
    BY DEF Marked
  <2>1. n_cq[j].phase = IF j < n_cqTail THEN n_cqPhase ELSE ~n_cqPhase BY DEF NvmeInv, Marked
  <2>2. n_cq'[j].phase = IF j < n_cqTail \/ j = n_cqTail THEN n_cqPhase ELSE ~n_cqPhase
    <3>1. CASE j = n_cqTail BY <1>5, <3>1
    <3>2. CASE j # n_cqTail BY <1>5, <2>1, <3>2
    <3> QED BY <3>1, <3>2
  <2>3. CASE n_cqTail + 1 = CqEntries
    <3>1. (j < n_cqTail \/ j = n_cqTail) /\ ~(j < n_cqTail') BY <1>0, <1>3, <2>3 DEF NvmeTypes
    <3>2. n_cqPhase' = ~n_cqPhase BY <1>2, <2>3
    <3>3. n_cqPhase \in BOOLEAN BY <1>0 DEF Nvme!TypeOK
    <3> QED BY <2>2, <3>1, <3>2, <3>3, Zenon
  <2>4. CASE n_cqTail + 1 # CqEntries
    <3>1. (j < n_cqTail \/ j = n_cqTail) <=> j < n_cqTail' BY <1>0, <1>3, <2>4 DEF NvmeTypes
    <3>2. n_cqPhase' = n_cqPhase BY <1>2, <2>4
    <3> QED BY <2>2, <3>1, <3>2, Zenon
  <2> QED BY <2>3, <2>4
<1>9. InRound'
  <2>1. n_phase' = n_phase /\ n_cqHead' = n_cqHead BY <1>2
  <2>2. n_phase = IF n_cqHead <= n_cqTail THEN n_cqPhase ELSE ~n_cqPhase BY DEF NvmeInv, InRound
  <2>3. CASE n_cqTail + 1 = CqEntries
    <3>1. n_cqHead <= n_cqTail /\ ~(n_cqHead <= n_cqTail') BY <1>0, <1>2, <1>3, <2>3 DEF NvmeTypes
    <3>2. n_cqPhase' = ~n_cqPhase BY <1>2, <2>3
    <3>3. n_cqPhase \in BOOLEAN BY <1>0 DEF Nvme!TypeOK
    <3> QED BY <2>1, <2>2, <3>1, <3>2, <3>3, Zenon DEF InRound
  <2>4. CASE n_cqTail + 1 # CqEntries
    <3>1. (n_cqHead <= n_cqTail) <=> n_cqHead <= n_cqTail'
      BY <1>0, <1>2, <1>3, <2>4 DEF NvmeTypes
    <3>2. n_cqPhase' = n_cqPhase BY <1>2, <2>4
    <3> QED BY <2>1, <2>2, <3>1, <3>2, Zenon DEF InRound
  <2> QED BY <2>3, <2>4
<1>10. Pushed' = Pushed BY <1>2 DEF Pushed
<1>11. Identified'
  <2> SUFFICES ASSUME n_job = "wait" PROVE Identified' BY <1>2 DEF Identified
  <2>1. \A j \in Posted' : n_cq'[j].id = n_id => n_cq'[j].own
    <3> SUFFICES ASSUME NEW j \in Posted', n_cq'[j].id = n_id PROVE n_cq'[j].own OBVIOUS
    <3>1. j \in 0..(CqEntries - 1) BY DEF Posted, Between
    <3>2. CASE j = n_cqTail BY <1>5, <3>2 DEF NvmeInv, Identified
    <3>3. CASE j # n_cqTail BY <1>3, <1>5, <3>1, <3>3 DEF NvmeInv, Identified
    <3> QED BY <3>2, <3>3
  <2> QED BY <1>1, <1>2, <1>10, <2>1 DEF NvmeInv, Identified
<1>12. OneByOne'
  <2> SUFFICES ASSUME ~n_late PROVE OneByOne' BY <1>2 DEF OneByOne
  <2>1. n_job = "wait" /\ Works BY DEF NvmeInv, OneByOne, Rests, Pushes, Posts
  <2>2. n_work = {c} /\ c.own BY <2>1 DEF Works
  <2>3. n_cq'[n_cqHead'].own BY <1>2, <1>5, <2>1, <2>2 DEF Works
  <2>4. Posts' BY <1>1, <1>2, <2>1, <2>2, <2>3 DEF Works, Posts
  <2> QED BY <1>2, <2>1, <2>4 DEF NvmeInv, OneByOne
<1>13. Nvme!OkIsOwn' BY <1>2 DEF NvmeInv, Nvme!OkIsOwn
<1> QED BY <1>2, <1>6, <1>7, <1>8, <1>9, <1>11, <1>12, <1>13 DEF NvmeInv

LEMMA NvmeStart == NvmeInv /\ Nvme!Start => NvmeInv'
<1> SUFFICES ASSUME NvmeInv, Nvme!Start PROVE NvmeInv' OBVIOUS
<1> USE DEF Nvme!Start, Nvme!controller
<1>1. Nvme!TypeOK' BY DEF NvmeInv, Nvme!TypeOK
<1>2. Marked' /\ InRound' BY DEF NvmeInv, Marked, InRound
<1>3. Identified' BY DEF Identified
<1>4. OneByOne' BY DEF NvmeInv, OneByOne, Rests
<1> QED BY <1>1, <1>2, <1>3, <1>4 DEF NvmeInv, Nvme!OkIsOwn

LEMMA NvmeSubmit == NvmeInv /\ Nvme!Submit => NvmeInv'
<1> SUFFICES ASSUME NvmeInv, Nvme!Submit PROVE NvmeInv' OBVIOUS
<1>0. NvmeTypes /\ Nvme!TypeOK BY NvmePlaces DEF NvmeInv
<1> DEFINE pushed == (n_sqDoor + Slots - n_sqHead) % Slots
           posted == (n_cqTail + CqEntries - n_cqHead) % CqEntries
           worked == Cardinality(n_work)
<1>1. /\ n_job = "submit" /\ Nvme!InFlight < Slots - 1 /\ n_nextId \notin Nvme!Identifiers
      /\ n_id' = n_nextId /\ n_nextId' = (n_nextId + 1) % Ids
      /\ n_sq' = [n_sq EXCEPT ![n_sqTail] = [id |-> n_nextId, own |-> TRUE]]
      /\ n_sqTail' = (n_sqTail + 1) % Slots /\ n_sqDoor' = n_sqTail'
      /\ n_job' = "wait"
      /\ UNCHANGED <<n_left, n_cqHead, n_phase, n_cqDoor, n_sqHead, n_cqTail, n_cqPhase, n_work, n_cq>>
      /\ UNCHANGED <<n_late, n_wrong>>
  BY DEF Nvme!Submit, Nvme!controller
<1>2. /\ pushed = IF n_sqDoor >= n_sqHead THEN n_sqDoor - n_sqHead ELSE n_sqDoor + Slots - n_sqHead
      /\ posted = IF n_cqTail >= n_cqHead THEN n_cqTail - n_cqHead ELSE n_cqTail + CqEntries - n_cqHead
  BY <1>0, Apart DEF NvmeTypes
<1>3. worked \in Nat BY FS_CardinalityType DEF NvmeInv
<1>4. Nvme!InFlight = worked + pushed + posted BY DEF Nvme!InFlight, Nvme!Cardinality, Cardinality
<1>5. n_sqDoor' = IF n_sqDoor + 1 = Slots THEN 0 ELSE n_sqDoor + 1
  BY <1>0, <1>1, NextPlace DEF NvmeTypes
<1>6. n_sqDoor' \in 0..(Slots - 1) /\ n_sqDoor' # n_sqHead
  <2> HIDE DEF worked, pushed, posted
  <2> QED BY <1>0, <1>1, <1>2, <1>3, <1>4, <1>5 DEF NvmeTypes
<1>7. Pushed' \subseteq Pushed \cup {n_sqDoor} /\ n_sqDoor \notin Pushed
  BY <1>0, <1>1, <1>6, RingEnds DEF Pushed, NvmeTypes
<1>8. /\ \A j \in Pushed : n_sq[j].id # n_nextId
      /\ \A c \in n_work : c.id # n_nextId
      /\ \A j \in Posted : n_cq[j].id # n_nextId
  <2>1. ASSUME NEW j \in Pushed PROVE n_sq[j].id # n_nextId
    <3>1. PICK k \in 0..(pushed - 1) : j = (n_sqHead + k) % Slots
      BY <1>0, Reached DEF Pushed, NvmeTypes
    <3>2. n_sq[(n_sqHead + k) % Slots].id \in Nvme!Identifiers BY <3>1 DEF Nvme!Identifiers
    <3> QED BY <1>1, <3>1, <3>2
  <2>2. ASSUME NEW j \in Posted PROVE n_cq[j].id # n_nextId
    <3>1. PICK k \in 0..(posted - 1) : j = (n_cqHead + k) % CqEntries
      BY <1>0, Reached DEF Posted, NvmeTypes
    <3>2. n_cq[(n_cqHead + k) % CqEntries].id \in Nvme!Identifiers BY <3>1 DEF Nvme!Identifiers
    <3> QED BY <1>1, <3>1, <3>2
  <2>3. \A c \in n_work : c.id # n_nextId BY <1>1 DEF Nvme!Identifiers
  <2> QED BY <2>1, <2>2, <2>3
<1>9. /\ n_sq' \in [0..(Slots - 1) -> Nvme!Command]
      /\ n_sq'[n_sqDoor] = [id |-> n_nextId, own |-> TRUE]
      /\ \A j \in 0..(Slots - 1) : j # n_sqDoor => n_sq'[j] = n_sq[j]
  BY <1>0, <1>1 DEF Nvme!TypeOK, NvmeTypes, Nvme!Command
<1>10. n_nextId' \in 0..(Ids - 1)
  <2>1. n_nextId \in 0..(Ids - 1) BY <1>0 DEF Nvme!TypeOK
  <2>2. (n_nextId + 1) % Ids = IF n_nextId + 1 = Ids THEN 0 ELSE n_nextId + 1 BY <2>1, NextPlace
  <2> QED BY <1>1, <2>1, <2>2
<1>11. Nvme!TypeOK' BY <1>0, <1>1, <1>6, <1>9, <1>10 DEF Nvme!TypeOK, NvmeTypes
<1>12. Marked' /\ InRound' BY <1>1 DEF NvmeInv, Marked, InRound
<1>13. Identified'
  <2>1. Posted' = Posted BY <1>1 DEF Posted
  <2>2. \A j \in Pushed' : n_sq'[j].id = n_id' => n_sq'[j].own
    <3> SUFFICES ASSUME NEW j \in Pushed', n_sq'[j].id = n_id' PROVE n_sq'[j].own OBVIOUS
    <3>1. j \in 0..(Slots - 1) BY DEF Pushed, Between
    <3>2. CASE j = n_sqDoor BY <1>9, <3>2
    <3>3. CASE j # n_sqDoor BY <1>1, <1>7, <1>8, <1>9, <3>1, <3>3
    <3> QED BY <3>2, <3>3
  <2> QED BY <1>1, <1>8, <2>1, <2>2 DEF Identified
<1>14. OneByOne'
  <2> SUFFICES ASSUME ~n_late PROVE OneByOne' BY <1>1 DEF OneByOne
  <2>1. Rests BY <1>1 DEF NvmeInv, OneByOne
  <2>2. n_sq'[n_sqHead'].own BY <1>1, <1>9, <2>1 DEF Rests
  <2>3. Pushes' BY <1>0, <1>1, <2>1, <2>2 DEF Rests, Pushes, NvmeTypes
  <2> QED BY <1>1, <2>3 DEF NvmeInv, OneByOne
<1>15. Nvme!OkIsOwn' BY <1>1 DEF NvmeInv, Nvme!OkIsOwn
<1>16. n_left' > 0 BY DEF Nvme!Submit
<1> QED BY <1>0, <1>1, <1>11, <1>12, <1>13, <1>14, <1>15, <1>16 DEF NvmeInv, NvmeTypes

\* A transfer that is given up changes no place and no phase.
LEMMA NvmeGivesUp ==
  ASSUME NvmeInv, Nvme!GivesUp,
         UNCHANGED <<n_cqTail, n_cqPhase, n_sqHead, n_sqDoor, n_sqTail>>
  PROVE  /\ n_sq' \in [0..(Slots - 1) -> Nvme!Command] /\ n_work' \subseteq Nvme!Command
         /\ n_cq' \in [0..(CqEntries - 1) -> [id: 0..Ids, own: BOOLEAN, phase: BOOLEAN, ok: BOOLEAN]]
         /\ IsFiniteSet(n_work') /\ Marked' /\ (n_work = {} => n_work' = {})
<1> USE DEF Nvme!GivesUp, Nvme!Stale
<1>0. Nvme!TypeOK BY DEF NvmeInv
<1>1. n_sq' \in [0..(Slots - 1) -> Nvme!Command] BY <1>0, ZenonT(30) DEF Nvme!TypeOK, Nvme!Command
<1>2. n_work' \subseteq Nvme!Command
  <2>1. \A d \in Nvme!Command : [d EXCEPT !.own = FALSE] \in Nvme!Command BY DEF Nvme!Command
  <2>2. n_work \subseteq Nvme!Command BY <1>0 DEF Nvme!TypeOK
  <2> QED BY <2>1, <2>2
<1>3. n_cq' \in [0..(CqEntries - 1) -> [id: 0..Ids, own: BOOLEAN, phase: BOOLEAN, ok: BOOLEAN]]
  BY <1>0 DEF Nvme!TypeOK
<1>4. IsFiniteSet(n_work')
  <2> DEFINE s == [d \in n_work |-> [d EXCEPT !.own = FALSE]]
  <2>1. s \in Surjection(n_work, n_work') BY DEF Surjection
  <2>2. IsFiniteSet(n_work) BY DEF NvmeInv
  <2> HIDE DEF s
  <2> QED BY <2>1, <2>2, FS_Surjection
<1>5. \A j \in 0..(CqEntries - 1) : n_cq'[j].phase = n_cq[j].phase BY <1>0 DEF Nvme!TypeOK
<1>6. Marked' BY <1>5 DEF NvmeInv, Marked
<1> QED BY <1>1, <1>2, <1>3, <1>4, <1>6

LEMMA NvmeTimesOut == NvmeInv /\ Nvme!TimesOut => NvmeInv'
<1> SUFFICES ASSUME NvmeInv, Nvme!TimesOut PROVE NvmeInv' OBVIOUS
<1>1. /\ n_job' = "error" /\ n_late' = TRUE /\ Nvme!GivesUp
      /\ UNCHANGED <<n_left, n_id, n_nextId, n_sqTail, n_cqHead, n_phase, n_sqDoor, n_cqDoor, n_sqHead>>
      /\ UNCHANGED <<n_cqTail, n_cqPhase, n_wrong>>
  BY DEF Nvme!TimesOut
<1>2. /\ n_sq' \in [0..(Slots - 1) -> Nvme!Command] /\ n_work' \subseteq Nvme!Command
      /\ n_cq' \in [0..(CqEntries - 1) -> [id: 0..Ids, own: BOOLEAN, phase: BOOLEAN, ok: BOOLEAN]]
      /\ IsFiniteSet(n_work') /\ Marked'
  BY <1>1, NvmeGivesUp
<1>3. n_late' \in BOOLEAN BY <1>1, Zenon
<1>4. Nvme!TypeOK' BY <1>1, <1>2, <1>3 DEF NvmeInv, Nvme!TypeOK
<1>5. InRound' BY <1>1 DEF NvmeInv, InRound
<1>6. Identified' /\ OneByOne' BY <1>1 DEF Identified, OneByOne
<1> QED BY <1>1, <1>2, <1>4, <1>5, <1>6 DEF NvmeInv, Nvme!OkIsOwn

LEMMA NvmeTake == NvmeInv /\ Nvme!Take => NvmeInv'
<1> SUFFICES ASSUME NvmeInv, Nvme!Take PROVE NvmeInv' OBVIOUS
<1>0. NvmeTypes /\ Nvme!TypeOK BY NvmePlaces DEF NvmeInv
<1> DEFINE c == n_cq[n_cqHead]
           good == c.ok /\ c.id = n_id
<1>1. /\ n_job = "wait" /\ c.phase = n_phase
      /\ n_cqHead' = (n_cqHead + 1) % CqEntries /\ n_cqDoor' = n_cqHead'
      /\ n_phase' = IF n_cqHead + 1 = CqEntries THEN ~n_phase ELSE n_phase
      /\ n_left' = IF good THEN n_left - 1 ELSE n_left
      /\ n_job' = IF ~good THEN "error" ELSE IF n_left = 1 THEN "ok" ELSE "submit"
      /\ n_wrong' = IF c.own THEN n_wrong ELSE n_wrong \cup {IF good THEN "ok" ELSE "error"}
      /\ IF good THEN UNCHANGED <<n_sq, n_work, n_cq>> ELSE Nvme!GivesUp
      /\ UNCHANGED <<n_id, n_nextId, n_sqTail, n_sqDoor, n_sqHead, n_cqTail, n_cqPhase, n_late>>
  BY DEF Nvme!Take, Nvme!Advance
<1>2. c \in [id: 0..Ids, own: BOOLEAN, phase: BOOLEAN, ok: BOOLEAN]
  BY <1>0 DEF NvmeTypes, Nvme!TypeOK
<1>3. n_cqHead' = IF n_cqHead + 1 = CqEntries THEN 0 ELSE n_cqHead + 1
  BY <1>0, <1>1, NextPlace DEF NvmeTypes
<1>4. n_phase \in BOOLEAN /\ n_cqPhase \in BOOLEAN BY <1>0 DEF Nvme!TypeOK
<1>5. n_cqHead # n_cqTail
  <2> SUFFICES ASSUME n_cqHead = n_cqTail PROVE FALSE OBVIOUS
  <2>1. ~(n_cqHead < n_cqTail) /\ n_cqHead <= n_cqTail /\ n_cqHead \in 0..(CqEntries - 1)
    BY <1>0 DEF NvmeTypes
  <2>2. c.phase = ~n_cqPhase BY <2>1, Zenon DEF NvmeInv, Marked
  <2>3. n_phase = n_cqPhase BY <2>1, Zenon DEF NvmeInv, InRound
  <2>4. c.phase = n_phase BY <1>1
  <2> HIDE DEF c
  <2> QED BY <1>4, <2>2, <2>3, <2>4
<1>6. n_cqHead \in Posted BY <1>0, <1>5, RingEnds DEF Posted, NvmeTypes
<1>7. good => c.own BY <1>1, <1>6 DEF NvmeInv, Identified
<1>8. /\ n_sq' \in [0..(Slots - 1) -> Nvme!Command] /\ n_work' \subseteq Nvme!Command
      /\ n_cq' \in [0..(CqEntries - 1) -> [id: 0..Ids, own: BOOLEAN, phase: BOOLEAN, ok: BOOLEAN]]
      /\ IsFiniteSet(n_work') /\ Marked' /\ (n_work = {} => n_work' = {})
  <2>1. CASE good
    <3>1. UNCHANGED <<n_sq, n_work, n_cq, n_cqTail, n_cqPhase>> BY <1>1, <2>1
    <3> QED BY <1>0, <3>1 DEF NvmeInv, Nvme!TypeOK, Marked
  <2>2. CASE ~good BY <1>1, <2>2, NvmeGivesUp
  <2> QED BY <2>1, <2>2
<1>9. InRound'
  <2>1. CASE n_cqHead + 1 = CqEntries
    <3>1. ~(n_cqHead <= n_cqTail) /\ n_cqHead' <= n_cqTail BY <1>0, <1>3, <1>5, <2>1 DEF NvmeTypes
    <3>2. n_phase' = ~n_phase BY <1>1, <2>1
    <3>3. n_phase = ~n_cqPhase BY <3>1, Zenon DEF NvmeInv, InRound
    <3> QED BY <1>1, <1>4, <3>1, <3>2, <3>3, Zenon DEF InRound
  <2>2. CASE n_cqHead + 1 # CqEntries
    <3>1. (n_cqHead <= n_cqTail) <=> n_cqHead' <= n_cqTail
      BY <1>0, <1>3, <1>5, <2>2 DEF NvmeTypes
    <3>2. n_phase' = n_phase BY <1>1, <2>2
    <3> QED BY <1>1, <1>4, <3>1, <3>2, Zenon DEF NvmeInv, InRound
  <2> QED BY <2>1, <2>2
<1>10. Nvme!TypeOK'
  <2>1. n_phase' \in BOOLEAN BY <1>1, <1>4, Zenon
  <2>2. n_left' \in 0..MaxChunks BY <1>0, <1>1 DEF NvmeInv, Nvme!TypeOK
  <2>3. n_wrong' \subseteq {"ok", "error"} BY <1>0, <1>1 DEF Nvme!TypeOK
  <2>4. n_job' \in {"ok", "error", "submit"} BY <1>1
  <2>5. n_cqHead' \in 0..(CqEntries - 1) BY <1>0, <1>3 DEF NvmeTypes
  <2> HIDE DEF c, good
  <2> QED BY <1>0, <1>1, <1>8, <2>1, <2>2, <2>3, <2>4, <2>5 DEF Nvme!TypeOK, NvmeTypes
<1>11. n_job' # "wait" BY <1>1
<1>12. Identified' BY <1>11 DEF Identified
<1>13. OneByOne'
  <2> SUFFICES ASSUME ~n_late PROVE OneByOne' BY <1>1 DEF OneByOne
  <2>1. Posts /\ n_wrong = {} BY <1>1, <1>5 DEF NvmeInv, OneByOne, Pushes, Works
  <2>2. c.own BY <2>1 DEF Posts
  <2>3. Rests' BY <1>1, <1>8, <2>1 DEF Posts, Rests
  <2> QED BY <1>1, <1>11, <2>1, <2>2, <2>3 DEF OneByOne
<1>14. Nvme!OkIsOwn' BY <1>1, <1>7 DEF NvmeInv, Nvme!OkIsOwn
<1> QED BY <1>1, <1>8, <1>9, <1>10, <1>12, <1>13, <1>14 DEF NvmeInv

LEMMA NvmeStep == NvmeInv /\ [Nvme!Next]_nVars => NvmeInv'
<1> SUFFICES ASSUME NvmeInv, [Nvme!Next]_nVars PROVE NvmeInv' OBVIOUS
<1>1. CASE UNCHANGED nVars
  <2>1. Pushed' = Pushed /\ Posted' = Posted BY <1>1 DEF nVars, Pushed, Posted
  <2> QED BY <1>1, <2>1 DEF nVars, NvmeInv, Nvme!TypeOK, Nvme!OkIsOwn, Marked, InRound, Identified, OneByOne,
                            Pushes, Works, Posts, Rests
<1> QED BY <1>1, NvmeFetch, NvmeComplete, NvmeStart, NvmeSubmit, NvmeTake, NvmeTimesOut DEF Nvme!Next

HIDE NvmeAssumption

-----------------------------------------------------------------------------
(* A GATT client. *)

GattKinds == {"Services", "Parts"}
GattPdu == [op : {"None", "Other", "GroupRsp", "GroupErr", "GroupFault", "TypeRsp", "TypeErr", "TypeFault"},
            entries : Seq(Gatt!Group)]
GattFragment == [part : {"Whole", "First", "Rest", "Down"}, pdu : GattPdu]
GattRequest == [kind : GattKinds, lo : 1..Top, hi : 1..Top]
GattWalk == [on : BOOLEAN, kind : GattKinds, lo : 1..Top, hi : 1..Top, start : 1..(Top + 1),
             found : Seq(Gatt!Group), asked : BOOLEAN, end : {"None", "Ok", "Overflow", "Error", "Timeout", "Down"},
             clean : BOOLEAN]
GattTyped == /\ a_db \in Databases /\ a_walk \in GattWalk /\ Len(a_walk.found) <= Room
             /\ (a_walk.asked => a_walk.on) /\ (a_walk.on => a_walk.end = "None")
             /\ a_toServer \in Seq(GattRequest) /\ a_toUs \in Seq(GattFragment) /\ a_reasm \in GattPdu
             /\ a_walks \in 0..Walks /\ a_slow \in 0..Slow /\ a_owed \in 0..a_slow /\ a_up \in BOOLEAN

\* A fragment that brings an answer, counted where it begins; an answer to the request of the walk.
Bearing == {f \in GattFragment : f.part \in {"Whole", "First"} /\ Gatt!Answer(f.pdu)}
Fits(pdu, db, w) ==
  LET es == Gatt!Entries(db, w.kind, w.start, w.hi) IN
  \/ pdu.op = Gatt!Rsp(w.kind) /\ \E n \in 1..Len(es) : pdu.entries = SubSeq(es, 1, n)
  \/ pdu.op = Gatt!Err(w.kind) /\ es = <<>>
  \/ pdu.op = Gatt!Fault(w.kind)

\* What has come, and whether all of it is what a walk asks for.
Came(toUs, reasm) == One(Gatt!Answer(reasm)) + Cardinality(Hits(toUs, Bearing))
Fitting(toUs, reasm, db, w) == /\ \A k \in DOMAIN toUs : toUs[k] \in Bearing => Fits(toUs[k].pdu, db, w)
                               /\ Gatt!Answer(reasm) => Fits(reasm, db, w)

\* No more answers are to come than are owed; so those to a walk that began with none owed are its own.
Outstanding == Len(a_toServer) + Came(a_toUs, a_reasm)
NoMoreThanOwed == a_walk.end # "Down" => Outstanding <= a_owed + One(a_walk.asked)
AnswersFit == a_walk.on /\ a_walk.clean =>
  /\ a_owed = 0 /\ Fitting(a_toUs, a_reasm, a_db, a_walk)
  /\ \A k \in DOMAIN a_toServer : a_toServer[k] = [kind |-> a_walk.kind, lo |-> a_walk.start, hi |-> a_walk.hi]
FoundSoFar == a_walk.on /\ a_walk.clean =>
  Gatt!Entries(a_db, a_walk.kind, a_walk.lo, a_walk.hi)
    = a_walk.found \o Gatt!Entries(a_db, a_walk.kind, a_walk.start, a_walk.hi)

GattInv == GattTyped /\ NoMoreThanOwed /\ AnswersFit /\ FoundSoFar /\ Gatt!WalkIsWhole

\* A part of 1..n that has every number below each of its own ends where it counts to.
LEMMA Initial ==
  ASSUME NEW n \in Nat, NEW S \in SUBSET (1..n), \A j, k \in 1..n : j < k /\ k \in S => j \in S
  PROVE  Cardinality(S) \in 0..n /\ S = 1..Cardinality(S)
<1> DEFINE C == {k \in 1..(n + 1) : k \notin S}
<1>1. C \subseteq Nat /\ n + 1 \in C OBVIOUS
<1>2. PICK x \in C : \A y \in C : x <= y BY <1>1, Least
<1>3. x \in 1..(n + 1) /\ x \notin S BY <1>2
<1>4. \A k \in 1..(x - 1) : k \in S BY <1>2, <1>3
<1>5. \A k \in S : k < x BY <1>3
<1>6. S = 1..(x - 1)
  <2>1. \A k \in S : k \in 1..(x - 1) BY <1>3, <1>5
  <2> QED BY <1>4, <2>1
<1>7. Cardinality(1..(x - 1)) = x - 1 BY <1>3, FS_Interval
<1> QED BY <1>3, <1>6, <1>7

LEMMA LastOrNot == \A x \in Nat : \A k \in 1..x : k = x \/ k < x
OBVIOUS

\* The groups of a list that begin below a handle are its first ones.
LEMMA BeforeIs ==
  ASSUME NEW es, Gatt!Ordered(es), NEW h \in Nat
  PROVE  /\ Gatt!Before(es, h) \in 0..Len(es)
         /\ \A k \in DOMAIN es : es[k][1] < h <=> k <= Gatt!Before(es, h)
<1> DEFINE S == {k \in DOMAIN es : es[k][1] < h}
<1>1. es \in Seq(Gatt!Group) /\ Len(es) \in Nat /\ DOMAIN es = 1..Len(es) BY LenProperties DEF Gatt!Ordered
<1>2. \A k \in DOMAIN es : es[k][1] \in Nat /\ es[k][2] \in Nat BY <1>1, AttAssumption, ElementOfSeq DEF Gatt!Group
<1>3. ASSUME NEW j \in DOMAIN es, NEW k \in DOMAIN es, j < k PROVE es[j][1] < es[k][1]
  <2>1. es[j][1] <= es[j][2] /\ es[j][2] < es[k][1] BY <1>3, Zenon DEF Gatt!Ordered
  <2> QED BY <1>2, <2>1
<1>4. \A j, k \in 1..Len(es) : j < k /\ k \in S => j \in S BY <1>1, <1>2, <1>3
<1>5. S \in SUBSET (1..Len(es)) BY <1>1
<1>6. S = {k \in DOMAIN es : es[k][1] < h} OBVIOUS
<1> HIDE DEF S
<1>7. Cardinality(S) \in 0..Len(es) /\ S = 1..Cardinality(S) BY <1>1, <1>4, <1>5, Initial
<1>8. Gatt!Before(es, h) = Cardinality(S) BY <1>6 DEF Gatt!Before, Gatt!Cardinality, Gatt!IsFiniteSet, Cardinality, IsFiniteSet
<1>9. \A k \in DOMAIN es : es[k][1] < h <=> k \in 1..Cardinality(S) BY <1>6, <1>7
<1> QED BY <1>1, <1>7, <1>8, <1>9

\* What a list has in a range, and what is left of it behind its n-th.
Part(es, lo, hi) == SubSeq(es, Gatt!Before(es, lo) + 1, Gatt!Before(es, hi + 1))
LEMMA PartIs ==
  ASSUME NEW es, Gatt!Ordered(es), NEW lo \in Nat, NEW hi \in Nat
  PROVE  /\ Part(es, lo, hi) \in Seq(Gatt!Group) /\ Len(Part(es, lo, hi)) \in Nat
         /\ lo > hi => Part(es, lo, hi) = <<>>
<1> DEFINE b == Gatt!Before(es, lo)
           c == Gatt!Before(es, hi + 1)
<1>1. es \in Seq(Gatt!Group) /\ Len(es) \in Nat /\ DOMAIN es = 1..Len(es) /\ hi + 1 \in Nat
  BY LenProperties DEF Gatt!Ordered
<1>2. b \in 0..Len(es) /\ c \in 0..Len(es) BY <1>1, BeforeIs
<1>3. \A k \in DOMAIN es : (es[k][1] < lo <=> k <= b) /\ (es[k][1] < hi + 1 <=> k <= c) BY <1>1, BeforeIs
<1>4. Part(es, lo, hi) = SubSeq(es, b + 1, c) BY DEF Part
<1>5. \A k \in DOMAIN es : es[k] \in Gatt!Group /\ es[k][1] \in Nat BY <1>1, AttAssumption, ElementOfSeq DEF Gatt!Group
<1> HIDE DEF b, c
<1>6. SubSeq(es, b + 1, c) \in Seq(Gatt!Group)
  <2>1. \A i \in (b + 1)..c : es[i] \in Gatt!Group BY <1>1, <1>2, <1>5
  <2> QED BY <1>2, <2>1, SubSeqProperties
<1>7. ASSUME lo > hi PROVE c <= b
  <2>1. CASE c = 0 BY <1>2, <2>1
  <2>2. CASE c \in DOMAIN es BY <1>2, <1>3, <1>5, <1>7, <2>2
  <2> QED BY <1>1, <1>2, <2>1, <2>2
<1>8. lo > hi => SubSeq(es, b + 1, c) = <<>> BY <1>2, <1>7, SubSeqEmpty
<1> QED BY <1>4, <1>6, <1>8, LenProperties

LEMMA PartGoesOn ==
  ASSUME NEW es, Gatt!Ordered(es), NEW lo \in Nat, NEW hi \in Nat, NEW n \in 1..Len(Part(es, lo, hi))
  PROVE  LET E == Part(es, lo, hi) IN
         /\ E = SubSeq(E, 1, n) \o SubSeq(E, n + 1, Len(E))
         /\ E[n] \in Gatt!Group /\ Part(es, E[n][2] + 1, hi) = SubSeq(E, n + 1, Len(E))
         /\ E[n][2] = Top => n = Len(E)
<1> DEFINE b == Gatt!Before(es, lo)
           c == Gatt!Before(es, hi + 1)
           E == Part(es, lo, hi)
<1>1. es \in Seq(Gatt!Group) /\ Len(es) \in Nat /\ DOMAIN es = 1..Len(es) /\ hi + 1 \in Nat
  BY LenProperties DEF Gatt!Ordered
<1>2. b \in 0..Len(es) /\ c \in 0..Len(es) BY <1>1, BeforeIs
<1>4. E = SubSeq(es, b + 1, c) BY DEF Part
<1>5. E \in Seq(Gatt!Group) /\ Len(E) \in Nat /\ DOMAIN E = 1..Len(E) BY PartIs, LenProperties
<1>6. \A k \in DOMAIN es : es[k] \in Gatt!Group /\ es[k][1] \in 1..Top /\ es[k][2] \in 1..Top
  BY <1>1, ElementOfSeq DEF Gatt!Group
<1>9. n \in 1..Len(E) OBVIOUS
<1> HIDE DEF b, c
<1>7. \A i \in (b + 1)..c : es[i] \in Gatt!Group BY <1>1, <1>2, <1>6
<1>8. Len(E) = c - b /\ b + n <= c /\ \A k \in 1..Len(E) : E[k] = es[b + k]
  <2>1. /\ Len(SubSeq(es, b + 1, c)) = IF b + 1 <= c THEN c - (b + 1) + 1 ELSE 0
        /\ \A i \in 1..(c - (b + 1) + 1) : SubSeq(es, b + 1, c)[i] = es[b + 1 + i - 1]
    BY <1>2, <1>7, SubSeqProperties
  <2> HIDE DEF E
  <2>2. b + 1 <= c /\ Len(E) = c - b BY <1>2, <1>4, <1>9, <2>1
  <2>3. \A i \in 1..Len(E) : E[i] = es[b + i] BY <1>2, <1>4, <2>1, <2>2
  <2> QED BY <1>2, <1>5, <2>2, <2>3 DEF E
<1> HIDE DEF E
<1> DEFINE m == b + n
<1>10. m \in DOMAIN es /\ E[n] = es[m] /\ m <= c BY <1>1, <1>2, <1>8, <1>9
<1>11. E[n] \in Gatt!Group /\ E[n][2] \in 1..Top /\ es[m][1] <= es[m][2] BY <1>6, <1>10 DEF Gatt!Ordered
<1>12. Gatt!Before(es, E[n][2] + 1) = m
  <2> DEFINE h == E[n][2] + 1
             d == Gatt!Before(es, h)
  <2>1. h \in Nat BY <1>11, AttAssumption
  <2>2. d \in 0..Len(es) /\ \A k \in DOMAIN es : es[k][1] < h <=> k <= d BY <1>1, <2>1, BeforeIs
  <2>3. es[m][1] < h BY <1>6, <1>10, <1>11, AttAssumption
  <2>4. ~(es[m + 1][1] < h) \/ m + 1 \notin DOMAIN es
    <3> SUFFICES ASSUME m + 1 \in DOMAIN es PROVE ~(es[m + 1][1] < h) OBVIOUS
    <3>1. m < m + 1 BY <1>1, <1>10
    <3>2. es[m][2] < es[m + 1][1] BY <1>10, <3>1 DEF Gatt!Ordered
    <3> QED BY <1>6, <1>10, <3>2, AttAssumption
  <2> HIDE DEF h, d
  <2>5. m <= d BY <1>10, <2>2, <2>3
  <2>6. ~(m + 1 <= d) BY <1>1, <1>10, <2>2, <2>4
  <2> QED BY <1>1, <1>10, <2>2, <2>5, <2>6 DEF d, h
<1>13. E = SubSeq(E, 1, n) \o SubSeq(E, n + 1, Len(E))
  <2>1. 1 \in 1..(Len(E) + 1) /\ n \in (1 - 1)..Len(E) /\ Len(E) \in n..Len(E) BY <1>5, <1>9
  <2>2. SubSeq(E, 1, n) \o SubSeq(E, n + 1, Len(E)) = SubSeq(E, 1, Len(E)) BY <1>5, <2>1, ConcatAdjacentSubSeq
  <2> QED BY <1>5, <2>2, SubSeqFull
<1>14. Part(es, E[n][2] + 1, hi) = SubSeq(E, n + 1, Len(E))
  <2>1. Part(es, E[n][2] + 1, hi) = SubSeq(es, m + 1, c) BY <1>12 DEF Part, c
  <2>2. CASE n = Len(E)
    <3>1. c < m + 1 /\ Len(E) < n + 1 /\ m + 1 \in Int /\ c \in Int /\ n + 1 \in Int BY <1>2, <1>5, <1>8, <1>9, <2>2
    <3>2. SubSeq(es, m + 1, c) = <<>> /\ SubSeq(E, n + 1, Len(E)) = <<>> BY <1>5, <3>1, SubSeqEmpty
    <3> QED BY <2>1, <3>2
  <2>3. CASE n < Len(E)
    <3> DEFINE l == Len(E) - n
               P == SubSeq(es, m + 1, c)
               Q == SubSeq(E, n + 1, Len(E))
    <3>1. l \in Nat /\ c - (m + 1) + 1 = l /\ Len(E) - (n + 1) + 1 = l /\ m + 1 <= c /\ n + 1 <= Len(E)
          /\ m + 1 \in Int /\ c \in Int /\ n + 1 \in Int /\ Len(E) \in Int
      BY <1>2, <1>5, <1>8, <1>9, <1>10, <2>3
    <3>2. \A i \in (m + 1)..c : es[i] \in Gatt!Group BY <1>2, <1>7, <1>9
    <3>3. P \in Seq(Gatt!Group) /\ Len(P) = l /\ \A i \in 1..l : P[i] = es[m + 1 + i - 1]
      BY <3>1, <3>2, SubSeqProperties, SMTT(30)
    <3>4. \A i \in (n + 1)..Len(E) : E[i] \in Gatt!Group BY <1>5, <1>9, ElementOfSeq
    <3>5. Q \in Seq(Gatt!Group) /\ Len(Q) = l /\ \A i \in 1..l : Q[i] = E[n + 1 + i - 1]
      <4>1. /\ Len(Q) = IF n + 1 <= Len(E) THEN Len(E) - (n + 1) + 1 ELSE 0
            /\ Q \in Seq(Gatt!Group) /\ \A i \in 1..(Len(E) - (n + 1) + 1) : Q[i] = E[n + 1 + i - 1]
        BY <3>1, <3>4, SubSeqProperties
      <4> HIDE DEF Q
      <4> QED BY <3>1, <4>1
    <3>6. \A i \in 1..l : n + 1 + i - 1 \in 1..Len(E) /\ b + (n + 1 + i - 1) = m + 1 + i - 1 BY <1>2, <1>5, <1>9
    <3> HIDE DEF P, Q, l
    <3>7. \A i \in 1..l : P[i] = Q[i]
      <4> SUFFICES ASSUME NEW i \in 1..l PROVE P[i] = Q[i] OBVIOUS
      <4>1. n + 1 + i - 1 \in 1..Len(E) /\ b + (n + 1 + i - 1) = m + 1 + i - 1 BY <3>6
      <4>2. E[n + 1 + i - 1] = es[b + (n + 1 + i - 1)] BY <1>8, <4>1
      <4> QED BY <3>3, <3>5, <4>1, <4>2
    <3>8. P = Q BY <3>3, <3>5, <3>7, SeqEqual
    <3> QED BY <2>1, <3>8 DEF P, Q
  <2>4. n = Len(E) \/ n < Len(E) BY <1>5, <1>9, LastOrNot
  <2> QED BY <2>2, <2>3, <2>4
<1>15. E[n][2] = Top => n = Len(E)
  <2> SUFFICES ASSUME E[n][2] = Top, n < Len(E) PROVE FALSE BY <1>5, <1>9
  <2>1. m + 1 \in DOMAIN es /\ m < m + 1 BY <1>1, <1>2, <1>8, <1>9, <1>10
  <2>2. es[m][2] < es[m + 1][1] BY <1>10, <2>1 DEF Gatt!Ordered
  <2> QED BY <1>6, <1>10, <2>1, <2>2, AttAssumption
<1> QED BY <1>11, <1>13, <1>14, <1>15 DEF E

LEMMA AttRanges ==
  ASSUME NEW d \in Databases, NEW kind \in GattKinds
  PROVE  /\ Gatt!Ordered(d[kind])
         /\ \A lo, hi : Gatt!Entries(d, kind, lo, hi) = Part(d[kind], lo, hi)
<1>1. \A lo, hi : Gatt!Entries(d, kind, lo, hi) = Part(d[kind], lo, hi) BY DEF Gatt!Entries, Part
<1>2. Gatt!Ordered(d[kind])
  <2>1. CASE kind = "Services" BY <2>1, AttAssumption
  <2>2. CASE kind = "Parts" BY <2>2, AttAssumption
  <2> QED BY <2>1, <2>2 DEF GattKinds
<1> QED BY <1>1, <1>2

\* Of a PDU that carries no answer nothing is to come.
LEMMA GattNone == Gatt!None \in GattPdu /\ ~Gatt!Answer(Gatt!None)
<1>1. <<>> \in Seq(Gatt!Group) BY EmptySeq
<1> QED BY <1>1 DEF Gatt!None, GattPdu, Gatt!Answer

LEMMA BearingIs == ASSUME NEW f \in GattFragment
                   PROVE  /\ f.part \in {"Whole", "First", "Rest", "Down"} /\ f.pdu \in GattPdu
                          /\ f \in Bearing <=> f.part \in {"Whole", "First"} /\ Gatt!Answer(f.pdu)
BY DEF Bearing, GattFragment

\* What is polled brings what it brings, and no more comes after it than came.
LEMMA GattFed ==
  ASSUME GattTyped, Gatt!Fed
  PROVE  /\ a_toUs' \in Seq(GattFragment) /\ a_reasm' \in GattPdu
         /\ Gatt!Complete \in GattPdu
         /\ Came(a_toUs, a_reasm) \in Nat /\ Came(a_toUs', a_reasm') \in Nat
         /\ Came(a_toUs', a_reasm') + One(Gatt!Answer(Gatt!Complete)) <= Came(a_toUs, a_reasm)
         /\ \A db, w : Fitting(a_toUs, a_reasm, db, w) =>
              Fitting(a_toUs', a_reasm', db, w) /\ (Gatt!Answer(Gatt!Complete) => Fits(Gatt!Complete, db, w))
<1> DEFINE f == Head(a_toUs)
           c == Gatt!Complete
<1>1. a_toUs \in Seq(GattFragment) /\ a_toUs # <<>> /\ a_toUs' = Tail(a_toUs) /\ f.part # "Down"
      /\ a_reasm' = (IF f.part = "First" THEN f.pdu ELSE Gatt!None) /\ a_reasm \in GattPdu
  BY DEF GattTyped, Gatt!Fed, Gatt!Polled
<1>2. /\ a_toUs' \in Seq(GattFragment) /\ Len(a_toUs) \in Nat \ {0} /\ DOMAIN a_toUs = 1..Len(a_toUs)
      /\ DOMAIN a_toUs' = 1..(Len(a_toUs) - 1)
      /\ \A k \in 1..(Len(a_toUs) - 1) : a_toUs'[k] = a_toUs[k + 1]
      /\ f = a_toUs[1] /\ f \in GattFragment /\ 1 \in DOMAIN a_toUs
  BY <1>1, Shortened
<1>3. f.part \in {"Whole", "First", "Rest"} /\ f.pdu \in GattPdu
      /\ (f \in Bearing <=> f.part \in {"Whole", "First"} /\ Gatt!Answer(f.pdu))
  BY <1>1, <1>2, BearingIs
<1>4. c = IF f.part = "Whole" THEN f.pdu ELSE IF f.part = "Rest" THEN a_reasm ELSE Gatt!None BY DEF Gatt!Complete
<1>5. \A k \in DOMAIN a_toUs' : k + 1 \in DOMAIN a_toUs /\ a_toUs'[k] = a_toUs[k + 1] BY <1>2
<1>6. c \in GattPdu /\ a_reasm' \in GattPdu BY <1>1, <1>3, <1>4, GattNone
<1>8. Cardinality(Hits(a_toUs, Bearing)) = Cardinality(Hits(a_toUs', Bearing)) + One(f \in Bearing)
      /\ Cardinality(Hits(a_toUs, Bearing)) \in Nat /\ Cardinality(Hits(a_toUs', Bearing)) \in Nat
  <2>1. Len(a_toUs) - 1 \in Nat BY <1>2
  <2>2. Cardinality(Hits(a_toUs, Bearing)) \in Nat BY <1>2, HitsNat
  <2>3. Cardinality(Hits(a_toUs', Bearing)) \in Nat BY <1>2, <2>1, HitsNat
  <2>4. Cardinality(Hits(a_toUs, Bearing)) = Cardinality(Hits(Tail(a_toUs), Bearing)) + One(Head(a_toUs) \in Bearing)
    BY <1>1, HitsTail
  <2> QED BY <1>1, <2>2, <2>3, <2>4
<1> HIDE DEF f, c
<1>9. /\ Came(a_toUs, a_reasm) \in Nat /\ Came(a_toUs', a_reasm') \in Nat
      /\ Came(a_toUs', a_reasm') + One(Gatt!Answer(c)) <= Came(a_toUs, a_reasm)
  <2>1. CASE f.part = "Whole" BY <1>1, <1>3, <1>4, <1>8, <2>1, GattNone DEF Came, One
  <2>2. CASE f.part = "First" BY <1>1, <1>3, <1>4, <1>8, <2>2, GattNone DEF Came, One
  <2>3. CASE f.part = "Rest" BY <1>1, <1>3, <1>4, <1>8, <2>3, GattNone DEF Came, One
  <2> QED BY <1>3, <2>1, <2>2, <2>3
<1>10. ASSUME NEW db, NEW w, Fitting(a_toUs, a_reasm, db, w)
       PROVE  Fitting(a_toUs', a_reasm', db, w) /\ (Gatt!Answer(c) => Fits(c, db, w))
  <2>1. \A k \in DOMAIN a_toUs' : a_toUs'[k] \in Bearing => Fits(a_toUs'[k].pdu, db, w) BY <1>5, <1>10 DEF Fitting
  <2>2. f \in Bearing => Fits(f.pdu, db, w) BY <1>2, <1>10 DEF Fitting
  <2>3. Gatt!Answer(a_reasm) => Fits(a_reasm, db, w) BY <1>10 DEF Fitting
  <2>4. Gatt!Answer(c) => Fits(c, db, w) BY <1>3, <1>4, <2>2, <2>3, GattNone
  <2>5. Gatt!Answer(a_reasm') => Fits(a_reasm', db, w) BY <1>1, <1>3, <2>2, GattNone
  <2> QED BY <2>1, <2>4, <2>5 DEF Fitting
<1> QED BY <1>2, <1>6, <1>9, <1>10 DEF c

\* What the server sends comes, in one piece or two.
LEMMA GattSends ==
  ASSUME GattTyped, NEW pdu \in GattPdu, Gatt!Sends(pdu)
  PROVE  /\ a_toUs' \in Seq(GattFragment)
         /\ Came(a_toUs, a_reasm) \in Nat
         /\ Came(a_toUs', a_reasm) = Came(a_toUs, a_reasm) + One(Gatt!Answer(pdu))
         /\ \A db, w : Fitting(a_toUs, a_reasm, db, w) /\ (Gatt!Answer(pdu) => Fits(pdu, db, w))
                         => Fitting(a_toUs', a_reasm, db, w)
<1> DEFINE g == [part |-> "Whole", pdu |-> pdu]
           h == [part |-> "First", pdu |-> pdu]
           r == [part |-> "Rest", pdu |-> Gatt!None]
<1>1. a_toUs \in Seq(GattFragment) BY DEF GattTyped
<1>2. g \in GattFragment /\ h \in GattFragment /\ r \in GattFragment BY GattNone DEF GattFragment
<1>3. g.pdu = pdu /\ h.pdu = pdu /\ r.pdu = Gatt!None
      /\ (g \in Bearing <=> Gatt!Answer(pdu)) /\ (h \in Bearing <=> Gatt!Answer(pdu)) /\ r \notin Bearing
  BY <1>2, BearingIs
<1>4. Cardinality(Hits(a_toUs, Bearing)) \in Nat
  <2>1. Len(a_toUs) \in Nat /\ DOMAIN a_toUs = 1..Len(a_toUs) BY <1>1, LenProperties
  <2> QED BY <2>1, HitsNat
<1>5. ASSUME NEW s \in Seq(GattFragment), NEW e \in GattFragment
      PROVE  /\ Append(s, e) \in Seq(GattFragment)
             /\ Cardinality(Hits(Append(s, e), Bearing)) = Cardinality(Hits(s, Bearing)) + One(e \in Bearing)
             /\ \A k \in DOMAIN Append(s, e) : (k \in DOMAIN s /\ Append(s, e)[k] = s[k]) \/ Append(s, e)[k] = e
  <2>1. DOMAIN s = 1..Len(s) /\ Len(s) \in Nat /\ DOMAIN Append(s, e) = 1..(Len(s) + 1)
        /\ (\A k \in 1..Len(s) : Append(s, e)[k] = s[k]) /\ Append(s, e)[Len(s) + 1] = e /\ Append(s, e) \in Seq(GattFragment)
    BY <1>5, Appended
  <2>2. \A k \in DOMAIN Append(s, e) : k \in DOMAIN s \/ k = Len(s) + 1 BY <2>1
  <2>3. Cardinality(Hits(Append(s, e), Bearing)) = Cardinality(Hits(s, Bearing)) + One(e \in Bearing)
    BY <1>5, HitsAppended
  <2> QED BY <2>1, <2>2, <2>3
<1> HIDE DEF g, h, r
<1>6. CASE a_toUs' = Append(a_toUs, g)
  <2>1. /\ a_toUs' \in Seq(GattFragment)
        /\ Cardinality(Hits(a_toUs', Bearing)) = Cardinality(Hits(a_toUs, Bearing)) + One(g \in Bearing)
        /\ \A k \in DOMAIN a_toUs' : (k \in DOMAIN a_toUs /\ a_toUs'[k] = a_toUs[k]) \/ a_toUs'[k] = g
    BY <1>1, <1>2, <1>5, <1>6
  <2>3. Came(a_toUs, a_reasm) \in Nat /\ Came(a_toUs', a_reasm) = Came(a_toUs, a_reasm) + One(Gatt!Answer(pdu))
    BY <1>3, <1>4, <2>1 DEF Came, One
  <2>4. \A db, w : Fitting(a_toUs, a_reasm, db, w) /\ (Gatt!Answer(pdu) => Fits(pdu, db, w))
                     => Fitting(a_toUs', a_reasm, db, w)
    BY <1>3, <2>1 DEF Fitting
  <2> QED BY <2>1, <2>3, <2>4
<1>7. CASE a_toUs' = a_toUs \o <<h, r>>
  <2> DEFINE m == Append(a_toUs, h)
  <2>1. a_toUs' = Append(m, r) BY <1>1, <1>2, <1>7
  <2>2. /\ m \in Seq(GattFragment)
        /\ Cardinality(Hits(m, Bearing)) = Cardinality(Hits(a_toUs, Bearing)) + One(h \in Bearing)
        /\ \A k \in DOMAIN m : (k \in DOMAIN a_toUs /\ m[k] = a_toUs[k]) \/ m[k] = h
    BY <1>1, <1>2, <1>5
  <2> HIDE DEF m
  <2>3. /\ a_toUs' \in Seq(GattFragment)
        /\ Cardinality(Hits(a_toUs', Bearing)) = Cardinality(Hits(m, Bearing)) + One(r \in Bearing)
        /\ \A k \in DOMAIN a_toUs' : (k \in DOMAIN m /\ a_toUs'[k] = m[k]) \/ a_toUs'[k] = r
    BY <1>2, <1>5, <2>1, <2>2
  <2>4. \A k \in DOMAIN a_toUs' : (k \in DOMAIN a_toUs /\ a_toUs'[k] = a_toUs[k]) \/ a_toUs'[k] \in {h, r}
    BY <2>2, <2>3
  <2>6. Came(a_toUs, a_reasm) \in Nat /\ Came(a_toUs', a_reasm) = Came(a_toUs, a_reasm) + One(Gatt!Answer(pdu))
    BY <1>3, <1>4, <2>2, <2>3 DEF Came, One
  <2>7. \A db, w : Fitting(a_toUs, a_reasm, db, w) /\ (Gatt!Answer(pdu) => Fits(pdu, db, w))
                     => Fitting(a_toUs', a_reasm, db, w)
    BY <1>3, <2>4 DEF Fitting
  <2> QED BY <2>3, <2>6, <2>7
<1> QED BY <1>6, <1>7 DEF Gatt!Sends, g, h, r

\* Of the walk under way: what it is after, and that with none owed nothing but its own is to come.
LEMMA GattBounds ==
  ASSUME GattTyped
  PROVE  /\ Len(a_toServer) \in Nat /\ Came(a_toUs, a_reasm) \in Nat /\ Outstanding \in Nat
         /\ Outstanding = 0 => a_toServer = <<>> /\ \A db, w : Fitting(a_toUs, a_reasm, db, w)
<1>1. Len(a_toServer) \in Nat /\ (Len(a_toServer) = 0 => a_toServer = <<>>) BY LenProperties, EmptySeq DEF GattTyped
<1>2. a_toUs \in Seq(GattFragment) /\ Len(a_toUs) \in Nat /\ DOMAIN a_toUs = 1..Len(a_toUs) BY LenProperties DEF GattTyped
<1>3. IsFiniteSet(Hits(a_toUs, Bearing)) /\ Cardinality(Hits(a_toUs, Bearing)) \in Nat BY <1>2, HitsNat
<1>4. Cardinality(Hits(a_toUs, Bearing)) = 0 => \A k \in DOMAIN a_toUs : a_toUs[k] \notin Bearing
  BY <1>3, FS_EmptySet DEF Hits
<1>5. Came(a_toUs, a_reasm) \in Nat
      /\ (Came(a_toUs, a_reasm) = 0 => Cardinality(Hits(a_toUs, Bearing)) = 0 /\ ~Gatt!Answer(a_reasm))
  BY <1>3 DEF Came, One
<1>6. Came(a_toUs, a_reasm) = 0 => \A db, w : Fitting(a_toUs, a_reasm, db, w) BY <1>4, <1>5 DEF Fitting
<1> QED BY <1>1, <1>5, <1>6 DEF Outstanding

LEMMA GattRange ==
  ASSUME GattTyped
  PROVE  LET E == Gatt!Entries(a_db, a_walk.kind, a_walk.start, a_walk.hi) IN
         /\ E \in Seq(Gatt!Group) /\ Len(E) \in Nat
         /\ a_walk.start > a_walk.hi => E = <<>>
         /\ \A n \in 1..Len(E) :
              /\ E = SubSeq(E, 1, n) \o SubSeq(E, n + 1, Len(E))
              /\ E[n] \in Gatt!Group
              /\ Gatt!Entries(a_db, a_walk.kind, E[n][2] + 1, a_walk.hi) = SubSeq(E, n + 1, Len(E))
              /\ E[n][2] = Top => n = Len(E)
<1> DEFINE es == a_db[a_walk.kind]
           E == Part(es, a_walk.start, a_walk.hi)
<1>1. a_db \in Databases /\ a_walk.kind \in GattKinds /\ a_walk.start \in Nat /\ a_walk.hi \in Nat
  BY AttAssumption DEF GattTyped, GattWalk
<1>2. Gatt!Ordered(es) /\ \A lo, hi : Gatt!Entries(a_db, a_walk.kind, lo, hi) = Part(es, lo, hi) BY <1>1, AttRanges
<1> HIDE DEF es
<1>3. E \in Seq(Gatt!Group) /\ Len(E) \in Nat /\ (a_walk.start > a_walk.hi => E = <<>>) BY <1>1, <1>2, PartIs
<1>4. ASSUME NEW n \in 1..Len(E)
      PROVE /\ E = SubSeq(E, 1, n) \o SubSeq(E, n + 1, Len(E))
            /\ E[n] \in Gatt!Group /\ Part(es, E[n][2] + 1, a_walk.hi) = SubSeq(E, n + 1, Len(E))
            /\ E[n][2] = Top => n = Len(E)
  BY <1>1, <1>2, <1>4, PartGoesOn
<1> HIDE DEF E
<1>5. Gatt!Entries(a_db, a_walk.kind, a_walk.start, a_walk.hi) = E BY <1>2 DEF E
<1> QED BY <1>2, <1>3, <1>4, <1>5

LEMMA GattDiscover == GattInv /\ Gatt!Discover => GattInv'
<1> SUFFICES ASSUME GattInv, Gatt!Discover PROVE GattInv' OBVIOUS
<1>1. PICK kind \in GattKinds, lo \in 1..Top, hi \in 1..Top :
        a_walk' = [on |-> TRUE, kind |-> kind, lo |-> lo, hi |-> hi, start |-> lo,
                   found |-> <<>>, asked |-> FALSE, end |-> "None", clean |-> a_owed = 0]
  BY DEF Gatt!Discover, GattKinds
<1>2. GattTyped /\ UNCHANGED <<a_db, a_toServer, a_toUs, a_reasm, a_up, a_slow, a_owed>>
      /\ ~a_walk.on /\ a_walk.end # "Down" /\ a_walks < Walks /\ a_walks' = a_walks + 1
  BY DEF GattInv, Gatt!Discover, Gatt!Resting
<1>3. <<>> \in Seq(Gatt!Group) /\ Len(<<>>) = 0 BY EmptySeq
<1>4. a_walk' \in GattWalk BY <1>1, <1>3, AttAssumption DEF GattWalk
<1>5. GattTyped' BY <1>1, <1>2, <1>3, <1>4, AttAssumption DEF GattTyped
<1>6. Outstanding \in Nat /\ Outstanding <= a_owed /\ a_owed \in Nat
  BY <1>2, GattBounds, AttAssumption DEF GattInv, NoMoreThanOwed, GattTyped, One
<1>7. Outstanding' = Outstanding BY <1>2 DEF Outstanding, Came
<1>8. NoMoreThanOwed' BY <1>1, <1>2, <1>6, <1>7 DEF NoMoreThanOwed, One
<1>9. AnswersFit'
  <2> SUFFICES ASSUME a_walk'.clean PROVE AnswersFit' BY DEF AnswersFit
  <2>1. a_owed = 0 BY <1>1
  <2>2. Outstanding = 0 BY <1>6, <2>1
  <2>3. a_toServer = <<>> /\ Fitting(a_toUs, a_reasm, a_db, a_walk') BY <1>2, <2>2, GattBounds
  <2> QED BY <1>2, <2>1, <2>3 DEF AnswersFit
<1>10. FoundSoFar'
  <2>1. Gatt!Entries(a_db, kind, lo, hi) \in Seq(Gatt!Group)
    <3>1. a_db \in Databases /\ lo \in Nat /\ hi \in Nat BY <1>2, AttAssumption DEF GattTyped
    <3>2. Gatt!Ordered(a_db[kind]) /\ Gatt!Entries(a_db, kind, lo, hi) = Part(a_db[kind], lo, hi) BY <3>1, AttRanges
    <3> QED BY <3>1, <3>2, PartIs
  <2>2. Gatt!Entries(a_db, kind, lo, hi) = <<>> \o Gatt!Entries(a_db, kind, lo, hi) BY <2>1, ConcatEmptySeq
  <2> QED BY <1>1, <1>2, <2>2 DEF FoundSoFar
<1>11. Gatt!WalkIsWhole' BY <1>1 DEF Gatt!WalkIsWhole
<1> QED BY <1>5, <1>8, <1>9, <1>10, <1>11 DEF GattInv

LEMMA GattRequests == GattInv /\ Gatt!Request => GattInv'
<1> SUFFICES ASSUME GattInv, Gatt!Request PROVE GattInv' OBVIOUS
<1>1. GattTyped /\ UNCHANGED <<a_db, a_walks, a_toUs, a_reasm, a_up, a_slow, a_owed>> /\ a_walk.on /\ ~a_walk.asked
      /\ a_walk \in GattWalk /\ a_walk.end = "None"
  BY DEF GattInv, GattTyped, Gatt!Request, Gatt!Walking
<1>2. Outstanding \in Nat /\ Outstanding <= a_owed /\ a_owed \in Nat /\ Len(a_toServer) \in Nat
      /\ Came(a_toUs, a_reasm) \in Nat
  BY <1>1, GattBounds, AttAssumption DEF GattInv, NoMoreThanOwed, GattTyped, One
<1>3. CASE a_walk.start > a_walk.hi
  <2>1. a_walk' = [a_walk EXCEPT !.on = FALSE, !.asked = FALSE, !.end = "Ok"] /\ a_toServer' = a_toServer
    BY <1>3 DEF Gatt!Request, Gatt!Ended
  <2>2. a_walk' \in GattWalk /\ a_walk'.found = a_walk.found BY <1>1, <2>1 DEF GattWalk
  <2>3. ~a_walk'.on /\ ~a_walk'.asked /\ a_walk'.end = "Ok" /\ a_walk'.clean = a_walk.clean /\ a_walk'.kind = a_walk.kind
        /\ a_walk'.lo = a_walk.lo /\ a_walk'.hi = a_walk.hi
    BY <1>1, <2>1 DEF GattWalk
  <2>4. GattTyped' BY <1>1, <2>1, <2>2, <2>3 DEF GattTyped
  <2>5. Outstanding' = Outstanding BY <1>1, <2>1 DEF Outstanding, Came
  <2>6. NoMoreThanOwed' BY <1>1, <1>2, <2>3, <2>5 DEF NoMoreThanOwed, One
  <2>7. AnswersFit' /\ FoundSoFar' BY <2>3 DEF AnswersFit, FoundSoFar
  <2>8. a_walk.clean => Gatt!Entries(a_db, a_walk.kind, a_walk.lo, a_walk.hi) = a_walk.found
    <3>1. Gatt!Entries(a_db, a_walk.kind, a_walk.start, a_walk.hi) = <<>> BY <1>1, <1>3, GattRange
    <3>2. a_walk.found \o <<>> = a_walk.found BY <1>1, ConcatEmptySeq DEF GattWalk
    <3> QED BY <1>1, <3>1, <3>2 DEF GattInv, FoundSoFar
  <2>9. Gatt!WalkIsWhole' BY <1>1, <2>2, <2>3, <2>8 DEF Gatt!WalkIsWhole
  <2> QED BY <2>4, <2>6, <2>7, <2>9 DEF GattInv
<1>4. CASE ~(a_walk.start > a_walk.hi)
  <2> DEFINE q == [kind |-> a_walk.kind, lo |-> a_walk.start, hi |-> a_walk.hi]
  <2>1. a_walk' = [a_walk EXCEPT !.asked = TRUE] /\ a_toServer' = (IF a_up THEN Append(a_toServer, q) ELSE a_toServer)
    BY <1>4 DEF Gatt!Request
  <2>2. q \in GattRequest
    <3>1. a_walk.start \in 1..(Top + 1) /\ a_walk.hi \in 1..Top /\ a_walk.kind \in GattKinds BY <1>1 DEF GattWalk
    <3>2. a_walk.start \in 1..Top BY <1>4, <3>1, AttAssumption
    <3> QED BY <3>1, <3>2 DEF GattRequest
  <2>3. a_walk' \in GattWalk BY <1>1, <2>1 DEF GattWalk
  <2>4. a_walk'.on /\ a_walk'.asked /\ a_walk'.end = "None" /\ a_walk'.found = a_walk.found /\ a_walk'.clean = a_walk.clean
        /\ a_walk'.kind = a_walk.kind /\ a_walk'.lo = a_walk.lo /\ a_walk'.hi = a_walk.hi /\ a_walk'.start = a_walk.start
    BY <1>1, <2>1 DEF GattWalk
  <2>5. a_toServer \in Seq(GattRequest) BY <1>1 DEF GattTyped
  <2> HIDE DEF q
  <2>6. a_toServer' \in Seq(GattRequest) /\ Len(a_toServer') \in Nat /\ Len(a_toServer') <= Len(a_toServer) + 1
    BY <1>2, <2>1, <2>2, <2>5, Appended
  <2>7. GattTyped' BY <1>1, <2>3, <2>4, <2>6 DEF GattTyped
  <2>8. Outstanding' <= Outstanding + 1 BY <1>1, <1>2, <2>6 DEF Outstanding, Came
  <2>9. Outstanding' \in Nat BY <2>7, GattBounds, <1>1, <1>2, <2>6 DEF Outstanding, Came
  <2>10. NoMoreThanOwed' BY <1>1, <1>2, <2>4, <2>8, <2>9 DEF NoMoreThanOwed, One
  <2>11. AnswersFit'
    <3> SUFFICES ASSUME a_walk'.clean PROVE AnswersFit' BY DEF AnswersFit
    <3>1. a_owed = 0 BY <1>1, <2>4 DEF GattInv, AnswersFit
    <3>2. a_toServer = <<>> /\ Fitting(a_toUs, a_reasm, a_db, a_walk')
      <4>1. Outstanding = 0 BY <1>2, <3>1
      <4> QED BY <1>1, <4>1, GattBounds
    <3>3. \A k \in DOMAIN a_toServer' : a_toServer'[k] = q BY <2>1, <2>2, <3>2
    <3>4. \A k \in DOMAIN a_toServer' : a_toServer'[k] = [kind |-> a_walk'.kind, lo |-> a_walk'.start, hi |-> a_walk'.hi]
      BY <2>4, <3>3 DEF q
    <3> QED BY <1>1, <3>1, <3>2, <3>4 DEF AnswersFit
  <2>12. FoundSoFar' BY <1>1, <2>4 DEF GattInv, FoundSoFar
  <2>13. Gatt!WalkIsWhole' BY <2>4 DEF Gatt!WalkIsWhole
  <2> QED BY <2>7, <2>10, <2>11, <2>12, <2>13 DEF GattInv
<1> QED BY <1>3, <1>4

\* What there is room for of an answer; when there is not for all of it, the room is full.
LEMMA Fitted ==
  ASSUME NEW found \in Seq(Gatt!Group), Len(found) <= Room, NEW es \in Seq(Gatt!Group)
  PROVE  LET fit == Gatt!First(es, Room - Len(found)) IN
         /\ found \o fit \in Seq(Gatt!Group) /\ Len(found \o fit) <= Room
         /\ ~(Len(fit) < Len(es)) => fit = es
         /\ \A E \in Seq(Gatt!Group) : \A n \in 1..Len(E) :
              es = SubSeq(E, 1, n) /\ Len(fit) < Len(es) =>
                Gatt!First(found \o E, Room) = found \o fit /\ Len(found \o E) > Room
<1> DEFINE r == Room - Len(found)
           m == IF r < Len(es) THEN r ELSE Len(es)
           fit == Gatt!First(es, r)
<1>1. r \in Nat /\ Len(es) \in Nat /\ Len(found) \in Nat /\ Room \in Nat /\ r + Len(found) = Room /\ m \in 0..Len(es) /\ m <= r
      /\ DOMAIN es = 1..Len(es) /\ DOMAIN found = 1..Len(found)
  BY AttAssumption, LenProperties
<1>2. fit = SubSeq(es, 1, m) BY DEF Gatt!First
<1>3. m < Len(es) => m = r OBVIOUS
<1>4. \A i \in 1..Len(es) : es[i] \in Gatt!Group BY ElementOfSeq
<1> HIDE DEF m, r
<1>5. fit \in Seq(Gatt!Group) /\ Len(fit) = m /\ \A i \in 1..m : fit[i] = es[i]
  <2>1. \A i \in 1..m : es[i] \in Gatt!Group BY <1>1, <1>4
  <2>2. /\ SubSeq(es, 1, m) \in Seq(Gatt!Group) /\ Len(SubSeq(es, 1, m)) = (IF 1 <= m THEN m - 1 + 1 ELSE 0)
        /\ \A i \in 1..(m - 1 + 1) : SubSeq(es, 1, m)[i] = es[1 + i - 1]
    BY <1>1, <2>1, SubSeqProperties
  <2>3. \A i \in 1..m : 1 + i - 1 = i BY <1>1
  <2>4. m - 1 + 1 = m /\ (~(1 <= m) => m = 0) BY <1>1
  <2> HIDE DEF fit
  <2> QED BY <1>2, <2>2, <2>3, <2>4
<1> HIDE DEF fit
<1>6. found \o fit \in Seq(Gatt!Group) /\ Len(found \o fit) = Len(found) + m
      /\ \A i \in 1..(Len(found) + m) : (found \o fit)[i] = IF i <= Len(found) THEN found[i] ELSE fit[i - Len(found)]
  BY <1>1, <1>5, ConcatProperties
<1>7. ~(Len(fit) < Len(es)) => fit = es
  <2> SUFFICES ASSUME ~(Len(fit) < Len(es)) PROVE fit = es OBVIOUS
  <2>0. m = Len(es)
    <3>1. Len(fit) = m BY <1>5
    <3>2. m \in 0..Len(es) /\ Len(es) \in Nat BY <1>1
    <3> QED BY <3>1, <3>2
  <2>1. Len(fit) = Len(es) /\ \A i \in 1..Len(fit) : fit[i] = es[i] BY <1>5, <2>0
  <2> QED BY <1>5, <2>1, SeqEqual
<1>8. ASSUME NEW E \in Seq(Gatt!Group), NEW n \in 1..Len(E), es = SubSeq(E, 1, n), m < Len(es)
      PROVE  Gatt!First(found \o E, Room) = found \o fit /\ Len(found \o E) > Room
  <2> DEFINE all == found \o E
  <2>1. Len(E) \in Nat /\ DOMAIN E = 1..Len(E) /\ \A i \in 1..Len(E) : E[i] \in Gatt!Group BY LenProperties, ElementOfSeq
  <2>2. Len(es) = n /\ \A i \in 1..n : es[i] = E[i]
    <3>1. \A i \in 1..n : E[i] \in Gatt!Group BY <2>1
    <3>2. /\ Len(SubSeq(E, 1, n)) = (IF 1 <= n THEN n - 1 + 1 ELSE 0)
          /\ \A i \in 1..(n - 1 + 1) : SubSeq(E, 1, n)[i] = E[1 + i - 1]
      BY <2>1, <3>1, SubSeqProperties
    <3>3. n \in Nat /\ 1 <= n /\ n - 1 + 1 = n /\ \A i \in 1..n : 1 + i - 1 = i BY <2>1
    <3> QED BY <1>8, <3>2, <3>3
  <2>3. m = r /\ r < Len(E) BY <1>1, <1>3, <1>8, <2>1, <2>2
  <2>4. all \in Seq(Gatt!Group) /\ Len(all) = Len(found) + Len(E)
        /\ \A i \in 1..(Len(found) + Len(E)) : all[i] = IF i <= Len(found) THEN found[i] ELSE E[i - Len(found)]
    BY <1>1, <2>1, ConcatProperties
  <2> HIDE DEF all
  <2>5. Len(all) > Room /\ Room < Len(all) BY <1>1, <2>1, <2>3, <2>4
  <2>6. Gatt!First(all, Room) = SubSeq(all, 1, Room) BY <2>5 DEF Gatt!First
  <2>7. SubSeq(all, 1, Room) \in Seq(Gatt!Group) /\ Len(SubSeq(all, 1, Room)) = Room
        /\ \A i \in 1..Room : SubSeq(all, 1, Room)[i] = all[i]
    <3>1. \A i \in 1..Room : all[i] \in Gatt!Group BY <1>1, <2>1, <2>4, <2>5, ElementOfSeq
    <3>2. /\ SubSeq(all, 1, Room) \in Seq(Gatt!Group)
          /\ Len(SubSeq(all, 1, Room)) = (IF 1 <= Room THEN Room - 1 + 1 ELSE 0)
          /\ \A i \in 1..(Room - 1 + 1) : SubSeq(all, 1, Room)[i] = all[1 + i - 1]
      BY <1>1, <3>1, SubSeqProperties
    <3>3. Room - 1 + 1 = Room /\ (~(1 <= Room) => Room = 0) /\ \A i \in 1..Room : 1 + i - 1 = i BY <1>1
    <3> QED BY <3>2, <3>3
  <2>8. \A i \in 1..Room : all[i] = (found \o fit)[i]
    <3> SUFFICES ASSUME NEW i \in 1..Room PROVE all[i] = (found \o fit)[i] OBVIOUS
    <3>1. i \in 1..(Len(found) + Len(E)) /\ i \in 1..(Len(found) + m) BY <1>1, <2>1, <2>3
    <3>2. CASE i <= Len(found) BY <1>6, <2>4, <3>1, <3>2
    <3>3. CASE ~(i <= Len(found))
      <4>1. i - Len(found) \in 1..m /\ i - Len(found) \in 1..n BY <1>1, <1>8, <2>2, <2>3, <3>3
      <4>2. fit[i - Len(found)] = E[i - Len(found)] BY <1>5, <2>2, <4>1
      <4> QED BY <1>6, <2>4, <3>1, <3>3, <4>2
    <3> QED BY <3>2, <3>3
  <2>9. Len(found \o fit) = Room BY <1>1, <1>6, <2>3
  <2>10. SubSeq(all, 1, Room) = found \o fit BY <1>6, <2>7, <2>8, <2>9, SeqEqual
  <2> QED BY <2>5, <2>6, <2>10 DEF all
<1>9. Len(found \o fit) <= Room BY <1>1, <1>6
<1>10. \A E \in Seq(Gatt!Group) : \A n \in 1..Len(E) :
         es = SubSeq(E, 1, n) /\ Len(fit) < Len(es) =>
           Gatt!First(found \o E, Room) = found \o fit /\ Len(found \o E) > Room
  BY <1>5, <1>8
<1>11. fit = Gatt!First(es, Room - Len(found)) BY DEF fit, r
<1> QED BY <1>6, <1>7, <1>9, <1>10, <1>11

\* An answer that was awaited: what the walk has found goes on with what it brings.
LEMMA GattTakes == GattInv /\ Gatt!Waits /\ Gatt!Complete.op = Gatt!Rsp(a_walk.kind) => GattInv'
<1> DEFINE c == Gatt!Complete
           es == c.entries
           fit == Gatt!First(es, Room - Len(a_walk.found))
           E == Gatt!Entries(a_db, a_walk.kind, a_walk.start, a_walk.hi)
           all == a_walk.found \o fit
           last == Gatt!LastOf(es)
<1> SUFFICES ASSUME GattInv, Gatt!Waits, c.op = Gatt!Rsp(a_walk.kind) PROVE GattInv' OBVIOUS
<1>1. GattTyped /\ UNCHANGED <<a_db, a_walks, a_toServer, a_up, a_slow, a_owed>> /\ a_walk.asked /\ a_walk.on
      /\ a_walk \in GattWalk /\ a_walk.end = "None" /\ Gatt!Fed /\ Gatt!Takes(es)
  BY DEF GattInv, GattTyped, Gatt!Waits
<1>2. /\ a_toUs' \in Seq(GattFragment) /\ a_reasm' \in GattPdu
      /\ c \in GattPdu
      /\ Came(a_toUs, a_reasm) \in Nat /\ Came(a_toUs', a_reasm') \in Nat
      /\ Came(a_toUs', a_reasm') + One(Gatt!Answer(c)) <= Came(a_toUs, a_reasm)
      /\ \A db, w : Fitting(a_toUs, a_reasm, db, w) =>
           Fitting(a_toUs', a_reasm', db, w) /\ (Gatt!Answer(c) => Fits(c, db, w))
  BY <1>1, GattFed
<1>3. Gatt!Answer(c) /\ c.op \in {"GroupRsp", "TypeRsp"} BY DEF Gatt!Answer, Gatt!Rsp
<1>4. es \in Seq(Gatt!Group) BY <1>2, <1>3 DEF GattPdu
<1>5. last \in 0..Top /\ (es # <<>> => last = es[Len(es)][2])
  <2>1. CASE es = <<>> BY <2>1, AttAssumption DEF Gatt!LastOf
  <2>2. CASE es # <<>>
    <3>1. Len(es) \in Nat \ {0} BY <1>4, <2>2, LenProperties, EmptySeq
    <3>2. es[Len(es)] \in Gatt!Group BY <1>4, <3>1, ElementOfSeq
    <3>3. es[Len(es)][2] \in 0..Top BY <3>2, AttAssumption DEF Gatt!Group
    <3> QED BY <2>2, <3>3 DEF Gatt!LastOf
  <2> QED BY <2>1, <2>2
<1>6. a_walk.found \in Seq(Gatt!Group) /\ Len(a_walk.found) <= Room BY <1>1 DEF GattTyped, GattWalk
<1>7. /\ all \in Seq(Gatt!Group) /\ Len(all) <= Room
      /\ ~(Len(fit) < Len(es)) => fit = es
      /\ \A EE \in Seq(Gatt!Group) : \A n \in 1..Len(EE) :
           es = SubSeq(EE, 1, n) /\ Len(fit) < Len(es) =>
             Gatt!First(a_walk.found \o EE, Room) = all /\ Len(a_walk.found \o EE) > Room
  BY <1>4, <1>6, Fitted
<1>8. E \in Seq(Gatt!Group) /\ Len(E) \in Nat
      /\ \A n \in 1..Len(E) :
              /\ E = SubSeq(E, 1, n) \o SubSeq(E, n + 1, Len(E))
              /\ E[n] \in Gatt!Group
              /\ Gatt!Entries(a_db, a_walk.kind, E[n][2] + 1, a_walk.hi) = SubSeq(E, n + 1, Len(E))
              /\ E[n][2] = Top => n = Len(E)
  BY <1>1, GattRange
<1>9. a_walk' = IF Len(fit) < Len(es)
                  THEN [a_walk EXCEPT !.on = FALSE, !.found = all, !.asked = FALSE, !.end = "Overflow"]
                ELSE IF last = Top
                  THEN [a_walk EXCEPT !.on = FALSE, !.found = all, !.asked = FALSE, !.end = "Ok"]
                ELSE [a_walk EXCEPT !.found = all, !.asked = FALSE, !.start = last + 1]
  BY <1>1 DEF Gatt!Takes, Gatt!Ended, GattWalk
<1>10. Came(a_toUs', a_reasm') + 1 <= Came(a_toUs, a_reasm) BY <1>2, <1>3 DEF One
<1>11. a_walk.clean => a_owed = 0 /\ Fits(c, a_db, a_walk)
                    /\ Gatt!Entries(a_db, a_walk.kind, a_walk.lo, a_walk.hi) = a_walk.found \o E
  BY <1>1, <1>2, <1>3 DEF GattInv, AnswersFit, FoundSoFar
<1> HIDE DEF fit, all
<1>12. a_walk.clean => \E n \in 1..Len(E) : es = SubSeq(E, 1, n)
  <2>1. Gatt!Err(a_walk.kind) # Gatt!Rsp(a_walk.kind) /\ Gatt!Fault(a_walk.kind) # Gatt!Rsp(a_walk.kind)
    BY DEF Gatt!Err, Gatt!Rsp, Gatt!Fault
  <2> QED BY <1>11, <2>1 DEF Fits
<1> HIDE DEF c, es, E, last
<1>13. ASSUME a_walk.clean
       PROVE  \E n \in 1..Len(E) : /\ es = SubSeq(E, 1, n) /\ last = E[n][2]
                                   /\ E = es \o SubSeq(E, n + 1, Len(E))
  <2>1. PICK n \in 1..Len(E) : es = SubSeq(E, 1, n) BY <1>12, <1>13
  <2>2. Len(es) = n /\ es[n] = E[n]
    <3>1. \A i \in 1..n : E[i] \in Gatt!Group BY <1>8
    <3>2. /\ Len(SubSeq(E, 1, n)) = (IF 1 <= n THEN n - 1 + 1 ELSE 0)
          /\ \A i \in 1..(n - 1 + 1) : SubSeq(E, 1, n)[i] = E[1 + i - 1]
      BY <1>8, <3>1, SubSeqProperties
    <3>3. n \in Nat /\ 1 <= n /\ n - 1 + 1 = n /\ n \in 1..n /\ 1 + n - 1 = n BY <1>8
    <3> QED BY <2>1, <3>2, <3>3
  <2>3. es # <<>>
    <3>1. Len(es) # 0 BY <1>8, <2>2
    <3> QED BY <3>1, EmptySeq
  <2> QED BY <1>5, <1>8, <2>1, <2>2, <2>3
<1>14. a_walk' \in GattWalk
  <2>1. last # Top => last + 1 \in 1..(Top + 1) BY <1>5, AttAssumption
  <2> QED BY <1>1, <1>7, <1>9, <2>1 DEF GattWalk
<1>15. a_walk'.found = all /\ ~a_walk'.asked /\ a_walk'.clean = a_walk.clean /\ a_walk'.kind = a_walk.kind
       /\ a_walk'.lo = a_walk.lo /\ a_walk'.hi = a_walk.hi /\ a_walk'.end \in {"None", "Ok", "Overflow"}
       /\ (a_walk'.on => a_walk'.end = "None")
  BY <1>1, <1>9 DEF GattWalk
<1>16. GattTyped'
  <2>1. a_owed' \in 0..a_slow' /\ a_walks' \in 0..Walks /\ a_slow' \in 0..Slow /\ a_up' \in BOOLEAN
        /\ a_toServer' \in Seq(GattRequest) /\ a_db' \in Databases
    BY <1>1 DEF GattTyped
  <2> QED BY <1>2, <1>7, <1>14, <1>15, <2>1 DEF GattTyped
<1>17. Outstanding' <= a_owed' /\ Outstanding' \in Nat /\ a_owed' \in Nat
  <2>1. Len(a_toServer) \in Nat /\ Outstanding <= a_owed + 1 /\ a_owed \in Nat /\ a_toServer' = a_toServer /\ a_owed' = a_owed
    BY <1>1, GattBounds, AttAssumption DEF GattInv, GattTyped, NoMoreThanOwed, One
  <2> QED BY <1>2, <1>10, <2>1 DEF Outstanding
<1>18. NoMoreThanOwed'
  <2>1. One(a_walk'.asked) = 0 BY <1>15 DEF One
  <2>2. Outstanding' <= a_owed' + One(a_walk'.asked)
    <3>1. Outstanding' <= a_owed' /\ a_owed' \in Nat BY <1>17
    <3> QED BY <2>1, <3>1
  <2> QED BY <2>2 DEF NoMoreThanOwed
<1>19. AnswersFit'
  <2> SUFFICES ASSUME a_walk'.clean PROVE AnswersFit' BY DEF AnswersFit
  <2>1. a_owed' = 0 BY <1>1, <1>11, <1>15
  <2>2. Outstanding' = 0 BY <1>17, <2>1
  <2>3. a_toServer' = <<>> /\ \A db, w : Fitting(a_toUs', a_reasm', db, w)
    <3>1. (Outstanding = 0 => a_toServer = <<>> /\ \A db, w : Fitting(a_toUs, a_reasm, db, w))'
      BY <1>16, GattBounds, PTL
    <3> QED BY <2>2, <3>1
  <2> QED BY <2>1, <2>3 DEF AnswersFit
<1>20. ASSUME ~(Len(fit) < Len(es)), a_walk.clean
       PROVE \E n \in 1..Len(E) :
          /\ last = E[n][2]
          /\ Gatt!Entries(a_db, a_walk.kind, a_walk.lo, a_walk.hi) = all \o SubSeq(E, n + 1, Len(E))
  <2>1. all = a_walk.found \o es BY <1>7, <1>20 DEF all
  <2>2. PICK n \in 1..Len(E) : es = SubSeq(E, 1, n) /\ last = E[n][2] /\ E = es \o SubSeq(E, n + 1, Len(E)) BY <1>13, <1>20
  <2>3. SubSeq(E, n + 1, Len(E)) \in Seq(Gatt!Group)
    <3>1. \A i \in (n + 1)..Len(E) : E[i] \in Gatt!Group BY <1>8
    <3>2. n + 1 \in Int /\ Len(E) \in Int BY <1>8
    <3> QED BY <3>1, <3>2, SubSeqProperties
  <2>4. a_walk.found \o E = all \o SubSeq(E, n + 1, Len(E))
    <3> DEFINE R == SubSeq(E, n + 1, Len(E))
               F == a_walk.found
    <3>1. E = es \o R /\ R \in Seq(Gatt!Group) BY <2>2, <2>3
    <3>2. F \in Seq(Gatt!Group) /\ es \in Seq(Gatt!Group) BY <1>4, <1>6
    <3> HIDE DEF R, F
    <3>3. (F \o es) \o R = F \o (es \o R) BY <3>1, <3>2, ConcatAssociative
    <3> QED BY <2>1, <3>1, <3>3 DEF R, F
  <2> QED BY <1>11, <1>20, <2>2, <2>4
<1>21. FoundSoFar' /\ Gatt!WalkIsWhole'
  <2>1. CASE Len(fit) < Len(es)
    <3>1. ~a_walk'.on /\ a_walk'.end = "Overflow" BY <1>1, <1>9, <2>1 DEF GattWalk
    <3>2. a_walk.clean => Gatt!First(a_walk.found \o E, Room) = all /\ Len(a_walk.found \o E) > Room
      BY <1>7, <1>8, <1>12, <2>1
    <3> QED BY <1>1, <1>11, <1>15, <3>1, <3>2 DEF FoundSoFar, Gatt!WalkIsWhole
  <2>2. CASE ~(Len(fit) < Len(es)) /\ last = Top
    <3>1. ~a_walk'.on /\ a_walk'.end = "Ok" BY <1>1, <1>9, <2>2 DEF GattWalk
    <3>2. a_walk.clean => Gatt!Entries(a_db, a_walk.kind, a_walk.lo, a_walk.hi) = all
      <4> SUFFICES ASSUME a_walk.clean PROVE Gatt!Entries(a_db, a_walk.kind, a_walk.lo, a_walk.hi) = all OBVIOUS
      <4>1. PICK n \in 1..Len(E) :
              /\ last = E[n][2]
              /\ Gatt!Entries(a_db, a_walk.kind, a_walk.lo, a_walk.hi) = all \o SubSeq(E, n + 1, Len(E))
        BY <1>20, <2>2
      <4>2. n = Len(E) BY <1>8, <2>2, <4>1
      <4>3. SubSeq(E, n + 1, Len(E)) = <<>>
        <5>1. Len(E) < n + 1 /\ n + 1 \in Int BY <1>8, <4>2
        <5> QED BY <1>8, <5>1, SubSeqEmpty
      <4> QED BY <1>7, <4>1, <4>3, ConcatEmptySeq
    <3> QED BY <1>1, <1>15, <3>1, <3>2 DEF FoundSoFar, Gatt!WalkIsWhole
  <2>3. CASE ~(Len(fit) < Len(es)) /\ last # Top
    <3>1. a_walk'.on /\ a_walk'.end = "None" /\ a_walk'.start = last + 1 BY <1>1, <1>9, <2>3 DEF GattWalk
    <3>2. a_walk.clean => Gatt!Entries(a_db, a_walk.kind, a_walk.lo, a_walk.hi)
                            = all \o Gatt!Entries(a_db, a_walk.kind, a_walk'.start, a_walk.hi)
      BY <1>8, <1>20, <2>3, <3>1 DEF E
    <3> QED BY <1>1, <1>15, <3>1, <3>2 DEF FoundSoFar, Gatt!WalkIsWhole
  <2> QED BY <2>1, <2>2, <2>3
<1> QED BY <1>16, <1>18, <1>19, <1>21 DEF GattInv

\* An error about the request ends the walk, and what is not its answer is skipped.
LEMMA GattWaits == GattInv /\ Gatt!Waits => GattInv'
<1> DEFINE c == Gatt!Complete
<1> SUFFICES ASSUME GattInv, Gatt!Waits PROVE GattInv' OBVIOUS
<1>1. GattTyped /\ UNCHANGED <<a_db, a_walks, a_toServer, a_up, a_slow>> /\ a_walk.asked /\ a_walk.on
      /\ a_walk \in GattWalk /\ a_walk.end = "None" /\ Gatt!Fed /\ a_owed \in 0..a_slow /\ a_slow \in 0..Slow
  BY DEF GattInv, GattTyped, Gatt!Waits
<1>2. /\ a_toUs' \in Seq(GattFragment) /\ a_reasm' \in GattPdu
      /\ Came(a_toUs, a_reasm) \in Nat /\ Came(a_toUs', a_reasm') \in Nat
      /\ Came(a_toUs', a_reasm') + One(Gatt!Answer(c)) <= Came(a_toUs, a_reasm)
      /\ \A db, w : Fitting(a_toUs, a_reasm, db, w) =>
           Fitting(a_toUs', a_reasm', db, w) /\ (Gatt!Answer(c) => Fits(c, db, w))
  BY <1>1, GattFed
<1>3. Len(a_toServer) \in Nat /\ Outstanding <= a_owed + 1 /\ a_owed \in Nat /\ a_slow \in Nat
  BY <1>1, GattBounds, AttAssumption DEF GattInv, NoMoreThanOwed, One
<1>4. Outstanding' = Len(a_toServer) + Came(a_toUs', a_reasm') /\ Outstanding = Len(a_toServer) + Came(a_toUs, a_reasm)
  BY <1>1 DEF Outstanding
<1> HIDE DEF c
<1>5. CASE c.op = Gatt!Rsp(a_walk.kind) BY <1>5, GattTakes DEF c
<1>6. CASE c.op # Gatt!Rsp(a_walk.kind) /\ c.op = Gatt!Err(a_walk.kind)
  <2>1. a_walk' = [a_walk EXCEPT !.on = FALSE, !.asked = FALSE, !.end = "Ok"] /\ a_owed' = a_owed
    BY <1>6 DEF Gatt!Waits, Gatt!Ended, c
  <2>2. a_walk' \in GattWalk /\ a_walk'.found = a_walk.found BY <1>1, <2>1 DEF GattWalk
  <2>3. ~a_walk'.on /\ ~a_walk'.asked /\ a_walk'.end = "Ok" /\ a_walk'.clean = a_walk.clean /\ a_walk'.kind = a_walk.kind
        /\ a_walk'.lo = a_walk.lo /\ a_walk'.hi = a_walk.hi
    BY <1>1, <2>1 DEF GattWalk
  <2>4. GattTyped' BY <1>1, <1>2, <2>1, <2>2, <2>3 DEF GattTyped
  <2>5. Gatt!Answer(c) BY <1>6 DEF Gatt!Err, Gatt!Answer
  <2>6. One(Gatt!Answer(c)) = 1 /\ One(a_walk'.asked) = 0 BY <2>3, <2>5 DEF One
  <2>7. Outstanding' <= a_owed' BY <1>2, <1>3, <1>4, <2>1, <2>6
  <2>8. a_walk.clean => Gatt!Entries(a_db, a_walk.kind, a_walk.lo, a_walk.hi) = a_walk.found
    <3> SUFFICES ASSUME a_walk.clean PROVE Gatt!Entries(a_db, a_walk.kind, a_walk.lo, a_walk.hi) = a_walk.found OBVIOUS
    <3>1. Fitting(a_toUs, a_reasm, a_db, a_walk) BY <1>1 DEF GattInv, AnswersFit
    <3>2. Fits(c, a_db, a_walk) BY <1>2, <2>5, <3>1
    <3>3. Gatt!Entries(a_db, a_walk.kind, a_walk.start, a_walk.hi) = <<>>
      <4>1. Gatt!Err(a_walk.kind) # Gatt!Fault(a_walk.kind) BY DEF Gatt!Err, Gatt!Fault
      <4> QED BY <1>6, <3>2, <4>1 DEF Fits
    <3>4. a_walk.found \o <<>> = a_walk.found BY <1>1, ConcatEmptySeq DEF GattWalk
    <3> QED BY <1>1, <3>3, <3>4 DEF GattInv, FoundSoFar
  <2>9. Gatt!WalkIsWhole' BY <1>1, <2>2, <2>3, <2>8 DEF Gatt!WalkIsWhole
  <2>10. AnswersFit' /\ FoundSoFar' BY <2>3 DEF AnswersFit, FoundSoFar
  <2>11. NoMoreThanOwed'
    <3>1. Outstanding' <= a_owed' + One(a_walk'.asked)
      <4>1. a_owed' \in Nat BY <1>3, <2>1
      <4> QED BY <2>6, <2>7, <4>1
    <3> QED BY <3>1 DEF NoMoreThanOwed
  <2> QED BY <2>4, <2>9, <2>10, <2>11 DEF GattInv
<1>8. CASE c.op # Gatt!Rsp(a_walk.kind) /\ c.op # Gatt!Err(a_walk.kind) /\ c.op = Gatt!Fault(a_walk.kind)
  <2>1. a_walk' = [a_walk EXCEPT !.on = FALSE, !.asked = FALSE, !.end = "Error"] /\ a_owed' = a_owed
    BY <1>8 DEF Gatt!Waits, Gatt!Ended, c
  <2>2. a_walk' \in GattWalk /\ a_walk'.found = a_walk.found BY <1>1, <2>1 DEF GattWalk
  <2>3. ~a_walk'.on /\ ~a_walk'.asked /\ a_walk'.end = "Error" BY <1>1, <2>1 DEF GattWalk
  <2>4. GattTyped' BY <1>1, <1>2, <2>1, <2>2, <2>3 DEF GattTyped
  <2>5. Gatt!Answer(c) BY <1>8 DEF Gatt!Fault, Gatt!Answer
  <2>6. One(Gatt!Answer(c)) = 1 /\ One(a_walk'.asked) = 0 BY <2>3, <2>5 DEF One
  <2>7. Outstanding' <= a_owed' /\ a_owed' \in Nat BY <1>2, <1>3, <1>4, <2>1, <2>6
  <2>8. Outstanding' <= a_owed' + One(a_walk'.asked) BY <2>6, <2>7
  <2>9. NoMoreThanOwed' BY <2>8 DEF NoMoreThanOwed
  <2>10. AnswersFit' /\ FoundSoFar' /\ Gatt!WalkIsWhole' BY <2>3 DEF AnswersFit, FoundSoFar, Gatt!WalkIsWhole
  <2> QED BY <2>4, <2>9, <2>10 DEF GattInv
<1>7. CASE c.op # Gatt!Rsp(a_walk.kind) /\ c.op # Gatt!Err(a_walk.kind) /\ c.op # Gatt!Fault(a_walk.kind)
  <2>1. a_walk' = a_walk /\ a_owed' = IF a_owed > 0 /\ Gatt!Answer(c) THEN a_owed - 1 ELSE a_owed
    BY <1>7 DEF Gatt!Waits, Gatt!PassesBy, c
  <2>2. a_owed' \in 0..a_slow' BY <1>1, <1>3, <2>1
  <2>3. GattTyped' BY <1>1, <1>2, <2>1, <2>2 DEF GattTyped
  <2>4. Outstanding' <= a_owed' + 1 BY <1>2, <1>3, <1>4, <2>1 DEF One
  <2>5. NoMoreThanOwed' BY <1>1, <2>1, <2>4 DEF NoMoreThanOwed, One
  <2>6. AnswersFit'
    <3> SUFFICES ASSUME a_walk.clean PROVE AnswersFit' BY <2>1 DEF AnswersFit
    <3>1. a_owed = 0 /\ Fitting(a_toUs, a_reasm, a_db, a_walk)
          /\ \A k \in DOMAIN a_toServer : a_toServer[k] = [kind |-> a_walk.kind, lo |-> a_walk.start, hi |-> a_walk.hi]
      BY <1>1 DEF GattInv, AnswersFit
    <3>2. Fitting(a_toUs', a_reasm', a_db, a_walk) BY <1>2, <3>1
    <3>3. a_owed' = 0 BY <2>1, <3>1
    <3> QED BY <1>1, <2>1, <3>1, <3>2, <3>3 DEF AnswersFit
  <2>7. FoundSoFar' /\ Gatt!WalkIsWhole' BY <1>1, <2>1 DEF GattInv, FoundSoFar, Gatt!WalkIsWhole
  <2> QED BY <2>3, <2>5, <2>6, <2>7 DEF GattInv
<1> QED BY <1>5, <1>6, <1>7, <1>8

LEMMA GattFeeds == GattInv /\ Gatt!Feeds => GattInv'
<1> DEFINE c == Gatt!Complete
<1> SUFFICES ASSUME GattInv, Gatt!Feeds PROVE GattInv' OBVIOUS
<1>1. GattTyped /\ UNCHANGED <<a_db, a_walk, a_walks, a_toServer, a_up, a_slow>> /\ ~a_walk.on /\ ~a_walk.asked
      /\ a_walk.end # "Down" /\ Gatt!Fed /\ a_owed \in 0..a_slow /\ a_slow \in 0..Slow
      /\ a_owed' = IF a_owed > 0 /\ Gatt!Answer(c) THEN a_owed - 1 ELSE a_owed
  BY DEF GattInv, GattTyped, Gatt!Feeds, Gatt!Resting, Gatt!PassesBy
<1>2. /\ a_toUs' \in Seq(GattFragment) /\ a_reasm' \in GattPdu
      /\ Came(a_toUs, a_reasm) \in Nat /\ Came(a_toUs', a_reasm') \in Nat
      /\ Came(a_toUs', a_reasm') + One(Gatt!Answer(c)) <= Came(a_toUs, a_reasm)
  BY <1>1, GattFed
<1>3. Len(a_toServer) \in Nat /\ Outstanding <= a_owed /\ a_owed \in Nat /\ a_slow \in Nat
  <2>1. One(a_walk.asked) = 0 BY <1>1 DEF One
  <2>2. Outstanding <= a_owed + 0 BY <1>1, <2>1 DEF GattInv, NoMoreThanOwed
  <2>3. a_owed \in Nat /\ a_slow \in Nat BY <1>1, AttAssumption
  <2>4. Len(a_toServer) \in Nat BY <1>1, GattBounds
  <2> QED BY <2>2, <2>3, <2>4
<1>4. Outstanding' = Len(a_toServer) + Came(a_toUs', a_reasm') /\ Outstanding = Len(a_toServer) + Came(a_toUs, a_reasm)
  BY <1>1 DEF Outstanding
<1> HIDE DEF c
<1>5. a_owed' \in 0..a_slow' BY <1>1, <1>3
<1>6. GattTyped' BY <1>1, <1>2, <1>5 DEF GattTyped
<1>7. Outstanding' <= a_owed' BY <1>1, <1>2, <1>3, <1>4 DEF One
<1>8. NoMoreThanOwed'
  <2>1. One(a_walk'.asked) = 0 BY <1>1 DEF One
  <2>2. a_owed' \in Nat BY <1>1, <1>3
  <2>3. Outstanding' <= a_owed' + One(a_walk'.asked) BY <1>7, <2>1, <2>2
  <2> QED BY <2>3 DEF NoMoreThanOwed
<1>9. AnswersFit' /\ FoundSoFar' /\ Gatt!WalkIsWhole'
  BY <1>1 DEF GattInv, AnswersFit, FoundSoFar, Gatt!WalkIsWhole
<1> QED BY <1>6, <1>8, <1>9 DEF GattInv

LEMMA GattGivesUp == GattInv /\ Gatt!GivesUp => GattInv'
<1> SUFFICES ASSUME GattInv, Gatt!GivesUp PROVE GattInv' OBVIOUS
<1>1. GattTyped /\ UNCHANGED <<a_db, a_walks, a_toServer, a_toUs, a_reasm, a_up>> /\ a_walk.asked /\ a_walk.on
      /\ a_walk \in GattWalk /\ a_walk.end = "None" /\ a_owed \in 0..a_slow /\ a_slow \in 0..Slow /\ a_slow < Slow
      /\ a_slow' = a_slow + 1 /\ a_owed' = a_owed + 1
      /\ a_walk' = [a_walk EXCEPT !.on = FALSE, !.asked = FALSE, !.end = "Timeout"]
  BY DEF GattInv, GattTyped, Gatt!GivesUp, Gatt!Ended
<1>2. a_walk' \in GattWalk /\ ~a_walk'.on /\ ~a_walk'.asked /\ a_walk'.end = "Timeout" /\ a_walk'.found = a_walk.found
  BY <1>1 DEF GattWalk
<1>3. a_owed' \in 0..a_slow' /\ a_slow' \in 0..Slow BY <1>1, AttAssumption
<1>4. GattTyped' BY <1>1, <1>2, <1>3 DEF GattTyped
<1>5. NoMoreThanOwed'
  <2>1. Outstanding' = Outstanding BY <1>1 DEF Outstanding
  <2>2. Outstanding <= a_owed + 1 BY <1>1 DEF GattInv, NoMoreThanOwed, One
  <2>3. One(a_walk'.asked) = 0 BY <1>2 DEF One
  <2>4. a_owed' \in Nat BY <1>1, AttAssumption
  <2>5. Outstanding \in Nat /\ a_owed \in Nat /\ a_owed' = a_owed + 1 BY <1>1, GattBounds, AttAssumption
  <2>6. Outstanding' <= a_owed' + 0 BY <2>1, <2>2, <2>4, <2>5
  <2>7. Outstanding' <= a_owed' + One(a_walk'.asked) BY <2>3, <2>6
  <2> QED BY <2>7 DEF NoMoreThanOwed
<1>6. AnswersFit' /\ FoundSoFar' /\ Gatt!WalkIsWhole' BY <1>2 DEF AnswersFit, FoundSoFar, Gatt!WalkIsWhole
<1> QED BY <1>4, <1>5, <1>6 DEF GattInv

LEMMA GattLearns == GattInv /\ Gatt!LearnsOfEnd => GattInv'
<1> SUFFICES ASSUME GattInv, Gatt!LearnsOfEnd PROVE GattInv' OBVIOUS
<1>1. GattTyped /\ UNCHANGED <<a_db, a_walks, a_toServer, a_reasm, a_up, a_slow, a_owed>> /\ a_walk \in GattWalk
      /\ a_toUs \in Seq(GattFragment) /\ a_toUs # <<>> /\ a_toUs' = Tail(a_toUs)
      /\ a_walk' = [a_walk EXCEPT !.on = FALSE, !.asked = FALSE, !.end = "Down"]
  BY DEF GattInv, GattTyped, Gatt!LearnsOfEnd, Gatt!Polled, Gatt!Ended
<1>2. a_walk' \in GattWalk /\ ~a_walk'.on /\ ~a_walk'.asked /\ a_walk'.end = "Down" /\ a_walk'.found = a_walk.found
  BY <1>1 DEF GattWalk
<1>3. a_toUs' \in Seq(GattFragment) /\ \A k \in DOMAIN a_toUs' : k + 1 \in DOMAIN a_toUs /\ a_toUs'[k] = a_toUs[k + 1]
  <2>1. Tail(a_toUs) \in Seq(GattFragment) /\ Len(a_toUs) \in Nat \ {0} /\ DOMAIN a_toUs = 1..Len(a_toUs)
        /\ DOMAIN Tail(a_toUs) = 1..(Len(a_toUs) - 1)
        /\ \A k \in 1..(Len(a_toUs) - 1) : Tail(a_toUs)[k] = a_toUs[k + 1]
    BY <1>1, Shortened
  <2> QED BY <1>1, <2>1
<1>4. GattTyped' BY <1>1, <1>2, <1>3 DEF GattTyped
<1>5. NoMoreThanOwed' /\ AnswersFit' /\ FoundSoFar' /\ Gatt!WalkIsWhole'
  BY <1>2 DEF NoMoreThanOwed, AnswersFit, FoundSoFar, Gatt!WalkIsWhole
<1> QED BY <1>4, <1>5 DEF GattInv

LEMMA GattServe == GattInv /\ Gatt!Serve => GattInv'
<1> DEFINE q == Head(a_toServer)
           es == Gatt!Entries(a_db, q.kind, q.lo, q.hi)
<1> SUFFICES ASSUME GattInv, Gatt!Serve PROVE GattInv' OBVIOUS
<1>1. GattTyped /\ UNCHANGED <<a_db, a_walk, a_walks, a_reasm, a_up, a_slow, a_owed>>
      /\ a_toServer \in Seq(GattRequest) /\ a_toServer # <<>> /\ a_toServer' = Tail(a_toServer)
  BY DEF GattInv, GattTyped, Gatt!Serve, Gatt!Server
<1>2. /\ a_toServer' \in Seq(GattRequest) /\ Len(a_toServer) \in Nat \ {0} /\ Len(a_toServer') = Len(a_toServer) - 1
      /\ q = a_toServer[1] /\ q \in GattRequest /\ 1 \in DOMAIN a_toServer
      /\ \A k \in DOMAIN a_toServer' : k + 1 \in DOMAIN a_toServer /\ a_toServer'[k] = a_toServer[k + 1]
  <2>1. /\ Tail(a_toServer) \in Seq(GattRequest) /\ Len(a_toServer) \in Nat \ {0}
        /\ Len(Tail(a_toServer)) = Len(a_toServer) - 1
        /\ q = a_toServer[1] /\ q \in GattRequest /\ 1 \in DOMAIN a_toServer
        /\ DOMAIN a_toServer = 1..Len(a_toServer) /\ DOMAIN Tail(a_toServer) = 1..(Len(a_toServer) - 1)
        /\ \A k \in 1..(Len(a_toServer) - 1) : Tail(a_toServer)[k] = a_toServer[k + 1]
    BY <1>1, Shortened
  <2> HIDE DEF q
  <2> QED BY <1>1, <2>1
<1>3. es \in Seq(Gatt!Group) /\ Len(es) \in Nat
  <2>1. a_db \in Databases /\ q.kind \in GattKinds /\ q.lo \in Nat /\ q.hi \in Nat
    BY <1>1, <1>2, AttAssumption DEF GattTyped, GattRequest
  <2>2. Gatt!Ordered(a_db[q.kind]) /\ es = Part(a_db[q.kind], q.lo, q.hi) BY <2>1, AttRanges
  <2> HIDE DEF es
  <2> QED BY <2>1, <2>2, PartIs
<1>4. PICK pdu \in GattPdu :
        /\ Gatt!Sends(pdu) /\ Gatt!Answer(pdu)
        /\ \/ es = <<>> /\ pdu.op = Gatt!Err(q.kind)
           \/ pdu.op = Gatt!Rsp(q.kind) /\ \E n \in 1..Len(es) : pdu.entries = SubSeq(es, 1, n)
           \/ pdu.op = Gatt!Fault(q.kind)
  <2>1. CASE es = <<>> /\ Gatt!Sends(Gatt!Pdu(Gatt!Err(q.kind), <<>>))
    <3> DEFINE p == Gatt!Pdu(Gatt!Err(q.kind), <<>>)
    <3>1. Gatt!Sends(p) BY <2>1
    <3>2. <<>> \in Seq(Gatt!Group) BY EmptySeq
    <3>3. p.op = Gatt!Err(q.kind) /\ p \in GattPdu /\ Gatt!Answer(p)
      BY <3>2 DEF Gatt!Pdu, Gatt!Err, GattPdu, Gatt!Answer
    <3> QED BY <2>1, <3>1, <3>3
  <2>2. CASE \E n \in 1..Len(es) : Gatt!Sends(Gatt!Pdu(Gatt!Rsp(q.kind), SubSeq(es, 1, n)))
    <3>1. PICK n \in 1..Len(es) : Gatt!Sends(Gatt!Pdu(Gatt!Rsp(q.kind), SubSeq(es, 1, n))) BY <2>2
    <3> HIDE DEF es
    <3> DEFINE s == SubSeq(es, 1, n)
               p == Gatt!Pdu(Gatt!Rsp(q.kind), s)
    <3>2. s \in Seq(Gatt!Group)
      <4>1. \A i \in 1..n : es[i] \in Gatt!Group BY <1>3, ElementOfSeq
      <4> QED BY <1>3, <4>1, SubSeqProperties
    <3>3. p.op = Gatt!Rsp(q.kind) /\ p.entries = s /\ p \in GattPdu /\ Gatt!Answer(p)
      <4> HIDE DEF s
      <4> QED BY <3>2 DEF Gatt!Pdu, Gatt!Rsp, GattPdu, Gatt!Answer
    <3> QED BY <3>1, <3>3
  <2>3. CASE Gatt!Sends(Gatt!Pdu(Gatt!Fault(q.kind), <<>>))
    <3> DEFINE p == Gatt!Pdu(Gatt!Fault(q.kind), <<>>)
    <3>1. <<>> \in Seq(Gatt!Group) BY EmptySeq
    <3>2. p.op = Gatt!Fault(q.kind) /\ p \in GattPdu /\ Gatt!Answer(p)
      BY <3>1 DEF Gatt!Pdu, Gatt!Fault, GattPdu, Gatt!Answer
    <3> QED BY <2>3, <3>2
  <2> QED BY <2>1, <2>2, <2>3 DEF Gatt!Serve
<1>5. /\ a_toUs' \in Seq(GattFragment)
      /\ Came(a_toUs, a_reasm) \in Nat
      /\ Came(a_toUs', a_reasm) = Came(a_toUs, a_reasm) + 1
      /\ \A db, w : Fitting(a_toUs, a_reasm, db, w) /\ Fits(pdu, db, w) => Fitting(a_toUs', a_reasm, db, w)
  BY <1>1, <1>4, GattSends DEF One
<1> HIDE DEF es, q
<1>6. GattTyped' BY <1>1, <1>2, <1>5 DEF GattTyped
<1>7. Outstanding' = Outstanding BY <1>1, <1>2, <1>5 DEF Outstanding
<1>8. NoMoreThanOwed' BY <1>1, <1>7 DEF GattInv, NoMoreThanOwed
<1>9. AnswersFit'
  <2> SUFFICES ASSUME a_walk.on, a_walk.clean PROVE AnswersFit' BY <1>1 DEF AnswersFit
  <2>1. a_owed = 0 /\ Fitting(a_toUs, a_reasm, a_db, a_walk)
        /\ \A k \in DOMAIN a_toServer : a_toServer[k] = [kind |-> a_walk.kind, lo |-> a_walk.start, hi |-> a_walk.hi]
    BY DEF GattInv, AnswersFit
  <2>2. q.kind = a_walk.kind /\ q.lo = a_walk.start /\ q.hi = a_walk.hi BY <1>2, <2>1
  <2>3. Fits(pdu, a_db, a_walk) BY <1>4, <2>2 DEF Fits, es
  <2>4. Fitting(a_toUs', a_reasm, a_db, a_walk) BY <1>5, <2>1, <2>3
  <2>5. \A k \in DOMAIN a_toServer' : a_toServer'[k] = [kind |-> a_walk.kind, lo |-> a_walk.start, hi |-> a_walk.hi]
    BY <1>2, <2>1
  <2> QED BY <1>1, <2>1, <2>4, <2>5 DEF AnswersFit
<1>10. FoundSoFar' /\ Gatt!WalkIsWhole' BY <1>1 DEF GattInv, FoundSoFar, Gatt!WalkIsWhole
<1> QED BY <1>6, <1>8, <1>9, <1>10 DEF GattInv

\* An answer outside the protocol makes a walk unclean.
LEMMA GattOutside == ASSUME GattInv, NEW es \in Seq(Gatt!Group), Gatt!Outside(es) PROVE GattInv'
<1> DEFINE p == Gatt!Pdu(Gatt!Rsp(Head(a_toServer).kind), es)
<1>1. GattTyped /\ UNCHANGED <<a_db, a_walks, a_reasm, a_up, a_slow, a_owed>> /\ Gatt!Sends(p) /\ a_walk \in GattWalk
      /\ a_toServer \in Seq(GattRequest) /\ a_toServer # <<>> /\ a_toServer' = Tail(a_toServer)
      /\ a_walk' = [a_walk EXCEPT !.clean = FALSE]
  BY DEF GattInv, GattTyped, Gatt!Outside
<1>2. a_toServer' \in Seq(GattRequest) /\ Len(a_toServer) \in Nat \ {0} /\ Len(a_toServer') = Len(a_toServer) - 1
  BY <1>1, Shortened
<1>3. p \in GattPdu /\ Gatt!Answer(p) BY DEF Gatt!Pdu, Gatt!Rsp, GattPdu, Gatt!Answer
<1> HIDE DEF p
<1>4. a_toUs' \in Seq(GattFragment) /\ Came(a_toUs, a_reasm) \in Nat
      /\ Came(a_toUs', a_reasm) = Came(a_toUs, a_reasm) + 1
  BY <1>1, <1>3, GattSends DEF One
<1>5. /\ a_walk' \in GattWalk /\ ~a_walk'.clean /\ a_walk'.asked = a_walk.asked /\ a_walk'.on = a_walk.on
      /\ a_walk'.end = a_walk.end /\ a_walk'.found = a_walk.found
  BY <1>1 DEF GattWalk
<1>6. GattTyped' BY <1>1, <1>2, <1>4, <1>5 DEF GattTyped
<1>7. Outstanding' = Outstanding BY <1>1, <1>2, <1>4 DEF Outstanding
<1>8. NoMoreThanOwed' BY <1>1, <1>5, <1>7 DEF GattInv, NoMoreThanOwed
<1>9. AnswersFit' /\ FoundSoFar' /\ Gatt!WalkIsWhole' BY <1>5 DEF AnswersFit, FoundSoFar, Gatt!WalkIsWhole
<1> QED BY <1>6, <1>8, <1>9 DEF GattInv

LEMMA GattStrays == GattInv /\ (Gatt!Strays \/ Gatt!ListsNothing) => GattInv'
<1>1. <<>> \in Seq(Gatt!Group) BY EmptySeq
<1>2. \A h \in 1..Top : <<<<h, h>>>> \in Seq(Gatt!Group)
  <2> SUFFICES ASSUME NEW h \in 1..Top PROVE <<<<h, h>>>> \in Seq(Gatt!Group) OBVIOUS
  <2>1. <<h, h>> \in Gatt!Group BY DEF Gatt!Group
  <2> QED BY <2>1
<1>3. {1, Top} \subseteq 1..Top BY AttAssumption
<1> QED BY <1>1, <1>2, <1>3, GattOutside DEF Gatt!Strays, Gatt!ListsNothing

LEMMA GattInterject == GattInv /\ Gatt!Interject => GattInv'
<1> SUFFICES ASSUME GattInv, Gatt!Interject PROVE GattInv' OBVIOUS
<1> DEFINE p == Gatt!Pdu("Other", <<>>)
<1>1. GattTyped /\ UNCHANGED <<a_db, a_walk, a_walks, a_toServer, a_reasm, a_up, a_slow, a_owed>> /\ Gatt!Sends(p)
  BY DEF GattInv, Gatt!Interject, Gatt!Server
<1>2. p \in GattPdu /\ ~Gatt!Answer(p)
  <2>1. <<>> \in Seq(Gatt!Group) BY EmptySeq
  <2> QED BY <2>1 DEF Gatt!Pdu, GattPdu, Gatt!Answer
<1>3. /\ a_toUs' \in Seq(GattFragment)
      /\ Came(a_toUs, a_reasm) \in Nat
      /\ Came(a_toUs', a_reasm) = Came(a_toUs, a_reasm) + 0
      /\ \A db, w : Fitting(a_toUs, a_reasm, db, w) => Fitting(a_toUs', a_reasm, db, w)
  BY <1>1, <1>2, GattSends DEF One
<1> HIDE DEF p
<1>4. GattTyped' BY <1>1, <1>3 DEF GattTyped
<1>5. Outstanding' = Outstanding BY <1>1, <1>3 DEF Outstanding
<1>6. NoMoreThanOwed' BY <1>1, <1>5 DEF GattInv, NoMoreThanOwed
<1>7. AnswersFit' BY <1>1, <1>3 DEF GattInv, AnswersFit
<1>8. FoundSoFar' /\ Gatt!WalkIsWhole' BY <1>1 DEF GattInv, FoundSoFar, Gatt!WalkIsWhole
<1> QED BY <1>4, <1>6, <1>7, <1>8 DEF GattInv

LEMMA GattDrop == GattInv /\ Gatt!Drop => GattInv'
<1> DEFINE d == [part |-> "Down", pdu |-> Gatt!None]
<1> SUFFICES ASSUME GattInv, Gatt!Drop PROVE GattInv' OBVIOUS
<1>1. GattTyped /\ UNCHANGED <<a_db, a_walk, a_walks, a_reasm, a_slow, a_owed>> /\ a_toServer' = <<>> /\ a_up' = FALSE
      /\ a_toUs \in Seq(GattFragment)
  BY DEF GattInv, GattTyped, Gatt!Drop
<1>2. PICK n \in 0..Len(a_toUs) : a_toUs' = Append(SubSeq(a_toUs, 1, n), d) BY DEF Gatt!Drop
<1>3. d \in GattFragment /\ d \notin Bearing
  <2>1. d \in GattFragment BY GattNone DEF GattFragment
  <2> QED BY <2>1, BearingIs, GattNone
<1>4. Len(a_toUs) \in Nat /\ DOMAIN a_toUs = 1..Len(a_toUs) /\ n \in Nat /\ n <= Len(a_toUs) BY <1>1, LenProperties
<1> DEFINE s == SubSeq(a_toUs, 1, n)
<1>5. s \in Seq(GattFragment) /\ Len(s) = n /\ \A i \in 1..n : s[i] = a_toUs[i]
  <2>1. \A i \in 1..n : a_toUs[i] \in GattFragment BY <1>1, <1>4, ElementOfSeq
  <2>2. /\ s \in Seq(GattFragment) /\ Len(s) = (IF 1 <= n THEN n - 1 + 1 ELSE 0)
        /\ \A i \in 1..(n - 1 + 1) : s[i] = a_toUs[1 + i - 1]
    BY <1>4, <2>1, SubSeqProperties
  <2>3. n - 1 + 1 = n /\ (~(1 <= n) => n = 0) /\ \A i \in 1..n : 1 + i - 1 = i BY <1>4
  <2> HIDE DEF s
  <2> QED BY <2>2, <2>3
<1>6. a_toUs' = Append(s, d) BY <1>2
<1> HIDE DEF s, d
<1>7. /\ a_toUs' \in Seq(GattFragment) /\ DOMAIN a_toUs' = 1..(n + 1) /\ a_toUs'[n + 1] = d
      /\ \A k \in 1..n : a_toUs'[k] = a_toUs[k]
  BY <1>3, <1>5, <1>6, Appended
<1>8. \A k \in DOMAIN a_toUs' : (k \in DOMAIN a_toUs /\ a_toUs'[k] = a_toUs[k]) \/ a_toUs'[k] = d
  <2>1. \A k \in 1..(n + 1) : k = n + 1 \/ (k \in 1..n /\ k \in 1..Len(a_toUs)) BY <1>4
  <2> QED BY <1>4, <1>7, <2>1
<1>10. <<>> \in Seq(GattRequest) /\ Len(<<>>) = 0 BY EmptySeq
<1>11. GattTyped' BY <1>1, <1>7, <1>10 DEF GattTyped
<1>12. Hits(a_toUs', Bearing) \subseteq Hits(a_toUs, Bearing) BY <1>3, <1>8 DEF Hits
<1>13. IsFiniteSet(Hits(a_toUs, Bearing)) /\ Cardinality(Hits(a_toUs, Bearing)) \in Nat BY <1>4, HitsNat
<1>14. Cardinality(Hits(a_toUs', Bearing)) <= Cardinality(Hits(a_toUs, Bearing)) BY <1>12, <1>13, FS_Subset
<1>15. Cardinality(Hits(a_toUs', Bearing)) \in Nat
  <2>1. IsFiniteSet(Hits(a_toUs', Bearing)) BY <1>12, <1>13, FS_Subset
  <2> QED BY <2>1, FS_CardinalityType
<1>16. Outstanding' <= Outstanding /\ Outstanding' \in Nat /\ Outstanding \in Nat
  <2>1. Len(a_toServer) \in Nat BY <1>1, GattBounds
  <2>2. Len(a_toServer') = 0 BY <1>1, <1>10
  <2> QED BY <1>1, <1>13, <1>14, <1>15, <2>1, <2>2 DEF Outstanding, Came, One
<1>17. NoMoreThanOwed'
  <2>1. a_owed \in Nat /\ One(a_walk.asked) \in Nat BY <1>1, AttAssumption DEF GattTyped, One
  <2>2. a_walk.end # "Down" => Outstanding' <= a_owed + One(a_walk.asked)
    BY <1>16, <2>1 DEF GattInv, NoMoreThanOwed
  <2> QED BY <1>1, <2>2 DEF NoMoreThanOwed
<1>18. AnswersFit'
  <2>1. \A db, w : Fitting(a_toUs, a_reasm, db, w) => Fitting(a_toUs', a_reasm, db, w) BY <1>3, <1>8 DEF Fitting
  <2>2. DOMAIN a_toServer' = {} BY <1>1
  <2> QED BY <1>1, <2>1, <2>2 DEF GattInv, AnswersFit
<1>19. FoundSoFar' /\ Gatt!WalkIsWhole' BY <1>1 DEF GattInv, FoundSoFar, Gatt!WalkIsWhole
<1> QED BY <1>11, <1>17, <1>18, <1>19 DEF GattInv

LEMMA GattInit == Gatt!Init => GattInv
<1> SUFFICES ASSUME Gatt!Init PROVE GattInv OBVIOUS
<1>1. <<>> \in Seq(Gatt!Group) /\ <<>> \in Seq(GattRequest) /\ <<>> \in Seq(GattFragment) /\ Len(<<>>) = 0 BY EmptySeq
<1>2. /\ a_db \in Databases /\ a_walks = 0 /\ a_toServer = <<>> /\ a_toUs = <<>> /\ a_reasm = Gatt!None /\ a_up = TRUE
      /\ a_slow = 0 /\ a_owed = 0
      /\ a_walk = [on |-> FALSE, kind |-> "Services", lo |-> 1, hi |-> Top, start |-> 1,
                   found |-> <<>>, asked |-> FALSE, end |-> "None", clean |-> TRUE]
  BY DEF Gatt!Init
<1>3. a_walk \in GattWalk BY <1>1, <1>2, AttAssumption DEF GattWalk, GattKinds
<1>4. GattTyped BY <1>1, <1>2, <1>3, AttAssumption, GattNone DEF GattTyped
<1>5. Hits(a_toUs, Bearing) = {} BY <1>2 DEF Hits
<1>6. Outstanding = 0
  <2>1. Len(a_toServer) = 0 BY <1>1, <1>2
  <2>2. Cardinality(Hits(a_toUs, Bearing)) = 0 BY <1>5, FS_EmptySet
  <2>3. One(Gatt!Answer(a_reasm)) = 0 BY <1>2, GattNone DEF One
  <2> QED BY <2>1, <2>2, <2>3 DEF Outstanding, Came
<1>7. NoMoreThanOwed BY <1>2, <1>6 DEF NoMoreThanOwed, One
<1>8. AnswersFit /\ FoundSoFar /\ Gatt!WalkIsWhole BY <1>2 DEF AnswersFit, FoundSoFar, Gatt!WalkIsWhole
<1> QED BY <1>4, <1>7, <1>8 DEF GattInv

LEMMA GattStep == GattInv /\ [Gatt!Next]_aVars => GattInv'
<1> SUFFICES ASSUME GattInv, [Gatt!Next]_aVars PROVE GattInv' OBVIOUS
<1>1. CASE UNCHANGED aVars
  BY <1>1 DEF aVars, GattInv, GattTyped, NoMoreThanOwed, Outstanding, AnswersFit, FoundSoFar, Gatt!WalkIsWhole
<1> QED BY <1>1, GattDiscover, GattRequests, GattWaits, GattFeeds, GattGivesUp, GattLearns, GattServe, GattStrays,
           GattInterject, GattDrop DEF Gatt!Next, Gatt!Client

-----------------------------------------------------------------------------
(* All of them. *)

\* The invariant of every program.
MmalOne == IF program = "narrow" THEN MmalInv(FewLent, FewBulks) ELSE MmalInv(Lent, Bulks)
BtOne == IF program = "links" THEN BtInv(Handles, FewOpcodes) /\ LinksInv(Handles, FewOpcodes)
         ELSE BtInv(FewHandles, Opcodes) /\ LinksInv(FewHandles, Opcodes)
MCInv == /\ CreditInv /\ ChipInv /\ LinkInv /\ NvmeInv /\ PairInv /\ VideoInv /\ GattInv /\ MmalOne /\ BtOne
         /\ WatchInv /\ EtherInv /\ RingInv /\ ClassicInv

\* The sets and sizes of both instances are what their lemmas ask for.
LEMMA BothSane == /\ Sane(Lent, Bulks) /\ Sane(FewLent, FewBulks)
                  /\ IsFiniteSet(Handles) /\ IsFiniteSet(FewHandles)
                  /\ "poll" \notin Opcodes \cup {Nothing} /\ "poll" \notin FewOpcodes \cup {Nothing}
<1>1. /\ Nothing \notin [buf : Lent, state : {"with", "receiving", "returned"}]
      /\ Nothing \notin [buf : FewLent, state : {"with", "receiving", "returned"}]
  <2>1. /\ [buf : Lent, state : {"with", "receiving", "returned"}]
             \subseteq [buf : Lent \cup FewLent, state : {"with", "receiving", "returned"}]
        /\ [buf : FewLent, state : {"with", "receiving", "returned"}]
             \subseteq [buf : Lent \cup FewLent, state : {"with", "receiving", "returned"}]
    OBVIOUS
  <2> QED BY <2>1, MmalAssumption
<1>2. Sane(Lent, Bulks) /\ Sane(FewLent, FewBulks) BY <1>1, MmalAssumption DEF Sane, Rec, Place
<1> QED BY <1>2, BtAssumption

\* What a step is to each program: one of its own, or none.
Steps == /\ program' = program
         /\ [Next]_vars /\ [Chip!Next]_dVars /\ [Link!Next]_lVars /\ [Nvme!Next]_nVars /\ [Pair!Next]_pVars
         /\ [Video!Next]_fVars /\ [Gatt!Next]_aVars
         /\ [Watch!Next]_wVars /\ [Ether!Next]_eVars /\ [Vchiq!Next]_vVars /\ [Classic!Next]_cVars
         /\ IF program = "narrow" THEN [Mmal(FewLent, FewBulks)!Next]_mVars ELSE [Mmal(Lent, Bulks)!Next]_mVars
         /\ IF program = "links" THEN [Bt(Handles, FewOpcodes)!Next]_tVars ELSE [Bt(FewHandles, Opcodes)!Next]_tVars

LEMMA MCSteps == ASSUME [MCNext]_<<program, vars, others>> PROVE Steps
<1> USE DEF others, queues, over
<1>1. CASE program = "credit" /\ Next /\ UNCHANGED <<program, others>> BY <1>1 DEF Steps
<1>2. CASE program = "chip" /\ Chip!Next /\ UNCHANGED <<program, vars, queues, pVars, over>> BY <1>2 DEF Steps
<1>3. CASE program = "pairing" /\ Pair!Next /\ UNCHANGED <<program, vars, queues, dVars, over>> BY <1>3 DEF Steps
<1>4. CASE /\ UNCHANGED <<program, vars, queues, dVars, pVars>>
           /\ \/ program = "classic" /\ Classic!Next /\ UNCHANGED <<aVars, eVars, fVars>>
              \/ program = "gatt" /\ Gatt!Next /\ UNCHANGED <<cVars, eVars, fVars>>
              \/ program = "ether" /\ Ether!Next /\ UNCHANGED <<cVars, aVars, fVars>>
              \/ program = "video" /\ Video!Next /\ UNCHANGED <<cVars, aVars, eVars>>
  BY <1>4 DEF Steps
<1>5. CASE /\ UNCHANGED <<program, vars, dVars, pVars, over>>
           /\ \/ program = "link" /\ Link!Next /\ UNCHANGED <<wVars, nVars, vVars, mVars, tVars>>
              \/ program = "watch" /\ Watch!Next /\ UNCHANGED <<lVars, nVars, vVars, mVars, tVars>>
              \/ program = "nvme" /\ Nvme!Next /\ UNCHANGED <<lVars, wVars, vVars, mVars, tVars>>
              \/ program = "vchiq" /\ Vchiq!Next /\ UNCHANGED <<lVars, wVars, nVars, mVars, tVars>>
              \/ program = "mmal" /\ Mmal(Lent, Bulks)!Next /\ UNCHANGED <<lVars, wVars, nVars, vVars, tVars>>
              \/ program = "narrow" /\ Mmal(FewLent, FewBulks)!Next /\ UNCHANGED <<lVars, wVars, nVars, vVars, tVars>>
              \/ program = "bluetooth" /\ Bt(FewHandles, Opcodes)!Next /\ UNCHANGED <<lVars, wVars, nVars, vVars, mVars>>
              \/ program = "links" /\ Bt(Handles, FewOpcodes)!Next /\ UNCHANGED <<lVars, wVars, nVars, vVars, mVars>>
  BY <1>5 DEF Steps
<1>6. CASE UNCHANGED <<program, vars, others>> BY <1>6 DEF Steps
<1> QED BY <1>1, <1>2, <1>3, <1>4, <1>5, <1>6 DEF MCNext

LEMMA MCInvInit == MCInit => MCInv
<1> SUFFICES ASSUME MCInit PROVE MCInv OBVIOUS
<1>1. MmalOne
  <2>1. CASE program = "narrow" BY <2>1, BothSane, MmalInit DEF MCInit, MmalOne
  <2>2. CASE program # "narrow" BY <2>2, BothSane, MmalInit DEF MCInit, MmalOne
  <2> QED BY <2>1, <2>2
<1>2. BtOne
  <2>1. CASE program = "links" BY <2>1, BothSane, BtInit, LinksInit DEF MCInit, BtOne
  <2>2. CASE program # "links" BY <2>2, BothSane, BtInit, LinksInit DEF MCInit, BtOne
  <2> QED BY <2>1, <2>2
<1>3. CreditInv /\ LinkInv /\ NvmeInv /\ PairInv BY CreditInit, LinkInit, NvmeInit, PairInit DEF MCInit
<1>4. ChipInv /\ VideoInv /\ GattInv BY ChipIsSensible, ChipInit, VideoInit, GattInit DEF MCInit
<1>5. WatchInv /\ EtherInv /\ RingInv /\ ClassicInv BY WatchInit, EtherInit, RingInit, ClassicInit DEF MCInit
<1> QED BY <1>1, <1>2, <1>3, <1>4, <1>5 DEF MCInv

LEMMA MCInvStep == MCInv /\ [MCNext]_<<program, vars, others>> => MCInv'
<1> SUFFICES ASSUME MCInv, [MCNext]_<<program, vars, others>> PROVE MCInv' OBVIOUS
<1>0. Steps BY MCSteps
<1>1. MmalOne'
  <2>1. CASE program = "narrow"
    <3>1. MmalInv(FewLent, FewBulks) /\ [Mmal(FewLent, FewBulks)!Next]_mVars BY <1>0, <2>1 DEF Steps, MCInv, MmalOne
    <3>2. MmalInv(FewLent, FewBulks)' BY <3>1, BothSane, MmalStep
    <3> QED BY <1>0, <2>1, <3>2 DEF Steps, MmalOne
  <2>2. CASE program # "narrow"
    <3>1. MmalInv(Lent, Bulks) /\ [Mmal(Lent, Bulks)!Next]_mVars BY <1>0, <2>2 DEF Steps, MCInv, MmalOne
    <3>2. MmalInv(Lent, Bulks)' BY <3>1, BothSane, MmalStep
    <3> QED BY <1>0, <2>2, <3>2 DEF Steps, MmalOne
  <2> QED BY <2>1, <2>2
<1>2. BtOne'
  <2>1. CASE program = "links"
    <3>1. BtInv(Handles, FewOpcodes) /\ LinksInv(Handles, FewOpcodes) /\ [Bt(Handles, FewOpcodes)!Next]_tVars
      BY <1>0, <2>1 DEF Steps, MCInv, BtOne
    <3>2. BtInv(Handles, FewOpcodes)' BY <3>1, BothSane, BtStep
    <3>3. LinksInv(Handles, FewOpcodes)' BY <3>1, LinksStep
    <3> QED BY <1>0, <2>1, <3>2, <3>3 DEF Steps, BtOne
  <2>2. CASE program # "links"
    <3>1. BtInv(FewHandles, Opcodes) /\ LinksInv(FewHandles, Opcodes) /\ [Bt(FewHandles, Opcodes)!Next]_tVars
      BY <1>0, <2>2 DEF Steps, MCInv, BtOne
    <3>2. BtInv(FewHandles, Opcodes)' BY <3>1, BothSane, BtStep
    <3>3. LinksInv(FewHandles, Opcodes)' BY <3>1, LinksStep
    <3> QED BY <1>0, <2>2, <3>2, <3>3 DEF Steps, BtOne
  <2> QED BY <2>1, <2>2
<1>3. CreditInv' /\ LinkInv' /\ NvmeInv' /\ PairInv' BY <1>0, CreditStep, LinkStep, NvmeStep, PairStep DEF Steps, MCInv
<1>4. ChipInv'
  <2>1. ChipInv /\ [Chip!Next]_dVars BY <1>0 DEF Steps, MCInv
  <2> QED BY <2>1, ChipIsSensible, ChipStep
<1>5. VideoInv'
  <2>1. VideoInv /\ [Video!Next]_fVars BY <1>0 DEF Steps, MCInv
  <2> QED BY <2>1, VideoStep
<1>6. GattInv'
  <2>1. GattInv /\ [Gatt!Next]_aVars BY <1>0 DEF Steps, MCInv
  <2> QED BY <2>1, GattStep
<1>7. WatchInv' /\ RingInv' BY <1>0, WatchStep, RingStep DEF Steps, MCInv
<1>8. EtherInv'
  <2>1. EtherInv /\ [Ether!Next]_eVars BY <1>0 DEF Steps, MCInv
  <2> QED BY <2>1, EtherStep
<1>9. ClassicInv'
  <2>1. ClassicInv /\ [Classic!Next]_cVars BY <1>0 DEF Steps, MCInv
  <2> QED BY <2>1, ClassicStep
<1> QED BY <1>1, <1>2, <1>3, <1>4, <1>5, <1>6, <1>7, <1>8, <1>9 DEF MCInv

LEMMA MCInvSays == MCInv => AnswersAreOwn /\ BooksBalance /\ MemoryIsOwned
<1> SUFFICES ASSUME MCInv PROVE AnswersAreOwn /\ BooksBalance /\ MemoryIsOwned OBVIOUS
<1>1. /\ IF program = "narrow" THEN Mmal(FewLent, FewBulks)!QueueInStep ELSE Mmal(Lent, Bulks)!QueueInStep
      /\ Mmal(Lent, Bulks)!HandedBackIsQuiet /\ Mmal(Lent, Bulks)!OwnBytes
  <2>1. CASE program = "narrow" BY <2>1, BothSane, MmalSays DEF MCInv, MmalOne
  <2>2. CASE program # "narrow" BY <2>2, BothSane, MmalSays DEF MCInv, MmalOne
  <2> QED BY <2>1, <2>2
<1>2. IF program = "links" THEN Bt(Handles, FewOpcodes)!BuffersAddUp ELSE Bt(FewHandles, Opcodes)!BuffersAddUp
  BY DEF MCInv, BtOne, BtInv
<1>3. WithinCredit BY DEF MCInv, CreditInv
<1>4. Video!AwayIsCounted /\ Video!LayoutIsTold /\ Video!RefusedRightly BY VideoSays DEF MCInv
<1>5. Chip!LandsWhereAsked /\ Chip!LoadedIsWhole BY ChipIsSensible, ChipSays DEF MCInv
<1>6. Bt(FewHandles, Opcodes)!AnswerIsOwn BY DEF MCInv, BtOne, BtInv, Bt!AnswerIsOwn
<1>7. Nvme!OkIsOwn /\ Nvme!OwnUnlessLate BY DEF MCInv, NvmeInv, OneByOne, Nvme!OwnUnlessLate
<1>8. AnswersAreOwn BY <1>6, <1>7 DEF AnswersAreOwn, MCInv, LinkInv, PairInv, GattInv
<1> QED BY <1>1, <1>2, <1>3, <1>4, <1>5, <1>8 DEF BooksBalance, MemoryIsOwned

LEMMA MCInvTypes == MCInv => TypesOK
<1> SUFFICES ASSUME MCInv PROVE TypesOK OBVIOUS
<1>1. IF program = "narrow" THEN Mmal(FewLent, FewBulks)!TypeOK ELSE Mmal(Lent, Bulks)!TypeOK
  <2>1. CASE program = "narrow" BY <2>1, BothSane, MmalSays DEF MCInv, MmalOne
  <2>2. CASE program # "narrow" BY <2>2, BothSane, MmalSays DEF MCInv, MmalOne
  <2> QED BY <2>1, <2>2
<1>2. IF program = "links" THEN Bt(Handles, FewOpcodes)!TypeOK ELSE Bt(FewHandles, Opcodes)!TypeOK
  BY DEF MCInv, BtOne, BtInv
<1>3. TypeOK /\ Link!TypeOK /\ Nvme!TypeOK /\ Pair!TypeOK /\ Watch!TypeOK
  BY DEF MCInv, CreditInv, LinkInv, NvmeInv, PairInv, PairTypes, WatchInv
<1>4. Chip!TypeOK BY ChipIsSensible, ChipSays DEF MCInv
<1>5. Video!TypeOK BY VideoSays DEF MCInv
<1>6. Gatt!TypeOK
  <2>1. GattTyped BY DEF MCInv, GattInv
  <2>2. /\ a_walk.kind \in {"Services", "Parts"} /\ a_walk.start \in 1..(Top + 1)
        /\ a_walk.end \in {"None", "Ok", "Overflow", "Error", "Timeout", "Down"}
    BY <2>1 DEF GattTyped, GattWalk, GattKinds
  <2>3. a_owed \in 0..Slow BY <2>1, AttAssumption DEF GattTyped
  <2> QED BY <2>1, <2>2, <2>3 DEF GattTyped, Gatt!TypeOK
<1>7. Ether!TypeOK BY EtherSays DEF MCInv
<1>8. Vchiq!TypeOK /\ Classic!TypeOK BY RingSays, ClassicSays DEF MCInv
<1> QED BY <1>1, <1>2, <1>3, <1>4, <1>5, <1>6, <1>7, <1>8 DEF TypesOK

LEMMA MCAlways == MCSpec => []MCInv
<1>1. MCInit => MCInv BY MCInvInit
<1>2. MCInv /\ [MCNext]_<<program, vars, others>> => MCInv' BY MCInvStep
<1> QED BY <1>1, <1>2, PTL DEF MCSpec

\* Every driver keeps its types.
THEOREM ServicesTypes == MCSpec => []TypesOK
<1>1. MCInv => TypesOK BY MCInvTypes
<1> QED BY <1>1, MCAlways, PTL

\* wifi.rs, nvme.rs, bluetooth.rs, ble smp.rs and gatt_client.rs: whoever asked gets its own answer,
\* however late, split or abandoned the others are.
THEOREM AnswersOwn == MCSpec => []AnswersAreOwn
<1>1. MCInv => AnswersAreOwn BY MCInvSays
<1> QED BY <1>1, MCAlways, PTL

\* wifi.rs's window, bluetooth.rs's credits, mmal.rs's bulk queue and video_decode.rs's drain: what is
\* lent adds up, whatever is refused, given up on, spilled or late.
THEOREM LentAddsUp == MCSpec => []BooksBalance
<1>1. MCInv => BooksBalance BY MCInvSays
<1> QED BY <1>1, MCAlways, PTL

\* mmal.rs, video_decode.rs and sdio.rs: memory handed back is the caller's again and holds its own
\* bytes, a frame is in the layout told with it, and an access to the Wi-Fi chip's memory lands where it
\* was meant to.
THEOREM MemoryOwned == MCSpec => []MemoryIsOwned
<1>1. MCInv => MemoryIsOwned BY MCInvSays
<1> QED BY <1>1, MCAlways, PTL

\* A link given to the caller is the peer's too, and what comes over it is of that link: wifi.rs's
\* watch, bluetooth.rs's table of connections, bredr.rs's channels and ethernet.rs's runner.
THEOREM LinksReal == MCSpec => LinksAreReal
<1> DEFINE OnNone == w_joins' # w_joins /\ ~w_mute => w_radio # "on"
           Ups == ~w_link /\ w_link' => w_radio = "on"
           Agree == IF program = "links" THEN Bt(Handles, FewOpcodes)!LinksAgree ELSE Bt(FewHandles, Opcodes)!LinksAgree
           Own == (c_call.op = "recv" /\ c_call'.op = "None" /\ c_call'.end = "Ok") =>
                    LET s == c_got'[1] IN
                    IF s \in c_held THEN s \in c_stale \/ c_channels[s].remote = c_got'[2] ELSE c_slow > 0
           Rejects == (c_call.op = "open" /\ c_call'.end = "Rejected" /\ c_call.slot \notin c_stale) =>
                        (Classic!It.ours = c_call.slot /\ (Classic!It.type = "DiscReq" \/ (Classic!It.type = "ConnRsp" /\ ~Classic!It.ok)))
<1>1. MCInv => Watch!NoticedInTime /\ Agree /\ Classic!HeldIsAgreed /\ Ether!UpIsReady
  BY WatchSays, ClassicSays, EtherSays DEF MCInv, BtOne, LinksInv
<1>2. MCInv /\ [MCNext]_<<program, vars, others>> => [OnNone]_(Watch!vars) /\ [Ups]_(Watch!vars)
  <2> SUFFICES ASSUME MCInv, [MCNext]_<<program, vars, others>> PROVE [OnNone]_(Watch!vars) /\ [Ups]_(Watch!vars)
    OBVIOUS
  <2>1. [OnNone]_wVars /\ [Ups]_wVars BY MCSteps, WatchSays DEF Steps, MCInv
  <2> QED BY <2>1 DEF wVars, Watch!vars, Watch!watch, Watch!world
<1>3. MCInv /\ [MCNext]_<<program, vars, others>> => [Own]_cVars
  BY MCSteps, ClassicHands DEF Steps, MCInv
<1>4. MCInv /\ [MCNext]_<<program, vars, others>> => [Rejects]_cVars
  BY MCSteps, ClassicRejects DEF Steps, MCInv, Real
<1>5. MCSpec => /\ [][Watch!NoticedInTime']_wVars /\ [][Agree']_tVars
                /\ [][Classic!HeldIsAgreed']_cVars /\ [][Ether!UpIsReady']_eVars
                /\ [][OnNone]_(Watch!vars) /\ [][Ups]_(Watch!vars) /\ [][Own]_cVars /\ [][Rejects]_cVars
  BY MCAlways, <1>1, <1>2, <1>3, <1>4, PTL DEF MCSpec
<1> HIDE DEF Agree
<1>6. ASSUME MCSpec PROVE Watch!JoinsOverNothing /\ Watch!UpMeansOn
  BY <1>5, <1>6 DEF Watch!JoinsOverNothing, Watch!UpMeansOn
<1>7. ASSUME MCSpec PROVE Classic!FrameIsOwn
  BY <1>5, <1>7 DEF Classic!FrameIsOwn, Classic!vars, cVars
<1>8. ASSUME MCSpec PROVE Classic!RejectionsAreReal
  BY <1>5, <1>8 DEF Classic!RejectionsAreReal, Classic!vars, cVars
<1> USE DEF Agree
<1> QED BY <1>5, <1>6, <1>7, <1>8 DEF LinksAreReal
=============================================================================
