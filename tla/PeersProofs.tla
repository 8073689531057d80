----------------------------- MODULE PeersProofs -----------------------------
(***************************************************************************)
(* The inductive invariants of four instances of MCPeers, for any sizes:   *)
(* MMAL's buffers, the video decoder, the Bluetooth controller and pairing.*)
(* ServicesProofs composes them.  Each is of the one shape: what is under  *)
(* way, as a set of positions or of units, with its cardinality; what each *)
(* message under way says of the state it will be read in; and the         *)
(* promise itself.                                                         *)
(***************************************************************************)
EXTENDS MCPeers, Integers, FiniteSetTheorems, SequenceTheorems, WellFoundedInduction, TLAPS


LEMMA Appended ==
  ASSUME NEW S, NEW s \in Seq(S), NEW e \in S
  PROVE  /\ Append(s, e) \in Seq(S) /\ Len(s) \in Nat
         /\ Len(Append(s, e)) = Len(s) + 1 /\ DOMAIN s = 1..Len(s)
         /\ DOMAIN Append(s, e) = 1..(Len(s) + 1)
         /\ \A k \in 1..Len(s) : Append(s, e)[k] = s[k]
         /\ Append(s, e)[Len(s) + 1] = e
BY AppendProperties, LenProperties

LEMMA Shortened ==
  ASSUME NEW S, NEW s \in Seq(S), s # <<>>
  PROVE  /\ Tail(s) \in Seq(S) /\ Len(s) \in Nat \ {0}
         /\ Len(Tail(s)) = Len(s) - 1 /\ DOMAIN s = 1..Len(s)
         /\ DOMAIN Tail(s) = 1..(Len(s) - 1)
         /\ \A k \in 1..(Len(s) - 1) : Tail(s)[k] = s[k + 1]
         /\ Head(s) = s[1] /\ Head(s) \in S /\ 1 \in DOMAIN s
<1>1. Tail(s) \in Seq(S) /\ Len(Tail(s)) = Len(s) - 1 /\ Head(s) \in S BY HeadTailProperties
<1>2. Len(s) \in Nat \ {0} /\ DOMAIN s = 1..Len(s) BY LenProperties, EmptySeq
<1>3. DOMAIN Tail(s) = 1..(Len(s) - 1) BY <1>1, LenProperties
<1>4. \A k \in 1..(Len(s) - 1) : Tail(s)[k] = s[k + 1] BY <1>1, <1>2
<1>5. Head(s) = s[1] OBVIOUS
<1> QED BY <1>1, <1>2, <1>3, <1>4, <1>5

LEMMA Least == ASSUME NEW S, S \subseteq Nat, S # {} PROVE \E x \in S : \A y \in S : x <= y
<1>1. \E x \in S : \A y \in S : ~(<<y, x>> \in OpToRel(<, Nat))
  BY NatLessThanWellFounded, WFMin, Zenon
<1>2. PICK x \in S : \A y \in S : ~(<<y, x>> \in OpToRel(<, Nat))
  BY <1>1, Zenon
<1>3. \A y \in S : ~(y < x)
  BY <1>2, Zenon DEF OpToRel
<1> QED
  BY <1>3

\* The places marked, of the first n.
Marks(f, n) == {p \in 1..n : f[p]}

LEMMA MarksFinite ==
  ASSUME NEW f, NEW n \in Nat
  PROVE  IsFiniteSet(Marks(f, n)) /\ Cardinality(Marks(f, n)) \in Nat
<1>1. IsFiniteSet(1..n) BY FS_Interval
<1>2. IsFiniteSet(Marks(f, n)) BY <1>1, FS_Subset DEF Marks
<1> QED BY <1>2, FS_CardinalityType

LEMMA MarksNext ==
  ASSUME NEW f, NEW n \in Nat
  PROVE  Cardinality(Marks(f, n + 1)) = Cardinality(Marks(f, n)) + IF f[n + 1] THEN 1 ELSE 0
<1>1. IsFiniteSet(Marks(f, n)) /\ Cardinality(Marks(f, n)) \in Nat BY MarksFinite
<1>2. CASE f[n + 1]
  <2>1. Marks(f, n + 1) = Marks(f, n) \cup {n + 1} /\ n + 1 \notin Marks(f, n) BY <1>2 DEF Marks
  <2> QED BY <1>1, <1>2, <2>1, FS_AddElement
<1>3. CASE ~f[n + 1]
  <2>1. Marks(f, n + 1) = Marks(f, n) BY <1>3 DEF Marks
  <2> QED BY <1>1, <1>3, <2>1
<1> QED BY <1>2, <1>3

LEMMA MarksSame ==
  ASSUME NEW f, NEW g, NEW n \in Nat, \A p \in 1..n : f[p] <=> g[p]
  PROVE  Marks(f, n) = Marks(g, n)
BY DEF Marks

LEMMA MarksShift ==
  ASSUME NEW f, NEW g, NEW n \in Nat, \A p \in 1..n : g[p] <=> f[p + 1]
  PROVE  Cardinality(Marks(f, n + 1)) = Cardinality(Marks(g, n)) + IF f[1] THEN 1 ELSE 0
<1> DEFINE A == Marks(g, n)
           B == {p \in 2..(n + 1) : f[p]}
           h == [x \in A |-> x + 1]
<1>1. IsFiniteSet(A) /\ Cardinality(A) \in Nat BY MarksFinite
<1>2. h \in [A -> B] BY DEF Marks
<1>3. \A x, y \in A : h[x] = h[y] => x = y BY DEF Marks
<1>4. \A z \in B : \E x \in A : h[x] = z
  <2> SUFFICES ASSUME NEW z \in B PROVE \E x \in A : h[x] = z OBVIOUS
  <2>1. z - 1 \in A /\ (z - 1) + 1 = z BY DEF Marks
  <2> QED BY <2>1
<1> HIDE DEF A, B, h
<1>5. h \in Injection(A, B) /\ h \in Surjection(A, B) BY <1>2, <1>3, <1>4 DEF Injection, IsInjective, Surjection
<1>6. IsFiniteSet(B) /\ Cardinality(B) = Cardinality(A) BY <1>1, <1>5, FS_Surjection
<1>7. CASE f[1]
  <2>1. Marks(f, n + 1) = B \cup {1} /\ 1 \notin B BY <1>7 DEF Marks, B
  <2> QED BY <1>1, <1>6, <1>7, <2>1, FS_AddElement DEF A
<1>8. CASE ~f[1]
  <2>1. Marks(f, n + 1) = B BY <1>8 DEF Marks, B
  <2> QED BY <1>1, <1>6, <1>8, <2>1 DEF A
<1> QED BY <1>7, <1>8

\* What the messages say once one came, and once one was looked at.
One(b) == IF b THEN 1 ELSE 0

-----------------------------------------------------------------------------
(* Buffers lent to the firmware. *)

Place == 0..Places - 1
Taken(i) == m_table[i] # Nothing
In(i, s) == Taken(i) /\ m_table[i].state = s
Done(m) == m.kind = "done"
Data(m) == m.kind = "back" /\ m.data
\* Completions announced, and buffers given back with bytes to fetch, among the first n messages.
Dones(s, n) == {p \in 1..n : Done(s[p])}
Datas(s, n) == {p \in 1..n : Data(s[p])}
Many(s) == Cardinality(Datas(s, Len(s)))
Announced == Cardinality(Dones(m_back, Len(m_back)))

\* Every buffer is in one place.
OneEach == /\ \A i, j \in Place : Taken(i) /\ Taken(j) /\ i # j => m_table[i].buf # m_table[j].buf
           /\ \A i \in Place : Taken(i) => m_table[i].buf \notin m_mine
\* An entry is where its state says it is, and nowhere else.
Lending == \A i \in m_firm : In(i, "with")
GivenBack == /\ \A k \in DOMAIN m_back : m_back[k].kind = "back" => In(m_back[k].entry, "with") /\ m_back[k].entry \notin m_firm
             /\ \A k, m \in DOMAIN m_back :
                  m_back[k].kind = "back" /\ m_back[m].kind = "back" /\ m_back[k].entry = m_back[m].entry => k = m
FinishedOnce == /\ \A k \in DOMAIN m_returned : In(m_returned[k], "returned")
                /\ \A k, m \in DOMAIN m_returned : m_returned[k] = m_returned[m] => k = m
InQueue(depth) == /\ \A n \in 0..depth - 1 : m_bulk[n] # Nothing => In(m_bulk[n], "receiving")
                  /\ \A n, m \in 0..depth - 1 : m_bulk[n] # Nothing /\ m_bulk[n] = m_bulk[m] => n = m
                  /\ \A n, m \in 0..depth - 1 : m_bulk[n] # Nothing /\ m < n => m_bulk[m] # Nothing
\* What was asked for and what was announced has a place in the queue, and is in it no earlier than the
\* completions before it leave it.
Covered(depth) == \A n \in 0..(Announced + Len(m_asked)) - 1 : n \in 0..depth - 1 /\ m_bulk[n] # Nothing
BulksQueued(depth) == \A k \in DOMAIN m_asked : \E n \in 0..depth - 1 :
                   n >= Announced + k - 1 /\ m_bulk[n] # Nothing /\ m_table[m_bulk[n]].buf = m_asked[k].to
\* As long as nothing was refused: bytes are asked for in the order they are offered in.
InOrder == ~m_failed =>
             /\ Len(m_offered) = Len(m_asked) + Many(m_back)
             /\ \A k \in DOMAIN m_asked : m_offered[k] = m_asked[k].to
             /\ \A q \in DOMAIN m_back : Data(m_back[q])
                  => m_offered[Len(m_asked) + Cardinality(Datas(m_back, q))] = m_table[m_back[q].entry].buf
InStep(depth) == ~m_failed =>
             /\ \A n \in 0..depth - 1 : m_bulk[n] # Nothing <=> n < Announced + Len(m_asked)
             /\ \A k \in DOMAIN m_asked : m_bulk[Announced + k - 1] # Nothing
                                          /\ m_table[m_bulk[Announced + k - 1]].buf = m_asked[k].to
OwnOnly(bufs) == ~m_failed => \A b \in bufs : m_holds[b] \in {Nothing, b}

MmalInv(bufs, depth) == /\ Mmal(bufs, depth)!TypeOK /\ OneEach /\ Lending /\ GivenBack /\ FinishedOnce
                        /\ InQueue(depth) /\ Covered(depth) /\ BulksQueued(depth) /\ InOrder /\ InStep(depth) /\ OwnOnly(bufs)


LEMMA MarksWithin ==
  ASSUME NEW f, NEW n \in Nat, NEW q \in 1..n, f[q]
  PROVE  Cardinality(Marks(f, q)) \in Nat \ {0} /\ Cardinality(Marks(f, q)) <= Cardinality(Marks(f, n))
<1>1. IsFiniteSet(Marks(f, n)) /\ Marks(f, q) \subseteq Marks(f, n) /\ q \in Marks(f, q)
  <2>1. IsFiniteSet(Marks(f, n)) BY MarksFinite
  <2> QED BY <2>1 DEF Marks
<1>2. IsFiniteSet(Marks(f, q)) /\ Cardinality(Marks(f, q)) <= Cardinality(Marks(f, n)) BY <1>1, FS_Subset
<1>3. Cardinality(Marks(f, q)) \in Nat /\ (Cardinality(Marks(f, q)) = 0 <=> Marks(f, q) = {})
  BY <1>2, FS_CardinalityType, FS_EmptySet
<1> QED BY <1>1, <1>2, <1>3

LEMMA CountsWithin ==
  ASSUME NEW s, NEW n \in Nat, NEW q \in 1..n, Data(s[q])
  PROVE  Cardinality(Datas(s, q)) \in Nat \ {0} /\ Cardinality(Datas(s, q)) <= Cardinality(Datas(s, n))
<1> DEFINE f == [p \in 1..n |-> Data(s[p])]
<1>1. Datas(s, n) = Marks(f, n) /\ Datas(s, q) = Marks(f, q) /\ f[q] BY DEF Datas, Marks
<1> HIDE DEF f
<1> QED BY <1>1, MarksWithin

LEMMA CountsAppended ==
  ASSUME NEW S, NEW s \in Seq(S), NEW e \in S
  PROVE  /\ Cardinality(Dones(Append(s, e), Len(s) + 1)) = Cardinality(Dones(s, Len(s))) + One(Done(e))
         /\ Cardinality(Datas(Append(s, e), Len(s) + 1)) = Cardinality(Datas(s, Len(s))) + One(Data(e))
         /\ \A q \in 1..Len(s) : Datas(Append(s, e), q) = Datas(s, q)
<1> DEFINE l == Append(s, e)
           n == Len(s)
           f == [p \in 1..(n + 1) |-> Done(l[p])]
           g == [p \in 1..(n + 1) |-> Data(l[p])]
<1>1. n \in Nat /\ (\A k \in 1..n : l[k] = s[k]) /\ l[n + 1] = e BY Appended
<1> HIDE DEF l, n
<1>2. Dones(l, n + 1) = Marks(f, n + 1) /\ Datas(l, n + 1) = Marks(g, n + 1) BY DEF Dones, Datas, Marks
<1>3. Dones(s, n) = Marks(f, n) /\ Datas(s, n) = Marks(g, n) BY <1>1 DEF Dones, Datas, Marks
<1>4. (f[n + 1] <=> Done(e)) /\ (g[n + 1] <=> Data(e)) BY <1>1
<1> HIDE DEF f, g
<1>5. Cardinality(Marks(f, n + 1)) = Cardinality(Marks(f, n)) + One(f[n + 1]) BY <1>1, MarksNext DEF One
<1>6. Cardinality(Marks(g, n + 1)) = Cardinality(Marks(g, n)) + One(g[n + 1]) BY <1>1, MarksNext DEF One
<1>7. \A q \in 1..n : Datas(l, q) = Datas(s, q)
  <2> SUFFICES ASSUME NEW q \in 1..n PROVE Datas(l, q) = Datas(s, q) OBVIOUS
  <2>1. \A p \in 1..q : l[p] = s[p] BY <1>1
  <2> QED BY <2>1 DEF Datas
<1> QED BY <1>2, <1>3, <1>4, <1>5, <1>6, <1>7 DEF One, l, n

LEMMA CountsTail ==
  ASSUME NEW S, NEW s \in Seq(S), s # <<>>
  PROVE  /\ Cardinality(Dones(s, Len(s))) = Cardinality(Dones(Tail(s), Len(Tail(s)))) + One(Done(Head(s)))
         /\ Cardinality(Datas(s, Len(s))) = Cardinality(Datas(Tail(s), Len(Tail(s)))) + One(Data(Head(s)))
         /\ \A q \in 1..Len(Tail(s)) : Cardinality(Datas(s, q + 1)) = Cardinality(Datas(Tail(s), q)) + One(Data(Head(s)))
<1> DEFINE l == Tail(s)
           n == Len(l)
           f == [p \in 1..(n + 1) |-> Done(s[p])]
           g == [p \in 1..(n + 1) |-> Data(s[p])]
           i == [p \in 1..n |-> Done(l[p])]
           j == [p \in 1..n |-> Data(l[p])]
<1>1. n \in Nat /\ (\A k \in 1..n : l[k] = s[k + 1]) /\ Head(s) = s[1] /\ Len(s) = n + 1 BY Shortened
<1> HIDE DEF l, n
<1>2. \A q \in 0..n : Dones(s, q + 1) = Marks(f, q + 1) /\ Datas(s, q + 1) = Marks(g, q + 1)
  BY <1>1 DEF Dones, Datas, Marks
<1>3. \A q \in 0..n : Dones(l, q) = Marks(i, q) /\ Datas(l, q) = Marks(j, q) BY <1>1 DEF Dones, Datas, Marks
<1>4. (f[1] <=> Done(Head(s))) /\ (g[1] <=> Data(Head(s))) BY <1>1
<1>5. \A p \in 1..n : (i[p] <=> f[p + 1]) /\ (j[p] <=> g[p + 1]) BY <1>1
<1> HIDE DEF f, g, i, j
<1>6. ASSUME NEW q \in 0..n
      PROVE  /\ Cardinality(Marks(f, q + 1)) = Cardinality(Marks(i, q)) + One(f[1])
             /\ Cardinality(Marks(g, q + 1)) = Cardinality(Marks(j, q)) + One(g[1])
  <2>1. q \in Nat /\ \A p \in 1..q : (i[p] <=> f[p + 1]) /\ (j[p] <=> g[p + 1]) BY <1>1, <1>5
  <2>2. Cardinality(Marks(f, q + 1)) = Cardinality(Marks(i, q)) + One(f[1]) BY <2>1, MarksShift DEF One
  <2>3. Cardinality(Marks(g, q + 1)) = Cardinality(Marks(j, q)) + One(g[1]) BY <2>1, MarksShift DEF One
  <2> QED BY <2>2, <2>3
<1>7. ASSUME NEW q \in 0..n
      PROVE  /\ Cardinality(Dones(s, q + 1)) = Cardinality(Dones(l, q)) + One(Done(Head(s)))
             /\ Cardinality(Datas(s, q + 1)) = Cardinality(Datas(l, q)) + One(Data(Head(s)))
  BY <1>2, <1>3, <1>4, <1>6 DEF One
<1>8. n \in 0..n /\ \A q \in 1..n : q \in 0..n BY <1>1
<1> QED BY <1>1, <1>7, <1>8 DEF l, n

Rec(bufs) == [buf : bufs, state : {"with", "receiving", "returned"}]
Notice == [kind : {"back", "done"}, entry : Place, data : BOOLEAN]
Request(bufs, depth) == [list : 0..depth - 1, to : bufs]
Sane(bufs, depth) == /\ depth \in Nat \ {0} /\ Places \in Nat /\ Nothing \notin Place /\ Nothing \notin Rec(bufs)

\* What the type invariant says.
TableTyped(bufs, depth) ==
  /\ m_table \in [Place -> {Nothing} \cup Rec(bufs)]
  /\ m_returned \in Seq(Place) /\ m_bulk \in [0..depth - 1 -> {Nothing} \cup Place]
  /\ m_lists \in [0..depth - 1 -> {Nothing} \cup bufs] /\ m_mine \subseteq bufs /\ m_firm \subseteq Place
  /\ m_offered \in Seq(bufs) /\ m_asked \in Seq(Request(bufs, depth)) /\ m_back \in Seq(Notice)
  /\ m_holds \in [bufs -> {Nothing} \cup bufs] /\ m_failed \in BOOLEAN

LEMMA MmalTyped == ASSUME NEW bufs, NEW depth PROVE /\ Mmal(bufs, depth)!TypeOK <=> TableTyped(bufs, depth)
                                                    /\ Mmal(bufs, depth)!TypeOK' <=> TableTyped(bufs, depth)'
BY DEF Mmal!TypeOK, Mmal!Entry, Mmal!Index, Mmal!Message, TableTyped, Rec, Notice, Request, Place

LEMMA CountsNat == ASSUME NEW s, NEW n \in Nat PROVE /\ Cardinality(Dones(s, n)) \in Nat
                                                     /\ Cardinality(Datas(s, n)) \in Nat
<1> DEFINE f == [p \in 1..n |-> Done(s[p])]
           g == [p \in 1..n |-> Data(s[p])]
<1>1. Dones(s, n) = Marks(f, n) /\ Datas(s, n) = Marks(g, n) BY DEF Dones, Datas, Marks
<1> HIDE DEF f, g
<1> QED BY <1>1, MarksFinite

\* A message was looked at, and one came.
LEMMA Looked ==
  ASSUME m_back \in Seq(Notice), m_back # <<>>, m_back' = Tail(m_back)
  PROVE  /\ m_back' \in Seq(Notice) /\ Head(m_back) = m_back[1] /\ 1 \in DOMAIN m_back /\ Head(m_back) \in Notice
         /\ \A k \in DOMAIN m_back' : k \in Nat \ {0} /\ k + 1 \in DOMAIN m_back /\ k + 1 # 1 /\ m_back'[k] = m_back[k + 1]
         /\ Announced \in Nat /\ Announced' \in Nat /\ Many(m_back) \in Nat /\ Many(m_back') \in Nat
         /\ Announced = Announced' + One(Done(Head(m_back)))
         /\ Many(m_back) = Many(m_back') + One(Data(Head(m_back)))
         /\ \A q \in DOMAIN m_back' : /\ Cardinality(Datas(m_back, q + 1)) = Cardinality(Datas(m_back', q)) + One(Data(Head(m_back)))
                                      /\ Cardinality(Datas(m_back', q)) \in Nat
<1>1. /\ m_back' \in Seq(Notice) /\ Len(m_back) \in Nat /\ DOMAIN m_back' = 1..Len(m_back') /\ Len(m_back') \in Nat
      /\ Head(m_back) = m_back[1] /\ 1 \in DOMAIN m_back /\ Head(m_back) \in Notice
      /\ \A k \in DOMAIN m_back' : k \in Nat \ {0} /\ k + 1 \in DOMAIN m_back /\ k + 1 # 1 /\ m_back'[k] = m_back[k + 1]
  BY Shortened
<1>2. Announced \in Nat /\ Announced' \in Nat /\ Many(m_back) \in Nat /\ Many(m_back') \in Nat
  BY <1>1, CountsNat DEF Announced, Many
<1>3. ASSUME NEW q \in DOMAIN m_back' PROVE Cardinality(Datas(m_back', q)) \in Nat
  <2>1. q \in Nat BY <1>1
  <2> QED BY <2>1, CountsNat
<1>4. /\ Announced = Announced' + One(Done(Head(m_back)))
      /\ Many(m_back) = Many(m_back') + One(Data(Head(m_back)))
      /\ \A q \in DOMAIN m_back' : Cardinality(Datas(m_back, q + 1)) = Cardinality(Datas(m_back', q)) + One(Data(Head(m_back)))
  BY <1>1, CountsTail DEF Announced, Many
<1> QED BY <1>1, <1>2, <1>3, <1>4

LEMMA MmalTold ==
  ASSUME m_back \in Seq(Notice), NEW e \in Notice, m_back' = Append(m_back, e)
  PROVE  /\ m_back' \in Seq(Notice)
         /\ \A k \in DOMAIN m_back : k \in DOMAIN m_back' /\ k \in Nat \ {0} /\ k # Len(m_back) + 1 /\ m_back'[k] = m_back[k]
         /\ \A k \in DOMAIN m_back' : k \in DOMAIN m_back \/ k = Len(m_back) + 1
         /\ m_back'[Len(m_back) + 1] = e
         /\ Announced \in Nat /\ Announced' \in Nat /\ Many(m_back) \in Nat /\ Many(m_back') \in Nat
         /\ Announced' = Announced + One(Done(e)) /\ Many(m_back') = Many(m_back) + One(Data(e))
         /\ Cardinality(Datas(m_back', Len(m_back) + 1)) = Many(m_back')
         /\ \A q \in DOMAIN m_back : Datas(m_back', q) = Datas(m_back, q)
<1>1. /\ m_back' \in Seq(Notice) /\ Len(m_back) \in Nat /\ DOMAIN m_back = 1..Len(m_back) /\ Len(m_back') = Len(m_back) + 1
      /\ DOMAIN m_back' = 1..(Len(m_back) + 1) /\ m_back'[Len(m_back) + 1] = e
      /\ \A k \in DOMAIN m_back : m_back'[k] = m_back[k]
  BY Appended
<1>2. Announced \in Nat /\ Announced' \in Nat /\ Many(m_back) \in Nat /\ Many(m_back') \in Nat
  BY <1>1, CountsNat DEF Announced, Many
<1>3. /\ Announced' = Announced + One(Done(e)) /\ Many(m_back') = Many(m_back) + One(Data(e))
      /\ \A q \in DOMAIN m_back : Datas(m_back', q) = Datas(m_back, q)
  BY <1>1, CountsAppended DEF Announced, Many
<1>4. Cardinality(Datas(m_back', Len(m_back) + 1)) = Many(m_back') BY <1>1 DEF Many
<1> QED BY <1>1, <1>2, <1>3, <1>4

\* An entry is told apart from its state alone.
LEMMA Restated ==
  ASSUME NEW bufs, NEW depth, Sane(bufs, depth), TableTyped(bufs, depth), NEW i \in Place, Taken(i),
         NEW s \in {"with", "receiving", "returned"},
         m_table' = [m_table EXCEPT ![i] = [buf |-> m_table[i].buf, state |-> s]]
  PROVE  /\ m_table' \in [Place -> {Nothing} \cup Rec(bufs)]
         /\ \A j \in Place : (Taken(j)' <=> Taken(j)) /\ (Taken(j) => m_table'[j].buf = m_table[j].buf)
         /\ \A j \in Place \ {i} : m_table'[j] = m_table[j] /\ \A t : In(j, t)' <=> In(j, t)
         /\ In(i, s)' /\ (OneEach /\ m_mine' = m_mine => OneEach')
<1>1. m_table[i] \in Rec(bufs) BY DEF TableTyped, Taken
<1> DEFINE r == [buf |-> m_table[i].buf, state |-> s]
<1>2. r \in Rec(bufs) /\ r # Nothing /\ r.buf = m_table[i].buf /\ r.state = s BY <1>1 DEF Rec, Sane
<1> HIDE DEF r
<1>3. m_table' = [m_table EXCEPT ![i] = r] BY DEF r
<1>4. m_table' \in [Place -> {Nothing} \cup Rec(bufs)] BY <1>2, <1>3 DEF TableTyped
<1>5. m_table'[i] = r /\ \A j \in Place \ {i} : m_table'[j] = m_table[j] BY <1>3 DEF TableTyped
<1>6. \A j \in Place : (Taken(j)' <=> Taken(j)) /\ (Taken(j) => m_table'[j].buf = m_table[j].buf)
  BY <1>2, <1>5 DEF Taken
<1>7. OneEach /\ m_mine' = m_mine => OneEach' BY <1>6 DEF OneEach
<1>8. In(i, s)' BY <1>2, <1>5 DEF In, Taken
<1>9. \A j \in Place \ {i} : \A t : In(j, t)' <=> In(j, t) BY <1>5 DEF In, Taken
<1> QED BY <1>4, <1>5, <1>6, <1>7, <1>8, <1>9

LEMMA Members ==
  ASSUME NEW bufs, NEW depth, Sane(bufs, depth), TableTyped(bufs, depth)
  PROVE  /\ \A k \in DOMAIN m_back : m_back[k] \in Notice /\ m_back[k].entry \in Place /\ k \in Nat \ {0}
         /\ \A k \in DOMAIN m_returned : m_returned[k] \in Place /\ k \in Nat \ {0}
         /\ \A k \in DOMAIN m_asked : m_asked[k].to \in bufs /\ k \in Nat \ {0}
         /\ \A n \in 0..depth - 1 : m_bulk[n] # Nothing => m_bulk[n] \in Place
         /\ Len(m_asked) \in Nat /\ DOMAIN m_asked = 1..Len(m_asked) /\ Len(m_offered) \in Nat
         /\ DOMAIN m_offered = 1..Len(m_offered) /\ Len(m_back) \in Nat
         /\ Announced \in Nat /\ Many(m_back) \in Nat
<1>1. /\ m_back \in [1..Len(m_back) -> Notice] /\ Len(m_back) \in Nat
      /\ m_returned \in [1..Len(m_returned) -> Place] /\ Len(m_returned) \in Nat
      /\ m_asked \in [1..Len(m_asked) -> Request(bufs, depth)] /\ Len(m_asked) \in Nat
      /\ Len(m_offered) \in Nat /\ DOMAIN m_offered = 1..Len(m_offered) /\ DOMAIN m_asked = 1..Len(m_asked)
  BY LenProperties DEF TableTyped
<1>2. \A k \in DOMAIN m_back : m_back[k] \in Notice /\ m_back[k].entry \in Place /\ k \in Nat \ {0}
  BY <1>1 DEF Notice
<1>3. \A k \in DOMAIN m_returned : m_returned[k] \in Place /\ k \in Nat \ {0} BY <1>1
<1>4. \A k \in DOMAIN m_asked : m_asked[k].to \in bufs /\ k \in Nat \ {0} BY <1>1 DEF Request
<1>5. Announced \in Nat /\ Many(m_back) \in Nat BY <1>1, CountsNat DEF Announced, Many
<1>6. \A n \in 0..depth - 1 : m_bulk[n] # Nothing => m_bulk[n] \in Place BY DEF TableTyped
<1> QED BY <1>1, <1>2, <1>3, <1>4, <1>5, <1>6

\* What a step leaves of the queue, when the entries in it keep their buffers.
LEMMA QueueKept ==
  ASSUME NEW bufs, NEW depth, Sane(bufs, depth), TableTyped(bufs, depth),
         InQueue(depth), Covered(depth), BulksQueued(depth), InStep(depth),
         m_bulk' = m_bulk, m_asked' = m_asked, m_failed => m_failed', Announced' = Announced,
         \A i \in Place : In(i, "receiving") => In(i, "receiving")' /\ m_table'[i].buf = m_table[i].buf
  PROVE  InQueue(depth)' /\ Covered(depth)' /\ BulksQueued(depth)' /\ InStep(depth)'
<1>0. \A n \in 0..depth - 1 : m_bulk[n] # Nothing => m_bulk[n] \in Place /\ In(m_bulk[n], "receiving")
  BY Members DEF InQueue
<1>1. InQueue(depth)' BY <1>0 DEF InQueue
<1>2. Covered(depth)' BY DEF Covered
<1>3. BulksQueued(depth)' BY <1>0 DEF BulksQueued
<1>4. InStep(depth)'
  <2> SUFFICES ASSUME ~m_failed' PROVE /\ \A n \in 0..depth - 1 : m_bulk[n] # Nothing <=> n < Announced + Len(m_asked)
                                       /\ \A k \in DOMAIN m_asked : m_bulk[Announced + k - 1] # Nothing
                                             /\ m_table'[m_bulk[Announced + k - 1]].buf = m_asked[k].to
    BY DEF InStep
  <2>1. ~m_failed OBVIOUS
  <2>2. \A k \in DOMAIN m_asked : Announced + k - 1 \in 0..depth - 1
    <3>1. \A k \in DOMAIN m_asked : Announced + k - 1 \in 0..(Announced + Len(m_asked)) - 1 BY Members
    <3> QED BY <3>1 DEF Covered
  <2> QED BY <1>0, <2>1, <2>2 DEF InStep
<1> QED BY <1>1, <1>2, <1>3, <1>4

\* send_buffer, sent or not.
LEMMA MmalSends ==
  ASSUME NEW bufs, NEW depth, Sane(bufs, depth), MmalInv(bufs, depth), NEW b \in bufs,
         Mmal(bufs, depth)!SendBuffer(b) \/ Mmal(bufs, depth)!SendTimesOut(b)
  PROVE  MmalInv(bufs, depth)'
<1>0. TableTyped(bufs, depth) BY MmalTyped DEF MmalInv
<1>1. PICK i \in Place :
        /\ m_table[i] = Nothing /\ m_table' = [m_table EXCEPT ![i] = [buf |-> b, state |-> "with"]]
        /\ b \in m_mine /\ m_mine' = m_mine \ {b}
        /\ \/ m_firm' = m_firm \cup {i} /\ m_failed' = m_failed
           \/ m_firm' = m_firm /\ m_failed' = m_failed
        /\ UNCHANGED <<m_returned, m_bulk, m_lists, m_offered, m_asked, m_back, m_holds>>
  <2> DEFINE i == Mmal(bufs, depth)!FirstFree(m_table, Place)
  <2>1. Mmal(bufs, depth)!Entry = Place BY DEF Mmal!Entry, Place
  <2>2. i \in Place /\ m_table[i] = Nothing
    <3> DEFINE F == {j \in Place : m_table[j] = Nothing}
    <3>1. F \subseteq Nat /\ F # {} BY <2>1 DEF Mmal!SendBuffer, Mmal!SendTimesOut, Mmal!FreeIn, Place
    <3> HIDE DEF F
    <3>2. PICK x \in F : \A y \in F : x <= y BY <3>1, Least
    <3>3. \E j \in Place : m_table[j] = Nothing /\ \A k \in Place : m_table[k] = Nothing => j <= k
      BY <3>2 DEF F
    <3> QED BY <3>3 DEF Mmal!FirstFree
  <2> HIDE DEF i
  <2>3. /\ m_table' = [m_table EXCEPT ![i] = [buf |-> b, state |-> "with"]]
        /\ b \in m_mine /\ m_mine' = m_mine \ {b}
        /\ \/ m_firm' = m_firm \cup {i} /\ m_failed' = m_failed
           \/ m_firm' = m_firm /\ m_failed' = m_failed
        /\ UNCHANGED <<m_returned, m_bulk, m_lists, m_offered, m_asked, m_back, m_holds>>
    BY <2>1 DEF Mmal!SendBuffer, Mmal!SendTimesOut, Mmal!Held, Mmal!firmware, i
  <2> QED BY <2>2, <2>3
<1> DEFINE r == [buf |-> b, state |-> "with"]
<1>2. r \in Rec(bufs) /\ r # Nothing /\ r.buf = b /\ r.state = "with" BY DEF Rec, Sane
<1>3. m_table' = [m_table EXCEPT ![i] = r] BY <1>1
<1> HIDE DEF r
<1>4. /\ m_table' \in [Place -> {Nothing} \cup Rec(bufs)]
      /\ m_table'[i] = r /\ \A j \in Place \ {i} : m_table'[j] = m_table[j]
  BY <1>0, <1>2, <1>3 DEF TableTyped
<1>5. /\ ~Taken(i) /\ Taken(i)' /\ In(i, "with")'
      /\ \A j \in Place : Taken(j) => j # i
      /\ \A j \in Place \ {i} : (Taken(j)' <=> Taken(j)) /\ \A s : In(j, s)' <=> In(j, s)
  BY <1>1, <1>2, <1>4 DEF Taken, In
<1>6. \A j \in Place, s \in {"with", "receiving", "returned"} : In(j, s) => In(j, s)' /\ m_table'[j].buf = m_table[j].buf
  BY <1>4, <1>5 DEF In
<1>7. TableTyped(bufs, depth)'
  <2>1. m_failed' \in BOOLEAN
    <3>1. m_failed \in BOOLEAN BY <1>0 DEF TableTyped
    <3>2. m_failed' = m_failed BY <1>1
    <3> QED BY <3>1, <3>2, Zenon
  <2> QED BY <1>0, <1>1, <1>4, <2>1 DEF TableTyped
<1>8. OneEach'
  <2>1. \A j \in Place : Taken(j) => m_table[j].buf # b BY <1>1 DEF MmalInv, OneEach
  <2> QED BY <1>1, <1>2, <1>4, <1>5, <2>1 DEF MmalInv, OneEach
<1>9. Lending' BY <1>0, <1>1, <1>5, <1>6 DEF MmalInv, Lending, TableTyped
<1>10. GivenBack' /\ FinishedOnce'
  <2>1. GivenBack'
    <3>1. \A k \in DOMAIN m_back : m_back[k].kind = "back" => m_back[k].entry # i /\ m_back[k].entry \in Place
      BY <1>0, <1>5, Members DEF MmalInv, GivenBack, In
    <3> QED BY <1>1, <1>6, <3>1 DEF MmalInv, GivenBack
  <2>2. FinishedOnce'
    <3>1. \A k \in DOMAIN m_returned : m_returned[k] \in Place BY <1>0, Members
    <3> QED BY <1>1, <1>6, <3>1 DEF MmalInv, FinishedOnce
  <2> QED BY <2>1, <2>2
<1>11. InQueue(depth)' /\ Covered(depth)' /\ BulksQueued(depth)' /\ InStep(depth)'
  <2>1. Announced' = Announced BY <1>1 DEF Announced
  <2> QED BY <1>0, <1>1, <1>6, <2>1, QueueKept DEF MmalInv
<1>12. InOrder'
  <2> SUFFICES ASSUME ~m_failed' PROVE InOrder' BY DEF InOrder
  <2>1. ~m_failed BY <1>1
  <2>2. \A k \in DOMAIN m_back : Data(m_back[k]) => In(m_back[k].entry, "with") /\ m_back[k].entry \in Place
    BY <1>0, Members DEF MmalInv, GivenBack, Data
  <2> QED BY <1>1, <1>6, <2>1, <2>2 DEF MmalInv, InOrder
<1>13. OwnOnly(bufs)' BY <1>1 DEF MmalInv, OwnOnly
<1> QED BY <1>7, <1>8, <1>9, <1>10, <1>11, <1>12, <1>13, MmalTyped DEF MmalInv

\* A message that gives a buffer back changes its entry's state, and no more than that.
LEMMA BackTaken ==
  ASSUME NEW bufs, NEW depth, Sane(bufs, depth), MmalInv(bufs, depth), m_back # <<>>, Head(m_back).kind = "back",
         m_back' = Tail(m_back), NEW s \in {"receiving", "returned"}, UNCHANGED <<m_mine, m_firm>>,
         NEW i \in Place, i = Head(m_back).entry, m_table' = [m_table EXCEPT ![i] = [buf |-> m_table[i].buf, state |-> s]]
  PROVE  /\ m_table' \in [Place -> {Nothing} \cup Rec(bufs)] /\ m_back' \in Seq(Notice)
         /\ OneEach' /\ Lending' /\ GivenBack'
         /\ In(i, "with") /\ In(i, s)' /\ m_table[i].buf \in bufs
         /\ \A j \in Place : Taken(j) => m_table'[j].buf = m_table[j].buf
         /\ \A j \in Place, t \in {"receiving", "returned"} : In(j, t) => In(j, t)' /\ j # i
         /\ Announced' = Announced
         /\ \A k \in DOMAIN m_back' : m_back'[k].kind = "back" => m_back'[k].entry \in Place /\ Taken(m_back'[k].entry)
<1>0. TableTyped(bufs, depth) BY MmalTyped DEF MmalInv
<1>1. /\ m_back' \in Seq(Notice) /\ Head(m_back) = m_back[1] /\ 1 \in DOMAIN m_back
      /\ \A k \in DOMAIN m_back' : k \in Nat \ {0} /\ k + 1 \in DOMAIN m_back /\ k + 1 # 1 /\ m_back'[k] = m_back[k + 1]
      /\ Announced \in Nat /\ Announced' \in Nat /\ Announced = Announced' + One(Done(Head(m_back)))
  BY <1>0, Looked DEF TableTyped
<1>2. i \in Place /\ In(i, "with") /\ i \notin m_firm BY <1>0, <1>1, Members DEF MmalInv, GivenBack
<1>3. Announced' = Announced BY <1>1 DEF One, Done
<1>4. Taken(i) /\ m_table' = [m_table EXCEPT ![i] = [buf |-> m_table[i].buf, state |-> s]] BY <1>2 DEF In
<1>5. /\ m_table' \in [Place -> {Nothing} \cup Rec(bufs)]
      /\ \A j \in Place : (Taken(j)' <=> Taken(j)) /\ (Taken(j) => m_table'[j].buf = m_table[j].buf)
      /\ \A j \in Place \ {i} : m_table'[j] = m_table[j] /\ \A t : In(j, t)' <=> In(j, t)
      /\ In(i, s)' /\ (OneEach /\ m_mine' = m_mine => OneEach')
  <2>1. s \in {"with", "receiving", "returned"} OBVIOUS
  <2> QED BY <1>0, <1>2, <1>4, <2>1, Restated
<1>6. m_table[i].buf \in bufs
  <2>1. m_table[i] \in Rec(bufs) BY <1>0, <1>2, <1>4 DEF TableTyped, Taken
  <2> QED BY <2>1 DEF Rec
<1>7. \A j \in Place, t \in {"receiving", "returned"} : In(j, t) => In(j, t)' /\ j # i
  <2>1. m_table[i].state = "with" BY <1>2 DEF In
  <2> QED BY <1>5, <2>1 DEF In
<1>8. Lending' BY <1>0, <1>2, <1>5 DEF MmalInv, Lending, TableTyped
<1>9. \A k \in DOMAIN m_back' : m_back'[k].kind = "back" =>
        m_back'[k].entry \in Place /\ m_back'[k].entry # i /\ In(m_back'[k].entry, "with") /\ m_back'[k].entry \notin m_firm
  <2> SUFFICES ASSUME NEW k \in DOMAIN m_back', m_back'[k].kind = "back"
               PROVE  m_back'[k].entry \in Place /\ m_back'[k].entry # i /\ In(m_back'[k].entry, "with") /\ m_back'[k].entry \notin m_firm
    OBVIOUS
  <2>1. k + 1 \in DOMAIN m_back /\ k + 1 # 1 /\ m_back'[k] = m_back[k + 1] BY <1>1
  <2>2. m_back[1].kind = "back" /\ m_back[1].entry = i BY <1>1
  <2> QED BY <1>0, <1>1, <2>1, <2>2, Members DEF MmalInv, GivenBack
<1>10. GivenBack'
  <2>1. (\A k \in DOMAIN m_back : m_back[k].kind = "back" => In(m_back[k].entry, "with") /\ m_back[k].entry \notin m_firm)'
    BY <1>5, <1>9
  <2>2. \A k, m \in DOMAIN m_back' : m_back'[k].kind = "back" /\ m_back'[m].kind = "back" /\ m_back'[k].entry = m_back'[m].entry => k = m
    <3> SUFFICES ASSUME NEW k \in DOMAIN m_back', NEW m \in DOMAIN m_back',
                        m_back'[k].kind = "back", m_back'[m].kind = "back", m_back'[k].entry = m_back'[m].entry
                 PROVE  k = m
      OBVIOUS
    <3>1. k + 1 \in DOMAIN m_back /\ m + 1 \in DOMAIN m_back /\ m_back'[k] = m_back[k + 1] /\ m_back'[m] = m_back[m + 1]
          /\ k \in Nat /\ m \in Nat
      BY <1>1
    <3>2. k + 1 = m + 1 BY <3>1 DEF MmalInv, GivenBack
    <3> QED BY <3>1, <3>2
  <2> QED BY <2>1, <2>2 DEF GivenBack
<1>11. OneEach' BY <1>5 DEF MmalInv
<1> QED BY <1>1, <1>2, <1>3, <1>5, <1>6, <1>7, <1>8, <1>9, <1>10, <1>11 DEF In

LEMMA HeadEntry == ASSUME NEW bufs, NEW depth, TableTyped(bufs, depth), m_back # <<>> PROVE Head(m_back).entry \in Place
<1>1. Head(m_back) \in Notice BY Shortened DEF TableTyped
<1> QED BY <1>1 DEF Notice

\* An entry is finished with.
LEMMA Finishes ==
  ASSUME NEW bufs, NEW depth, Sane(bufs, depth), TableTyped(bufs, depth), FinishedOnce, NEW i \in Place, ~In(i, "returned"),
         In(i, "returned")', \A j \in Place : In(j, "returned") => In(j, "returned")', m_returned' = Append(m_returned, i)
  PROVE  FinishedOnce' /\ m_returned' \in Seq(Place)
<1>1. /\ m_returned' \in Seq(Place) /\ Len(m_returned) \in Nat /\ DOMAIN m_returned = 1..Len(m_returned)
      /\ DOMAIN m_returned' = 1..(Len(m_returned) + 1) /\ m_returned'[Len(m_returned) + 1] = i
      /\ \A k \in 1..Len(m_returned) : m_returned'[k] = m_returned[k]
  BY Appended DEF TableTyped
<1>2. \A k \in DOMAIN m_returned : m_returned[k] \in Place /\ m_returned[k] # i BY Members DEF FinishedOnce
<1>3. (\A k \in DOMAIN m_returned : In(m_returned[k], "returned"))' BY <1>1, <1>2 DEF FinishedOnce
<1>4. \A k, m \in DOMAIN m_returned' : m_returned'[k] = m_returned'[m] => k = m BY <1>1, <1>2 DEF FinishedOnce
<1> QED BY <1>1, <1>3, <1>4 DEF FinishedOnce

\* pump and on_buffer_to_host, for a buffer with nothing to fetch.
LEMMA MmalFinish ==
  ASSUME NEW bufs, NEW depth, Sane(bufs, depth), MmalInv(bufs, depth), Mmal(bufs, depth)!Finish
  PROVE  MmalInv(bufs, depth)'
<1>0. TableTyped(bufs, depth) BY MmalTyped DEF MmalInv
<1>a. PICK i \in Place : i = Head(m_back).entry BY <1>0, HeadEntry DEF Mmal!Finish
<1>1. /\ m_back # <<>> /\ Head(m_back).kind = "back" /\ ~Head(m_back).data /\ m_back' = Tail(m_back)
      /\ m_table' = [m_table EXCEPT ![i] = [buf |-> m_table[i].buf, state |-> "returned"]]
      /\ m_returned' = Append(m_returned, i)
      /\ UNCHANGED <<m_bulk, m_lists, m_mine, m_firm, m_offered, m_asked, m_holds, m_failed>>
  BY <1>a DEF Mmal!Finish, Mmal!Held
<1>2. /\ m_table' \in [Place -> {Nothing} \cup Rec(bufs)] /\ m_back' \in Seq(Notice)
      /\ OneEach' /\ Lending' /\ GivenBack'
      /\ In(i, "with") /\ In(i, "returned")'
      /\ \A j \in Place : Taken(j) => m_table'[j].buf = m_table[j].buf
      /\ \A j \in Place, t \in {"receiving", "returned"} : In(j, t) => In(j, t)' /\ j # i
      /\ Announced' = Announced
      /\ \A k \in DOMAIN m_back' : m_back'[k].kind = "back" => m_back'[k].entry \in Place /\ Taken(m_back'[k].entry)
  <2>1. "returned" \in {"receiving", "returned"} OBVIOUS
  <2> QED BY <1>a, <1>1, <2>1, BackTaken
<1>3. FinishedOnce' /\ m_returned' \in Seq(Place) BY <1>0, <1>1, <1>2, Finishes DEF MmalInv
<1>4. TableTyped(bufs, depth)' BY <1>0, <1>1, <1>2, <1>3 DEF TableTyped
<1>5. InQueue(depth)' /\ Covered(depth)' /\ BulksQueued(depth)' /\ InStep(depth)'
  BY <1>0, <1>1, <1>2, QueueKept DEF MmalInv, In
<1>6. InOrder'
  <2> SUFFICES ASSUME ~m_failed' PROVE InOrder' BY DEF InOrder
  <2>1. /\ Many(m_back) = Many(m_back') /\ Many(m_back') \in Nat
        /\ \A q \in DOMAIN m_back' : /\ q + 1 \in DOMAIN m_back /\ m_back'[q] = m_back[q + 1]
                                     /\ Cardinality(Datas(m_back, q + 1)) = Cardinality(Datas(m_back', q))
    BY <1>0, <1>1, Looked DEF TableTyped, One, Data
  <2>2. \A q \in DOMAIN m_back' : Data(m_back'[q]) => m_table'[m_back'[q].entry].buf = m_table[m_back[q + 1].entry].buf
    BY <1>2, <2>1 DEF Data
  <2> QED BY <1>1, <2>1, <2>2 DEF MmalInv, InOrder
<1>7. OwnOnly(bufs)' BY <1>1 DEF MmalInv, OwnOnly
<1> QED BY <1>2, <1>3, <1>4, <1>5, <1>6, <1>7, MmalTyped DEF MmalInv

\* A buffer with bytes to fetch: a place in the queue, the first free one, unless there is none.
LEMMA FirstData == ASSUME NEW s, Data(s[1]) PROVE Cardinality(Datas(s, 1)) = 1
<1>1. Datas(s, 1) = {1} BY DEF Datas
<1> QED BY <1>1, FS_Singleton

LEMMA MmalFetches ==
  ASSUME NEW bufs, NEW depth, Sane(bufs, depth), MmalInv(bufs, depth),
         Mmal(bufs, depth)!Fetch \/ Mmal(bufs, depth)!FetchUnsent
  PROVE  MmalInv(bufs, depth)'
<1>0. TableTyped(bufs, depth) BY MmalTyped DEF MmalInv
<1>a. PICK i \in Place : i = Head(m_back).entry
  BY <1>0, HeadEntry DEF Mmal!Fetch, Mmal!FetchUnsent, Mmal!Receiving
<1> DEFINE Index == 0..depth - 1
<1>b. PICK n \in Index : /\ n = Mmal(bufs, depth)!FirstFree(m_bulk, Index) /\ m_bulk[n] = Nothing
                         /\ \A m \in Index : m_bulk[m] = Nothing => n <= m
  <2>1. Mmal(bufs, depth)!Index = Index BY DEF Mmal!Index
  <2> DEFINE F == {j \in Index : m_bulk[j] = Nothing}
  <2>2. F \subseteq Nat /\ F # {} BY <2>1 DEF Mmal!Fetch, Mmal!FetchUnsent, Mmal!FreeIn
  <2> HIDE DEF F
  <2>3. PICK x \in F : \A y \in F : x <= y BY <2>2, Least
  <2>4. \E j \in Index : m_bulk[j] = Nothing /\ \A k \in Index : m_bulk[k] = Nothing => j <= k
    BY <2>3 DEF F
  <2> QED BY <2>4 DEF Mmal!FirstFree
<1>c. PICK b : b = m_table[i].buf OBVIOUS
<1>1. /\ m_back # <<>> /\ Head(m_back).kind = "back" /\ Head(m_back).data /\ m_back' = Tail(m_back)
      /\ m_table' = [m_table EXCEPT ![i] = [buf |-> m_table[i].buf, state |-> "receiving"]]
      /\ m_bulk' = [m_bulk EXCEPT ![n] = i] /\ m_lists' = [m_lists EXCEPT ![n] = b]
      /\ UNCHANGED <<m_returned, m_mine, m_firm, m_offered, m_holds>>
      /\ \/ m_asked' = Append(m_asked, [list |-> n, to |-> b]) /\ m_failed' = m_failed
         \/ m_asked' = m_asked /\ m_failed' = TRUE
  <2>1. Mmal(bufs, depth)!Index = Index BY DEF Mmal!Index
  <2> QED BY <1>a, <1>b, <1>c, <2>1 DEF Mmal!Fetch, Mmal!FetchUnsent, Mmal!Receiving, Mmal!Held
<1> HIDE DEF Index
<1>2. /\ m_table' \in [Place -> {Nothing} \cup Rec(bufs)] /\ m_back' \in Seq(Notice)
      /\ OneEach' /\ Lending' /\ GivenBack'
      /\ In(i, "with") /\ In(i, "receiving")' /\ b \in bufs
      /\ \A j \in Place : Taken(j) => m_table'[j].buf = m_table[j].buf
      /\ \A j \in Place, t \in {"receiving", "returned"} : In(j, t) => In(j, t)' /\ j # i
      /\ Announced' = Announced
      /\ \A k \in DOMAIN m_back' : m_back'[k].kind = "back" => m_back'[k].entry \in Place /\ Taken(m_back'[k].entry)
  <2>1. "receiving" \in {"receiving", "returned"} OBVIOUS
  <2>2. /\ m_back # <<>> /\ Head(m_back).kind = "back" /\ m_back' = Tail(m_back) /\ UNCHANGED <<m_mine, m_firm>>
        /\ m_table' = [m_table EXCEPT ![i] = [buf |-> m_table[i].buf, state |-> "receiving"]]
    BY <1>1
  <2> QED BY <1>a, <1>c, <2>1, <2>2, BackTaken, ZenonT(30)
<1>3. /\ Len(m_asked) \in Nat /\ DOMAIN m_asked = 1..Len(m_asked) /\ Announced \in Nat
      /\ \A m \in Index : m_bulk[m] # Nothing => m_bulk[m] \in Place /\ In(m_bulk[m], "receiving")
      /\ i # Nothing /\ n \in Nat /\ Index \subseteq Nat /\ \A m \in Nat : m <= n => m \in Index
  <2>1. i # Nothing /\ depth \in Nat /\ n \in 0..depth - 1 BY DEF Sane, Index
  <2>2. \A m \in Nat : m <= n => m \in 0..depth - 1 BY <2>1
  <2> QED BY <1>0, <2>1, <2>2, Members DEF MmalInv, InQueue, Index
<1>4. /\ m_bulk'[n] = i /\ \A m \in Index : m # n => m_bulk'[m] = m_bulk[m]
      /\ m_bulk' \in [Index -> {Nothing} \cup Place]
  BY <1>0, <1>1 DEF TableTyped, Index
<1>5. \A m \in Index : m_bulk[m] # Nothing => /\ m_bulk'[m] = m_bulk[m] /\ m # n /\ m_bulk[m] # i
                                               /\ m_table'[m_bulk[m]].buf = m_table[m_bulk[m]].buf
  BY <1>b, <1>2, <1>3, <1>4 DEF In
<1>6. m_table'[i].buf = b BY <1>c, <1>2 DEF In
<1>7. n >= Announced + Len(m_asked)
  <2>1. \A x \in 0..(Announced + Len(m_asked)) - 1 : m_bulk[x] # Nothing BY DEF MmalInv, Covered
  <2> QED BY <1>b, <1>3, <2>1
<1>8. /\ m_asked' \in Seq(Request(bufs, depth)) /\ Len(m_asked') \in Nat /\ DOMAIN m_asked' = 1..Len(m_asked')
      /\ Len(m_asked') \in {Len(m_asked), Len(m_asked) + 1}
      /\ \A k \in DOMAIN m_asked' : (k \in DOMAIN m_asked /\ m_asked'[k] = m_asked[k])
                                    \/ (k = Len(m_asked) + 1 /\ m_asked'[k].to = b)
  <2> DEFINE e == [list |-> n, to |-> b]
  <2>1. e \in Request(bufs, depth) /\ e.to = b BY <1>2 DEF Request, Index
  <2> HIDE DEF e
  <2>2. CASE m_asked' = Append(m_asked, e) BY <1>0, <2>1, <2>2, Appended DEF TableTyped
  <2>3. CASE m_asked' = m_asked BY <1>0, <1>3, <2>3 DEF TableTyped
  <2> QED BY <1>1, <2>2, <2>3 DEF e
<1>9. InQueue(depth)'
  <2>1. (\A m \in Index : m_bulk[m] # Nothing => In(m_bulk[m], "receiving"))'
    <3> SUFFICES ASSUME NEW m \in Index, m_bulk'[m] # Nothing PROVE In(m_bulk[m], "receiving")' OBVIOUS
    <3>1. CASE m = n BY <1>2, <1>4, <3>1 DEF In, Taken
    <3>2. CASE m # n BY <1>2, <1>3, <1>4, <3>2 DEF In, Taken
    <3> QED BY <3>1, <3>2
  <2>2. \A m, q \in Index : m_bulk'[m] # Nothing /\ m_bulk'[m] = m_bulk'[q] => m = q
    BY <1>3, <1>4, <1>5 DEF MmalInv, InQueue, Index
  <2>3. \A m, q \in Index : m_bulk'[m] # Nothing /\ q < m => m_bulk'[q] # Nothing
    <3> SUFFICES ASSUME NEW m \in Index, NEW q \in Index, m_bulk'[m] # Nothing, q < m PROVE m_bulk'[q] # Nothing OBVIOUS
    <3>1. CASE m = n BY <1>b, <1>3, <1>4, <3>1
    <3>2. CASE m # n BY <1>3, <1>4, <1>5, <3>2 DEF MmalInv, InQueue, Index
    <3> QED BY <3>1, <3>2
  <2> QED BY <2>1, <2>2, <2>3 DEF InQueue, Index
<1>10. Covered(depth)'
  <2> SUFFICES ASSUME NEW x \in 0..(Announced + Len(m_asked')) - 1 PROVE x \in Index /\ m_bulk'[x] # Nothing
    BY <1>2 DEF Covered, Index
  <2>1. CASE x < Announced + Len(m_asked)
    <3>1. x \in Index /\ m_bulk[x] # Nothing BY <1>3, <2>1 DEF MmalInv, Covered, Index
    <3> QED BY <1>5, <3>1
  <2>2. CASE ~(x < Announced + Len(m_asked))
    <3>1. x \in Nat /\ x <= n
      <4> DEFINE p == Announced
                 q == Len(m_asked)
                 r == Len(m_asked')
      <4>1. p \in Nat /\ q \in Nat BY <1>3
      <4>2. r \in Nat /\ r \in {q, q + 1} BY <1>8
      <4>3. x \in 0..(p + r) - 1 /\ n >= p + q BY <1>7
      <4> HIDE DEF p, q, r
      <4> QED BY <1>3, <4>1, <4>2, <4>3
    <3>2. x \in Index BY <1>3, <3>1
    <3> QED BY <1>b, <1>3, <1>4, <1>5, <3>1, <3>2
  <2> QED BY <2>1, <2>2
<1>11. BulksQueued(depth)'
  <2> SUFFICES ASSUME NEW k \in DOMAIN m_asked'
               PROVE  \E m \in Index : /\ m >= Announced + k - 1 /\ m_bulk'[m] # Nothing
                                       /\ m_table'[m_bulk'[m]].buf = m_asked'[k].to
    BY <1>2 DEF BulksQueued, Index
  <2>1. CASE k \in DOMAIN m_asked /\ m_asked'[k] = m_asked[k]
    <3>1. PICK m \in Index : m >= Announced + k - 1 /\ m_bulk[m] # Nothing /\ m_table[m_bulk[m]].buf = m_asked[k].to
      BY <2>1 DEF MmalInv, BulksQueued, Index
    <3> QED BY <1>5, <2>1, <3>1
  <2>2. CASE k = Len(m_asked) + 1 /\ m_asked'[k].to = b BY <1>3, <1>4, <1>6, <1>7, <2>2
  <2> QED BY <1>8, <2>1, <2>2
<1>12. InOrder'
  <2> SUFFICES ASSUME ~m_failed' PROVE InOrder' BY DEF InOrder
  <2>1. /\ Many(m_back) = Many(m_back') + 1 /\ Many(m_back') \in Nat /\ 1 \in DOMAIN m_back /\ Data(m_back[1])
        /\ Head(m_back) = m_back[1]
        /\ \A q \in DOMAIN m_back' : /\ q + 1 \in DOMAIN m_back /\ m_back'[q] = m_back[q + 1]
                                     /\ Cardinality(Datas(m_back, q + 1)) = Cardinality(Datas(m_back', q)) + 1
                                     /\ Cardinality(Datas(m_back', q)) \in Nat
    BY <1>0, <1>1, Looked DEF TableTyped, One, Data
  <2>2. ~m_failed /\ Len(m_asked') = Len(m_asked) + 1
    <3> DEFINE e == [list |-> n, to |-> b]
    <3>1. e \in Request(bufs, depth) BY <1>2 DEF Request, Index
    <3> HIDE DEF e
    <3>2. m_asked' = Append(m_asked, e) /\ ~m_failed BY <1>1 DEF e
    <3> QED BY <1>0, <3>1, <3>2, Appended DEF TableTyped
  <2>3. m_offered[Len(m_asked) + 1] = b
    BY <1>a, <1>c, <2>1, <2>2, FirstData DEF MmalInv, InOrder
  <2>4. Len(m_offered) = Len(m_asked') + Many(m_back') BY <1>3, <2>1, <2>2 DEF MmalInv, InOrder
  <2>5. \A k \in DOMAIN m_asked' : m_offered[k] = m_asked'[k].to BY <1>8, <2>2, <2>3 DEF MmalInv, InOrder
  <2>6. ASSUME NEW q \in DOMAIN m_back', Data(m_back'[q])
        PROVE  m_offered[Len(m_asked') + Cardinality(Datas(m_back', q))] = m_table'[m_back'[q].entry].buf
    <3>1. m_offered[Len(m_asked) + Cardinality(Datas(m_back, q + 1))] = m_table[m_back[q + 1].entry].buf
      BY <2>1, <2>2, <2>6 DEF MmalInv, InOrder
    <3>2. Len(m_asked) + Cardinality(Datas(m_back, q + 1)) = Len(m_asked') + Cardinality(Datas(m_back', q))
      BY <1>3, <2>1, <2>2
    <3>3. m_table'[m_back'[q].entry].buf = m_table[m_back'[q].entry].buf BY <1>2, <2>6 DEF Data
    <3> QED BY <2>1, <3>1, <3>2, <3>3
  <2> QED BY <1>1, <2>4, <2>5, <2>6 DEF InOrder
<1>13. InStep(depth)'
  <2> SUFFICES ASSUME ~m_failed' PROVE InStep(depth)' BY DEF InStep
  <2>2. ~m_failed /\ Len(m_asked') = Len(m_asked) + 1
    <3> DEFINE e == [list |-> n, to |-> b]
    <3>1. e \in Request(bufs, depth) BY <1>2 DEF Request, Index
    <3> HIDE DEF e
    <3>2. m_asked' = Append(m_asked, e) /\ ~m_failed BY <1>1 DEF e
    <3> QED BY <1>0, <3>1, <3>2, Appended DEF TableTyped
  <2>3. n = Announced + Len(m_asked)
    <3>1. ~(Announced + Len(m_asked) < n)
      <4> SUFFICES ASSUME Announced + Len(m_asked) < n PROVE FALSE OBVIOUS
      <4>1. Announced + Len(m_asked) \in Index BY <1>3
      <4>2. m_bulk[Announced + Len(m_asked)] # Nothing BY <1>b, <1>3, <4>1
      <4> QED BY <1>3, <2>2, <4>1, <4>2 DEF MmalInv, InStep, Index
    <3> QED BY <1>3, <1>7, <3>1
  <2>4. \A m \in Index : m_bulk[m] # Nothing <=> m < Announced + Len(m_asked) BY <2>2 DEF MmalInv, InStep, Index
  <2>5. \A m \in Index : m_bulk'[m] # Nothing <=> m < Announced + Len(m_asked')
    <3> SUFFICES ASSUME NEW m \in Index PROVE m_bulk'[m] # Nothing <=> m < Announced + Len(m_asked') OBVIOUS
    <3>1. CASE m = n BY <1>3, <1>4, <2>2, <2>3, <3>1
    <3>2. CASE m # n BY <1>3, <1>4, <2>2, <2>3, <2>4, <3>2
    <3> QED BY <3>1, <3>2
  <2>6. ASSUME NEW k \in DOMAIN m_asked'
        PROVE  /\ m_bulk'[Announced + k - 1] # Nothing
               /\ m_table'[m_bulk'[Announced + k - 1]].buf = m_asked'[k].to
    <3>1. CASE k \in DOMAIN m_asked /\ m_asked'[k] = m_asked[k]
      <4> DEFINE x == Announced + k - 1
      <4>0. k \in 1..Len(m_asked) BY <1>3, <3>1
      <4>1. x \in Index
        <5>1. x \in Nat /\ x <= n BY <1>3, <1>7, <4>0
        <5> QED BY <1>3, <5>1
      <4>2. m_bulk[x] # Nothing /\ m_table[m_bulk[x]].buf = m_asked[k].to BY <2>2, <3>1 DEF MmalInv, InStep
      <4> HIDE DEF x
      <4>3. m_bulk'[x] # Nothing /\ m_table'[m_bulk'[x]].buf = m_asked'[k].to BY <1>5, <3>1, <4>1, <4>2
      <4> QED BY <4>3 DEF x
    <3>2. CASE k = Len(m_asked) + 1 /\ m_asked'[k].to = b
      <4>1. Announced + k - 1 = n BY <1>3, <2>3, <3>2
      <4> QED BY <1>3, <1>4, <1>6, <3>2, <4>1
    <3> QED BY <1>8, <3>1, <3>2
  <2> QED BY <1>2, <2>5, <2>6 DEF InStep, Index
<1>14. FinishedOnce'
  <2>1. \A k \in DOMAIN m_returned : m_returned[k] \in Place /\ In(m_returned[k], "returned") BY <1>0, Members DEF MmalInv, FinishedOnce
  <2> QED BY <1>1, <1>2, <2>1 DEF MmalInv, FinishedOnce
<1>15. OwnOnly(bufs)' BY <1>1 DEF MmalInv, OwnOnly
<1>16. TableTyped(bufs, depth)'
  <2>1. m_failed' \in BOOLEAN
    <3>1. m_failed \in BOOLEAN BY <1>0 DEF TableTyped
    <3>2. m_failed' = m_failed \/ m_failed' = TRUE BY <1>1
    <3> QED BY <3>1, <3>2, Zenon
  <2>2. m_lists' \in [0..depth - 1 -> {Nothing} \cup bufs] BY <1>0, <1>1, <1>2 DEF TableTyped
  <2> QED BY <1>0, <1>1, <1>2, <1>4, <1>8, <2>1, <2>2 DEF TableTyped, Index
<1> QED BY <1>2, <1>9, <1>10, <1>11, <1>12, <1>13, <1>14, <1>15, <1>16, MmalTyped DEF MmalInv

LEMMA MmalRefused ==
  ASSUME NEW bufs, NEW depth, Sane(bufs, depth), MmalInv(bufs, depth), Mmal(bufs, depth)!FetchRefused
  PROVE  MmalInv(bufs, depth)'
<1>0. TableTyped(bufs, depth) BY MmalTyped DEF MmalInv
<1>a. PICK i \in Place : i = Head(m_back).entry BY <1>0, HeadEntry DEF Mmal!FetchRefused, Mmal!Receiving
<1>1. /\ m_back # <<>> /\ Head(m_back).kind = "back" /\ m_back' = Tail(m_back)
      /\ m_table' = [m_table EXCEPT ![i] = [buf |-> m_table[i].buf, state |-> "receiving"]]
      /\ m_failed' = TRUE
      /\ UNCHANGED <<m_returned, m_bulk, m_lists, m_mine, m_firm, m_offered, m_asked, m_holds>>
  BY <1>a DEF Mmal!FetchRefused, Mmal!Receiving, Mmal!Held
<1>2. /\ m_table' \in [Place -> {Nothing} \cup Rec(bufs)] /\ m_back' \in Seq(Notice)
      /\ OneEach' /\ Lending' /\ GivenBack'
      /\ In(i, "with") /\ In(i, "receiving")'
      /\ \A j \in Place : Taken(j) => m_table'[j].buf = m_table[j].buf
      /\ \A j \in Place, t \in {"receiving", "returned"} : In(j, t) => In(j, t)' /\ j # i
      /\ Announced' = Announced
  <2>1. "receiving" \in {"receiving", "returned"} OBVIOUS
  <2> QED BY <1>a, <1>1, <2>1, BackTaken, ZenonT(30)
<1>3. FinishedOnce'
  <2>1. \A k \in DOMAIN m_returned : m_returned[k] \in Place /\ In(m_returned[k], "returned") BY <1>0, Members DEF MmalInv, FinishedOnce
  <2> QED BY <1>1, <1>2, <2>1 DEF MmalInv, FinishedOnce
<1>4. TableTyped(bufs, depth)' BY <1>0, <1>1, <1>2 DEF TableTyped
<1>5. InQueue(depth)' /\ Covered(depth)' /\ BulksQueued(depth)' /\ InStep(depth)'
  BY <1>0, <1>1, <1>2, QueueKept DEF MmalInv, In
<1>6. InOrder' /\ OwnOnly(bufs)' BY <1>1 DEF InOrder, OwnOnly
<1> QED BY <1>2, <1>3, <1>4, <1>5, <1>6, MmalTyped DEF MmalInv

\* A completion: the oldest transfer outstanding is the one.
LEMMA MmalFetched ==
  ASSUME NEW bufs, NEW depth, Sane(bufs, depth), MmalInv(bufs, depth), Mmal(bufs, depth)!Fetched
  PROVE  MmalInv(bufs, depth)'
<1>0. TableTyped(bufs, depth) BY MmalTyped DEF MmalInv
<1> DEFINE Index == 0..depth - 1
<1>z. depth \in Nat \ {0} /\ 0 \in Index BY DEF Sane
<1>a. PICK i \in Place : i = m_bulk[0] /\ m_bulk[0] # Nothing BY <1>0, <1>z, Members DEF Mmal!Fetched
<1>1. /\ m_back # <<>> /\ Head(m_back).kind = "done" /\ m_back' = Tail(m_back)
      /\ m_table' = [m_table EXCEPT ![i] = [buf |-> m_table[i].buf, state |-> "returned"]]
      /\ m_bulk' = [m \in Index |-> IF m = depth - 1 THEN Nothing ELSE m_bulk[m + 1]]
      /\ m_returned' = Append(m_returned, i)
      /\ UNCHANGED <<m_lists, m_mine, m_firm, m_offered, m_asked, m_holds, m_failed>>
  BY <1>a DEF Mmal!Fetched, Mmal!Done, Mmal!Complete, Mmal!Held, Mmal!Rotated, Mmal!Index
<1> HIDE DEF Index
<1>2. /\ m_back' \in Seq(Notice) /\ Head(m_back) = m_back[1] /\ 1 \in DOMAIN m_back
      /\ \A k \in DOMAIN m_back' : k \in Nat \ {0} /\ k + 1 \in DOMAIN m_back /\ k + 1 # 1 /\ m_back'[k] = m_back[k + 1]
      /\ Announced \in Nat /\ Announced' \in Nat /\ Announced = Announced' + 1
      /\ Many(m_back) = Many(m_back') /\ Many(m_back') \in Nat
      /\ \A q \in DOMAIN m_back' : Cardinality(Datas(m_back, q + 1)) = Cardinality(Datas(m_back', q))
  BY <1>0, <1>1, Looked DEF TableTyped, One, Done, Data
<1>3. In(i, "receiving") /\ Taken(i) BY <1>a, <1>z DEF MmalInv, InQueue, In, Index
<1>4. /\ m_table' \in [Place -> {Nothing} \cup Rec(bufs)]
      /\ \A j \in Place : (Taken(j)' <=> Taken(j)) /\ (Taken(j) => m_table'[j].buf = m_table[j].buf)
      /\ \A j \in Place \ {i} : m_table'[j] = m_table[j] /\ \A t : In(j, t)' <=> In(j, t)
      /\ In(i, "returned")' /\ (OneEach /\ m_mine' = m_mine => OneEach')
  <2>1. "returned" \in {"with", "receiving", "returned"} OBVIOUS
  <2> QED BY <1>0, <1>1, <1>3, <2>1, Restated
<1>5. OneEach' BY <1>1, <1>4 DEF MmalInv
<1>6. \A j \in Place, t \in {"with", "returned"} : In(j, t) => In(j, t)' /\ j # i BY <1>3, <1>4 DEF In
<1>7. Lending' BY <1>0, <1>1, <1>6 DEF MmalInv, Lending, TableTyped
<1>8. \A k \in DOMAIN m_back' : m_back'[k].kind = "back" => m_back'[k].entry \in Place /\ In(m_back'[k].entry, "with")
  BY <1>0, <1>2, Members DEF MmalInv, GivenBack
<1>9. GivenBack'
  <2>1. (\A k \in DOMAIN m_back : m_back[k].kind = "back" => In(m_back[k].entry, "with") /\ m_back[k].entry \notin m_firm)'
    BY <1>1, <1>2, <1>6, <1>8 DEF MmalInv, GivenBack
  <2>2. \A k, m \in DOMAIN m_back' : m_back'[k].kind = "back" /\ m_back'[m].kind = "back" /\ m_back'[k].entry = m_back'[m].entry => k = m
    <3> SUFFICES ASSUME NEW k \in DOMAIN m_back', NEW m \in DOMAIN m_back',
                        m_back'[k].kind = "back", m_back'[m].kind = "back", m_back'[k].entry = m_back'[m].entry
                 PROVE  k = m
      OBVIOUS
    <3>1. k + 1 \in DOMAIN m_back /\ m + 1 \in DOMAIN m_back /\ m_back'[k] = m_back[k + 1] /\ m_back'[m] = m_back[m + 1]
          /\ k \in Nat /\ m \in Nat
      BY <1>2
    <3>2. k + 1 = m + 1 BY <3>1 DEF MmalInv, GivenBack
    <3> QED BY <3>1, <3>2
  <2> QED BY <2>1, <2>2 DEF GivenBack
<1>10. FinishedOnce' /\ m_returned' \in Seq(Place)
  <2>1. ~In(i, "returned") BY <1>3 DEF In
  <2> QED BY <1>0, <1>1, <1>4, <1>6, <2>1, Finishes DEF MmalInv
<1>11. /\ \A m \in Index : m_bulk'[m] # Nothing => m + 1 \in Index
       /\ \A m \in Index : m + 1 \in Index => m_bulk'[m] = m_bulk[m + 1]
       /\ Index \subseteq Nat /\ \A m \in Index : m # 0 => m - 1 \in Index /\ (m - 1) + 1 = m
       /\ m_bulk' \in [Index -> {Nothing} \cup Place]
  <2>1. \A m \in Index : m \in Nat /\ (m # depth - 1 => m + 1 \in Index) /\ (m + 1 \in Index => m # depth - 1)
        /\ (m # 0 => m - 1 \in Index /\ (m - 1) + 1 = m)
    BY <1>z DEF Index
  <2>2. \A m \in Index : m_bulk[m] \in {Nothing} \cup Place BY <1>0 DEF TableTyped, Index
  <2> QED BY <1>1, <2>1, <2>2
<1>12. \A m \in Index : m_bulk[m] # Nothing /\ m # 0 =>
         m_bulk[m] \in Place /\ m_bulk[m] # i /\ In(m_bulk[m], "receiving") /\ m_table'[m_bulk[m]].buf = m_table[m_bulk[m]].buf
  <2>1. \A m \in Index : m_bulk[m] # Nothing => m_bulk[m] \in Place /\ In(m_bulk[m], "receiving")
    BY <1>0, Members DEF MmalInv, InQueue, Index
  <2>2. \A m \in Index : m_bulk[m] # Nothing /\ m # 0 => m_bulk[m] # i BY <1>a, <1>z DEF MmalInv, InQueue, Index
  <2> QED BY <1>4, <2>1, <2>2 DEF In
<1>13. InQueue(depth)'
  <2>1. (\A m \in Index : m_bulk[m] # Nothing => In(m_bulk[m], "receiving"))'
    <3> SUFFICES ASSUME NEW m \in Index, m_bulk'[m] # Nothing PROVE In(m_bulk[m], "receiving")' OBVIOUS
    <3>1. m + 1 \in Index /\ m_bulk'[m] = m_bulk[m + 1] /\ m + 1 # 0 BY <1>11
    <3> DEFINE x == m_bulk[m + 1]
    <3>2. x \in Place \ {i} /\ In(x, "receiving") BY <1>12, <3>1
    <3>3. m_table'[x] = m_table[x] BY <1>4, <3>2
    <3> QED BY <3>1, <3>2, <3>3 DEF In, Taken
  <2>2. \A m, q \in Index : m_bulk'[m] # Nothing /\ m_bulk'[m] = m_bulk'[q] => m = q
    <3> SUFFICES ASSUME NEW m \in Index, NEW q \in Index, m_bulk'[m] # Nothing, m_bulk'[m] = m_bulk'[q] PROVE m = q OBVIOUS
    <3>1. m + 1 \in Index /\ q + 1 \in Index /\ m_bulk[m + 1] # Nothing /\ m_bulk[m + 1] = m_bulk[q + 1] BY <1>11
    <3>2. m + 1 = q + 1 BY <3>1 DEF MmalInv, InQueue, Index
    <3> QED BY <1>11, <3>2
  <2>3. \A m, q \in Index : m_bulk'[m] # Nothing /\ q < m => m_bulk'[q] # Nothing
    <3> SUFFICES ASSUME NEW m \in Index, NEW q \in Index, m_bulk'[m] # Nothing, q < m PROVE m_bulk'[q] # Nothing OBVIOUS
    <3>1. m + 1 \in Index /\ m_bulk[m + 1] # Nothing /\ m \in Nat /\ q \in Nat BY <1>11
    <3>2. q + 1 \in Index /\ q + 1 < m + 1 BY <1>z, <3>1 DEF Index
    <3>3. m_bulk[q + 1] # Nothing BY <3>1, <3>2 DEF MmalInv, InQueue, Index
    <3> QED BY <1>11, <3>2, <3>3
  <2> QED BY <2>1, <2>2, <2>3 DEF InQueue, Index
<1>14. Len(m_asked) \in Nat /\ DOMAIN m_asked = 1..Len(m_asked) BY <1>0, Members
<1>15. Covered(depth)'
  <2> SUFFICES ASSUME NEW x \in 0..(Announced' + Len(m_asked)) - 1 PROVE x \in Index /\ m_bulk'[x] # Nothing
    BY <1>1 DEF Covered, Index
  <2>1. x \in Nat /\ x + 1 \in 0..(Announced + Len(m_asked)) - 1 BY <1>2, <1>14, SMTT(30)
  <2>2. x + 1 \in Index /\ m_bulk[x + 1] # Nothing BY <2>1 DEF MmalInv, Covered, Index
  <2>3. x \in Index BY <2>1, <2>2, <1>z DEF Index
  <2> QED BY <1>11, <2>2, <2>3
<1>16. BulksQueued(depth)'
  <2> SUFFICES ASSUME NEW k \in DOMAIN m_asked
               PROVE  \E m \in Index : /\ m >= Announced' + k - 1 /\ m_bulk'[m] # Nothing
                                       /\ m_table'[m_bulk'[m]].buf = m_asked[k].to
    BY <1>1 DEF BulksQueued, Index
  <2>1. PICK m \in Index : m >= Announced + k - 1 /\ m_bulk[m] # Nothing /\ m_table[m_bulk[m]].buf = m_asked[k].to
    BY DEF MmalInv, BulksQueued, Index
  <2>2. m \in Nat /\ m # 0 /\ m - 1 >= Announced' + k - 1 BY <1>2, <1>11, <1>14, <2>1
  <2>3. m - 1 \in Index /\ m_bulk'[m - 1] = m_bulk[m] BY <1>11, <2>2
  <2>4. m_table'[m_bulk[m]].buf = m_asked[k].to BY <1>12, <2>1, <2>2
  <2> QED BY <2>1, <2>2, <2>3, <2>4
<1>17. InOrder'
  <2> SUFFICES ASSUME ~m_failed PROVE InOrder' BY <1>1 DEF InOrder
  <2>1. ASSUME NEW q \in DOMAIN m_back', Data(m_back'[q])
        PROVE  m_offered[Len(m_asked) + Cardinality(Datas(m_back', q))] = m_table'[m_back'[q].entry].buf
    <3>1. m_offered[Len(m_asked) + Cardinality(Datas(m_back, q + 1))] = m_table[m_back[q + 1].entry].buf
      BY <1>2, <2>1 DEF MmalInv, InOrder
    <3>2. m_table'[m_back'[q].entry].buf = m_table[m_back'[q].entry].buf BY <1>4, <1>8, <2>1 DEF Data, In
    <3> QED BY <1>2, <3>1, <3>2
  <2> QED BY <1>1, <1>2, <2>1 DEF MmalInv, InOrder
<1>18. InStep(depth)'
  <2> SUFFICES ASSUME ~m_failed PROVE InStep(depth)' BY <1>1 DEF InStep
  <2>1. \A m \in Index : m_bulk'[m] # Nothing <=> m < Announced' + Len(m_asked)
    <3> SUFFICES ASSUME NEW m \in Index PROVE m_bulk'[m] # Nothing <=> m < Announced' + Len(m_asked) OBVIOUS
    <3>1. CASE m + 1 \in Index
      <4>1. m_bulk[m + 1] # Nothing <=> m + 1 < Announced + Len(m_asked) BY <3>1 DEF MmalInv, InStep, Index
      <4>2. m \in Nat BY <1>11
      <4> QED BY <1>2, <1>11, <1>14, <3>1, <4>1, <4>2
    <3>2. CASE m + 1 \notin Index
      <4>1. m_bulk'[m] = Nothing BY <1>11, <3>2
      <4>2. ~(m < Announced' + Len(m_asked))
        <5> SUFFICES ASSUME m < Announced' + Len(m_asked) PROVE FALSE OBVIOUS
        <5>1. m \in Nat BY <1>11
        <5>2. m + 1 \in 0..(Announced + Len(m_asked)) - 1 BY <1>2, <1>14, <5>1
        <5> QED BY <3>2, <5>2 DEF MmalInv, Covered, Index
      <4> QED BY <4>1, <4>2
    <3> QED BY <3>1, <3>2
  <2>2. ASSUME NEW k \in DOMAIN m_asked
        PROVE  m_bulk'[Announced' + k - 1] # Nothing /\ m_table'[m_bulk'[Announced' + k - 1]].buf = m_asked[k].to
    <3> DEFINE x == Announced + k - 1
    <3>1. x \in 0..(Announced + Len(m_asked)) - 1 /\ x \in Nat /\ x # 0 /\ Announced' + k - 1 = x - 1 BY <1>2, <1>14
    <3>2. x \in Index BY <3>1 DEF MmalInv, Covered, Index
    <3>3. m_bulk[x] # Nothing /\ m_table[m_bulk[x]].buf = m_asked[k].to BY DEF MmalInv, InStep
    <3> HIDE DEF x
    <3>4. m_bulk'[x - 1] = m_bulk[x] BY <1>11, <3>1, <3>2
    <3> QED BY <1>12, <3>1, <3>2, <3>3, <3>4
  <2> QED BY <1>1, <2>1, <2>2 DEF InStep, Index
<1>19. OwnOnly(bufs)' BY <1>1 DEF MmalInv, OwnOnly
<1>20. TableTyped(bufs, depth)' BY <1>0, <1>1, <1>2, <1>4, <1>10, <1>11 DEF TableTyped, Index
<1> QED BY <1>5, <1>7, <1>9, <1>10, <1>13, <1>15, <1>16, <1>17, <1>18, <1>19, <1>20, MmalTyped DEF MmalInv

\* take_returned.
LEMMA MmalHandOver ==
  ASSUME NEW bufs, NEW depth, Sane(bufs, depth), MmalInv(bufs, depth), Mmal(bufs, depth)!HandOver
  PROVE  MmalInv(bufs, depth)'
<1>0. TableTyped(bufs, depth) BY MmalTyped DEF MmalInv
<1>1. PICK e \in Place :
        /\ m_returned # <<>> /\ e = Head(m_returned) /\ Taken(e)
        /\ m_table' = [m_table EXCEPT ![e] = Nothing] /\ m_mine' = m_mine \cup {m_table[e].buf}
        /\ m_returned' = Tail(m_returned)
        /\ UNCHANGED <<m_bulk, m_lists, m_firm, m_offered, m_asked, m_back, m_holds, m_failed>>
  <2>1. m_returned # <<>> BY DEF Mmal!HandOver
  <2>2. Head(m_returned) \in Place BY <1>0, <2>1, Shortened DEF TableTyped
  <2> QED BY <2>1, <2>2 DEF Mmal!HandOver, Mmal!firmware, Taken
<1>2. /\ m_returned' \in Seq(Place) /\ Head(m_returned) = m_returned[1] /\ 1 \in DOMAIN m_returned
      /\ \A k \in DOMAIN m_returned' : k \in Nat \ {0} /\ k + 1 \in DOMAIN m_returned /\ m_returned'[k] = m_returned[k + 1]
  BY <1>0, <1>1, Shortened DEF TableTyped
<1>3. In(e, "returned") BY <1>1, <1>2 DEF MmalInv, FinishedOnce
<1>4. /\ m_table' \in [Place -> {Nothing} \cup Rec(bufs)] /\ m_table'[e] = Nothing
      /\ \A j \in Place \ {e} : m_table'[j] = m_table[j]
  BY <1>0, <1>1 DEF TableTyped
<1>5. /\ ~Taken(e)' /\ \A j \in Place \ {e} : (Taken(j)' <=> Taken(j)) /\ \A t : In(j, t)' <=> In(j, t)
      /\ \A j \in Place, t \in {"with", "receiving"} : In(j, t) => In(j, t)' /\ j # e /\ m_table'[j].buf = m_table[j].buf
  BY <1>3, <1>4 DEF Taken, In
<1>6. m_table[e].buf \in bufs
  <2>1. m_table[e] \in Rec(bufs) BY <1>0, <1>1 DEF TableTyped, Taken
  <2> QED BY <2>1 DEF Rec
<1>7. TableTyped(bufs, depth)' BY <1>0, <1>1, <1>2, <1>4, <1>6 DEF TableTyped
<1>8. OneEach' BY <1>1, <1>4, <1>5 DEF MmalInv, OneEach
<1>9. Lending' BY <1>0, <1>1, <1>5 DEF MmalInv, Lending, TableTyped
<1>10. GivenBack' BY <1>0, <1>1, <1>5, Members DEF MmalInv, GivenBack
<1>11. FinishedOnce'
  <2>1. ASSUME NEW k \in DOMAIN m_returned' PROVE m_returned'[k] \in Place \ {e} /\ In(m_returned'[k], "returned")
    <3>1. k + 1 \in DOMAIN m_returned /\ k + 1 # 1 /\ m_returned'[k] = m_returned[k + 1] BY <1>2
    <3>2. m_returned[k + 1] # e BY <1>1, <1>2, <3>1 DEF MmalInv, FinishedOnce
    <3> QED BY <1>0, <3>1, <3>2, Members DEF MmalInv, FinishedOnce
  <2>2. (\A k \in DOMAIN m_returned : In(m_returned[k], "returned"))' BY <1>5, <2>1
  <2>3. \A k, m \in DOMAIN m_returned' : m_returned'[k] = m_returned'[m] => k = m
    <3> SUFFICES ASSUME NEW k \in DOMAIN m_returned', NEW m \in DOMAIN m_returned', m_returned'[k] = m_returned'[m] PROVE k = m
      OBVIOUS
    <3>1. k + 1 = m + 1 BY <1>2 DEF MmalInv, FinishedOnce
    <3> QED BY <1>2, <3>1
  <2> QED BY <2>2, <2>3 DEF FinishedOnce
<1>12. InQueue(depth)' /\ Covered(depth)' /\ BulksQueued(depth)' /\ InStep(depth)'
  <2>1. Announced' = Announced BY <1>1 DEF Announced
  <2> QED BY <1>0, <1>1, <1>5, <2>1, QueueKept DEF MmalInv
<1>13. InOrder'
  <2> SUFFICES ASSUME ~m_failed PROVE InOrder' BY <1>1 DEF InOrder
  <2>1. \A k \in DOMAIN m_back : Data(m_back[k]) => In(m_back[k].entry, "with") /\ m_back[k].entry \in Place
    BY <1>0, Members DEF MmalInv, GivenBack, Data
  <2> QED BY <1>1, <1>5, <2>1 DEF MmalInv, InOrder
<1>14. OwnOnly(bufs)' BY <1>1 DEF MmalInv, OwnOnly
<1> QED BY <1>7, <1>8, <1>9, <1>10, <1>11, <1>12, <1>13, <1>14, MmalTyped DEF MmalInv

\* The firmware gives a buffer back.
LEMMA MmalGiveBack ==
  ASSUME NEW bufs, NEW depth, Sane(bufs, depth), MmalInv(bufs, depth), NEW i \in Place, Mmal(bufs, depth)!GiveBack(i)
  PROVE  MmalInv(bufs, depth)'
<1>0. TableTyped(bufs, depth) BY MmalTyped DEF MmalInv
<1>1. PICK data \in BOOLEAN :
        /\ i \in m_firm /\ m_firm' = m_firm \ {i}
        /\ m_back' = Append(m_back, [kind |-> "back", entry |-> i, data |-> data])
        /\ m_offered' = IF data THEN Append(m_offered, m_table[i].buf) ELSE m_offered
        /\ UNCHANGED <<m_table, m_returned, m_bulk, m_lists, m_mine, m_asked, m_holds, m_failed>>
  BY DEF Mmal!GiveBack, Mmal!driver
<1> DEFINE e == [kind |-> "back", entry |-> i, data |-> data]
<1>2. e \in Notice /\ e.kind = "back" /\ e.entry = i /\ (Data(e) <=> data) /\ ~Done(e) BY DEF Notice, Data, Done
<1>3. m_back' = Append(m_back, e) BY <1>1
<1> HIDE DEF e
<1>4. /\ m_back' \in Seq(Notice)
      /\ \A k \in DOMAIN m_back : k \in DOMAIN m_back' /\ k # Len(m_back) + 1 /\ m_back'[k] = m_back[k]
      /\ \A k \in DOMAIN m_back' : k \in DOMAIN m_back \/ k = Len(m_back) + 1
      /\ m_back'[Len(m_back) + 1] = e
      /\ Announced' = Announced /\ Many(m_back) \in Nat /\ Many(m_back') = Many(m_back) + One(data)
      /\ Cardinality(Datas(m_back', Len(m_back) + 1)) = Many(m_back')
      /\ \A q \in DOMAIN m_back : Datas(m_back', q) = Datas(m_back, q)
  BY <1>0, <1>2, <1>3, MmalTold DEF TableTyped, One
<1>5. In(i, "with") BY <1>1 DEF MmalInv, Lending
<1>6. m_table[i].buf \in bufs
  <2>1. m_table[i] \in Rec(bufs) BY <1>0, <1>5 DEF TableTyped, Taken, In
  <2> QED BY <2>1 DEF Rec
<1>7. \A x : Taken(x)' <=> Taken(x) BY <1>1 DEF Taken
<1>8. \A x, t : In(x, t)' <=> In(x, t) BY <1>1 DEF In, Taken
<1>9. TableTyped(bufs, depth)'
  <2>1. m_offered' \in Seq(bufs)
    <3>1. CASE data BY <1>0, <1>1, <1>6, <3>1, Appended DEF TableTyped
    <3>2. CASE ~data BY <1>0, <1>1, <3>2 DEF TableTyped
    <3> QED BY <3>1, <3>2
  <2> QED BY <1>0, <1>1, <1>4, <2>1 DEF TableTyped
<1>10. OneEach' BY <1>1, <1>7 DEF MmalInv, OneEach
<1>11. Lending' BY <1>1, <1>8 DEF MmalInv, Lending
<1>12. GivenBack'
  <2>1. ASSUME NEW k \in DOMAIN m_back', m_back'[k].kind = "back"
        PROVE  In(m_back'[k].entry, "with") /\ m_back'[k].entry \notin m_firm'
    <3>1. CASE k \in DOMAIN m_back BY <1>1, <1>4, <2>1, <3>1 DEF MmalInv, GivenBack
    <3>2. CASE k = Len(m_back) + 1 BY <1>1, <1>2, <1>4, <1>5, <3>2
    <3> QED BY <1>4, <3>1, <3>2
  <2>2. (\A k \in DOMAIN m_back : m_back[k].kind = "back" => In(m_back[k].entry, "with") /\ m_back[k].entry \notin m_firm)'
    BY <1>8, <2>1
  <2>3. \A k \in DOMAIN m_back : m_back[k].kind = "back" => m_back[k].entry # i BY <1>1 DEF MmalInv, GivenBack
  <2>4. \A k, m \in DOMAIN m_back' : m_back'[k].kind = "back" /\ m_back'[m].kind = "back" /\ m_back'[k].entry = m_back'[m].entry => k = m
    <3> SUFFICES ASSUME NEW k \in DOMAIN m_back', NEW m \in DOMAIN m_back',
                        m_back'[k].kind = "back", m_back'[m].kind = "back", m_back'[k].entry = m_back'[m].entry
                 PROVE  k = m
      OBVIOUS
    <3>1. CASE k \in DOMAIN m_back /\ m \in DOMAIN m_back BY <1>4, <3>1 DEF MmalInv, GivenBack
    <3>2. CASE k = Len(m_back) + 1 /\ m \in DOMAIN m_back BY <1>2, <1>4, <2>3, <3>2
    <3>3. CASE k \in DOMAIN m_back /\ m = Len(m_back) + 1 BY <1>2, <1>4, <2>3, <3>3
    <3> QED BY <1>4, <3>1, <3>2, <3>3
  <2> QED BY <2>2, <2>4 DEF GivenBack
<1>13. FinishedOnce' BY <1>1, <1>8 DEF MmalInv, FinishedOnce
<1>14. InQueue(depth)' /\ Covered(depth)' /\ BulksQueued(depth)' /\ InStep(depth)'
  <2>1. \A j \in Place : In(j, "receiving") => In(j, "receiving")' /\ m_table'[j].buf = m_table[j].buf BY <1>1, <1>8
  <2> QED BY <1>0, <1>1, <1>4, <2>1, QueueKept DEF MmalInv
<1>15. InOrder'
  <2> SUFFICES ASSUME ~m_failed PROVE InOrder' BY <1>1 DEF InOrder
  <2>1. /\ Len(m_offered) = Len(m_asked) + Many(m_back) /\ Len(m_asked) \in Nat /\ DOMAIN m_asked = 1..Len(m_asked)
        /\ \A k \in DOMAIN m_asked : m_offered[k] = m_asked[k].to
        /\ \A q \in DOMAIN m_back : Data(m_back[q])
             => m_offered[Len(m_asked) + Cardinality(Datas(m_back, q))] = m_table[m_back[q].entry].buf
    BY <1>0, Members DEF MmalInv, InOrder
  <2>2. CASE ~data
    <3>1. ~Data(m_back'[Len(m_back) + 1]) BY <1>2, <1>4, <2>2
    <3> QED BY <1>1, <1>4, <2>1, <2>2, <3>1 DEF InOrder, One
  <2>3. CASE data
    <3>1. /\ Len(m_offered') = Len(m_offered) + 1 /\ m_offered'[Len(m_offered) + 1] = m_table[i].buf
          /\ \A k \in 1..Len(m_offered) : m_offered'[k] = m_offered[k]
      BY <1>0, <1>1, <1>6, <2>3, Appended DEF TableTyped
    <3>2. \A k \in DOMAIN m_asked : m_offered'[k] = m_asked[k].to
      <4>1. \A k \in DOMAIN m_asked : k \in 1..Len(m_offered) BY <1>4, <2>1
      <4> QED BY <2>1, <3>1, <4>1
    <3>3. ASSUME NEW q \in DOMAIN m_back', Data(m_back'[q])
          PROVE  m_offered'[Len(m_asked) + Cardinality(Datas(m_back', q))] = m_table[m_back'[q].entry].buf
      <4>1. CASE q = Len(m_back) + 1 BY <1>2, <1>4, <2>1, <2>3, <3>1, <4>1 DEF One
      <4>2. CASE q \in DOMAIN m_back
        <5> DEFINE c == Cardinality(Datas(m_back, q))
        <5>1. c \in Nat \ {0} /\ c <= Many(m_back)
          <6>1. q \in 1..Len(m_back) /\ Len(m_back) \in Nat BY <1>0, <4>2, LenProperties DEF TableTyped
          <6>2. Data(m_back[q]) BY <1>4, <3>3, <4>2
          <6> QED BY <6>1, <6>2, CountsWithin DEF Many
        <5> HIDE DEF c
        <5>2. Len(m_asked) + c \in 1..Len(m_offered) BY <1>4, <2>1, <5>1
        <5>3. m_offered[Len(m_asked) + c] = m_table[m_back[q].entry].buf BY <1>4, <2>1, <3>3, <4>2 DEF c
        <5> QED BY <1>4, <3>1, <4>2, <5>2, <5>3 DEF c
      <4> QED BY <1>4, <4>1, <4>2
    <3>4. Len(m_offered') = Len(m_asked) + Many(m_back') BY <1>4, <2>1, <2>3, <3>1 DEF One
    <3> QED BY <1>1, <3>2, <3>3, <3>4 DEF InOrder
  <2> QED BY <2>2, <2>3
<1>16. OwnOnly(bufs)' BY <1>1 DEF MmalInv, OwnOnly
<1> QED BY <1>9, <1>10, <1>11, <1>12, <1>13, <1>14, <1>15, <1>16, MmalTyped DEF MmalInv

\* The firmware moves the bytes of a transfer.
LEMMA MmalMove ==
  ASSUME NEW bufs, NEW depth, Sane(bufs, depth), MmalInv(bufs, depth), Mmal(bufs, depth)!Move
  PROVE  MmalInv(bufs, depth)'
<1>0. TableTyped(bufs, depth) BY MmalTyped DEF MmalInv
<1> DEFINE e == [kind |-> "done", entry |-> 0, data |-> FALSE]
           to == Head(m_asked).to
<1>1. /\ m_asked # <<>> /\ m_offered # <<>> /\ m_holds' = [m_holds EXCEPT ![to] = Head(m_offered)]
      /\ m_asked' = Tail(m_asked) /\ m_offered' = Tail(m_offered) /\ m_back' = Append(m_back, e)
      /\ UNCHANGED <<m_table, m_returned, m_bulk, m_lists, m_mine, m_firm, m_failed>>
  BY ListsAssumption DEF Mmal!Move, Mmal!driver
<1>2. e \in Notice /\ e.kind = "done" /\ ~Data(e) /\ Done(e)
  <2>1. 0 \in Place
    <3>1. 1 \in DOMAIN m_asked BY <1>0, <1>1, Shortened DEF TableTyped
    <3>2. PICK n \in 0..depth - 1 : m_bulk[n] # Nothing BY <3>1 DEF MmalInv, BulksQueued
    <3>3. m_bulk[n] \in Place BY <1>0, <3>2, Members
    <3> QED BY <3>3 DEF Place, Sane
  <2> QED BY <2>1 DEF Notice, Data, Done
<1> HIDE DEF e, to
<1>3. /\ m_back' \in Seq(Notice)
      /\ \A k \in DOMAIN m_back : k \in DOMAIN m_back' /\ k # Len(m_back) + 1 /\ m_back'[k] = m_back[k]
      /\ \A k \in DOMAIN m_back' : k \in DOMAIN m_back \/ k = Len(m_back) + 1
      /\ m_back'[Len(m_back) + 1] = e
      /\ Announced \in Nat /\ Announced' = Announced + 1 /\ Many(m_back) \in Nat /\ Many(m_back') = Many(m_back)
      /\ \A q \in DOMAIN m_back : Datas(m_back', q) = Datas(m_back, q)
  BY <1>0, <1>1, <1>2, MmalTold DEF TableTyped, One
<1>4. /\ m_asked' \in Seq(Request(bufs, depth)) /\ Len(m_asked') = Len(m_asked) - 1 /\ Len(m_asked) \in Nat \ {0}
      /\ DOMAIN m_asked' = 1..(Len(m_asked) - 1) /\ DOMAIN m_asked = 1..Len(m_asked)
      /\ \A k \in 1..(Len(m_asked) - 1) : m_asked'[k] = m_asked[k + 1]
      /\ Head(m_asked) = m_asked[1] /\ Head(m_asked) \in Request(bufs, depth)
  BY <1>0, <1>1, Shortened DEF TableTyped
<1>5. /\ m_offered' \in Seq(bufs) /\ Len(m_offered') = Len(m_offered) - 1 /\ Len(m_offered) \in Nat \ {0}
      /\ \A k \in 1..(Len(m_offered) - 1) : m_offered'[k] = m_offered[k + 1]
      /\ Head(m_offered) = m_offered[1] /\ Head(m_offered) \in bufs
  BY <1>0, <1>1, Shortened DEF TableTyped
<1>6. to \in bufs BY <1>4 DEF Request, to
<1>7. \A x, t : In(x, t)' <=> In(x, t) BY <1>1 DEF In, Taken
<1>8. TableTyped(bufs, depth)'
  <2>1. m_holds' \in [bufs -> {Nothing} \cup bufs] BY <1>0, <1>1, <1>5, <1>6 DEF TableTyped
  <2> QED BY <1>0, <1>1, <1>3, <1>4, <1>5, <2>1 DEF TableTyped
<1>9. OneEach' /\ Lending' /\ FinishedOnce'
  <2>1. \A x : Taken(x)' <=> Taken(x) BY <1>1 DEF Taken
  <2> QED BY <1>1, <1>7, <2>1 DEF MmalInv, OneEach, Lending, FinishedOnce
<1>10. GivenBack'
  <2>1. \A k \in DOMAIN m_back' : m_back'[k].kind = "back" => k \in DOMAIN m_back /\ m_back'[k] = m_back[k]
    BY <1>2, <1>3
  <2>2. (\A k \in DOMAIN m_back : m_back[k].kind = "back" => In(m_back[k].entry, "with") /\ m_back[k].entry \notin m_firm)'
    BY <1>1, <1>7, <2>1 DEF MmalInv, GivenBack
  <2>3. \A k, m \in DOMAIN m_back' : m_back'[k].kind = "back" /\ m_back'[m].kind = "back" /\ m_back'[k].entry = m_back'[m].entry => k = m
    BY <2>1 DEF MmalInv, GivenBack
  <2> QED BY <2>2, <2>3 DEF GivenBack
<1>11. InQueue(depth)' BY <1>1, <1>7 DEF MmalInv, InQueue
<1>12. Covered(depth)'
  <2>1. Announced' + Len(m_asked') = Announced + Len(m_asked) BY <1>3, <1>4
  <2> DEFINE t == Announced + Len(m_asked)
             u == Announced' + Len(m_asked')
  <2>2. Covered(depth) BY DEF MmalInv
  <2>3. \A n \in 0..t - 1 : n \in 0..depth - 1 /\ m_bulk[n] # Nothing BY <2>2, Zenon DEF Covered
  <2>4. u = t BY <2>1
  <2>5. \A n \in 0..u - 1 : n \in 0..depth - 1 /\ m_bulk'[n] # Nothing
    <3> HIDE DEF t, u
    <3> QED BY <1>1, <2>3, <2>4
  <2> QED BY <2>5, Zenon DEF Covered
<1>13. BulksQueued(depth)'
  <2> SUFFICES ASSUME NEW k \in DOMAIN m_asked'
               PROVE  \E n \in 0..depth - 1 : /\ n >= Announced' + k - 1 /\ m_bulk[n] # Nothing
                                              /\ m_table[m_bulk[n]].buf = m_asked'[k].to
    BY <1>1 DEF BulksQueued
  <2>1. k + 1 \in DOMAIN m_asked /\ m_asked'[k] = m_asked[k + 1] /\ Announced + (k + 1) - 1 = Announced' + k - 1 BY <1>3, <1>4, SMTT(30)
  <2> QED BY <2>1 DEF MmalInv, BulksQueued
<1>14. InStep(depth)'
  <2> SUFFICES ASSUME ~m_failed PROVE InStep(depth)' BY <1>1 DEF InStep
  <2>1. Announced' + Len(m_asked') = Announced + Len(m_asked) BY <1>3, <1>4
  <2>2. ASSUME NEW k \in DOMAIN m_asked'
        PROVE  m_bulk[Announced' + k - 1] # Nothing /\ m_table[m_bulk[Announced' + k - 1]].buf = m_asked'[k].to
    <3>1. k + 1 \in DOMAIN m_asked /\ m_asked'[k] = m_asked[k + 1] /\ Announced + (k + 1) - 1 = Announced' + k - 1 BY <1>3, <1>4, SMTT(30)
    <3> QED BY <3>1 DEF MmalInv, InStep
  <2> QED BY <1>1, <2>1, <2>2 DEF MmalInv, InStep
<1>15. ASSUME ~m_failed PROVE InOrder' /\ m_offered[1] = to
  <2>1. /\ Len(m_offered) = Len(m_asked) + Many(m_back)
        /\ \A k \in DOMAIN m_asked : m_offered[k] = m_asked[k].to
        /\ \A q \in DOMAIN m_back : Data(m_back[q])
             => m_offered[Len(m_asked) + Cardinality(Datas(m_back, q))] = m_table[m_back[q].entry].buf
    BY <1>15 DEF MmalInv, InOrder
  <2>2. m_offered[1] = to BY <1>4, <2>1 DEF to
  <2>3. \A k \in DOMAIN m_asked' : m_offered'[k] = m_asked'[k].to
    <3> SUFFICES ASSUME NEW k \in DOMAIN m_asked' PROVE m_offered'[k] = m_asked'[k].to OBVIOUS
    <3>1. k \in 1..(Len(m_asked) - 1) /\ k \in 1..(Len(m_offered) - 1) /\ k + 1 \in DOMAIN m_asked BY <1>3, <1>4, <1>5, <2>1, SMTT(30)
    <3> QED BY <1>4, <1>5, <2>1, <3>1
  <2>4. ASSUME NEW q \in DOMAIN m_back', Data(m_back'[q])
        PROVE  m_offered'[Len(m_asked') + Cardinality(Datas(m_back', q))] = m_table[m_back'[q].entry].buf
    <3>1. q \in DOMAIN m_back /\ m_back'[q] = m_back[q] /\ Datas(m_back', q) = Datas(m_back, q) BY <1>2, <1>3, <2>4
    <3> DEFINE c == Cardinality(Datas(m_back, q))
    <3>2. c \in Nat \ {0} /\ c <= Many(m_back)
      <4>1. q \in 1..Len(m_back) /\ Len(m_back) \in Nat BY <1>0, <3>1, LenProperties DEF TableTyped
      <4>2. Data(m_back[q]) BY <2>4, <3>1
      <4> QED BY <4>1, <4>2, CountsWithin DEF Many
    <3>3. m_offered[Len(m_asked) + c] = m_table[m_back[q].entry].buf BY <2>1, <2>4, <3>1
    <3>4. c = Cardinality(Datas(m_back', q)) BY <3>1
    <3> HIDE DEF c
    <3>5. Len(m_asked') + c \in 1..(Len(m_offered) - 1) /\ (Len(m_asked') + c) + 1 = Len(m_asked) + c BY <1>3, <1>4, <1>5, <2>1, <3>2, SMTT(30)
    <3>6. m_offered'[Len(m_asked') + c] = m_offered[(Len(m_asked') + c) + 1] BY <1>5, <3>5
    <3> QED BY <3>1, <3>3, <3>4, <3>5, <3>6
  <2>5. Len(m_offered') = Len(m_asked') + Many(m_back') BY <1>3, <1>4, <1>5, <2>1
  <2> QED BY <1>1, <2>2, <2>3, <2>4, <2>5 DEF InOrder
<1>16. InOrder'
  <2>1. CASE m_failed BY <1>1, <2>1 DEF InOrder
  <2> QED BY <1>15, <2>1
<1>17. OwnOnly(bufs)'
  <2> SUFFICES ASSUME ~m_failed PROVE \A b \in bufs : m_holds'[b] \in {Nothing, b} BY <1>1 DEF OwnOnly
  <2>1. Head(m_offered) = to BY <1>5, <1>15
  <2>2. \A b \in bufs : m_holds[b] \in {Nothing, b} BY DEF MmalInv, OwnOnly
  <2> QED BY <1>0, <1>1, <1>6, <2>1, <2>2 DEF TableTyped
<1> QED BY <1>8, <1>9, <1>10, <1>11, <1>12, <1>13, <1>14, <1>16, <1>17, MmalTyped DEF MmalInv

LEMMA MmalStep ==
  ASSUME NEW bufs, NEW depth, Sane(bufs, depth), MmalInv(bufs, depth), [Mmal(bufs, depth)!Next]_mVars
  PROVE  MmalInv(bufs, depth)'
<1>1. CASE UNCHANGED mVars
  <2>1. Announced' = Announced BY <1>1 DEF mVars, Announced
  <2>2. TableTyped(bufs, depth)' BY <1>1, MmalTyped DEF mVars, MmalInv, TableTyped
  <2>3. OneEach' /\ Lending' /\ GivenBack' /\ FinishedOnce' /\ InQueue(depth)'
    BY <1>1 DEF mVars, MmalInv, OneEach, Lending, GivenBack, FinishedOnce, InQueue, In, Taken
  <2>4. Covered(depth)' /\ BulksQueued(depth)' /\ InStep(depth)'
    BY <1>1, <2>1 DEF mVars, MmalInv, Covered, BulksQueued, InStep
  <2>5. InOrder' /\ OwnOnly(bufs)' BY <1>1 DEF mVars, MmalInv, InOrder, OwnOnly
  <2> QED BY <2>2, <2>3, <2>4, <2>5, MmalTyped DEF MmalInv
<1>2. CASE \E b \in bufs : Mmal(bufs, depth)!SendBuffer(b) \/ Mmal(bufs, depth)!SendTimesOut(b) BY <1>2, MmalSends
<1>3. CASE Mmal(bufs, depth)!Pump BY <1>3, MmalFinish, MmalFetches, MmalRefused, MmalFetched DEF Mmal!Pump
<1>4. CASE Mmal(bufs, depth)!HandOver BY <1>4, MmalHandOver
<1>5. CASE Mmal(bufs, depth)!Move BY <1>5, MmalMove
<1>6. CASE \E i \in Mmal(bufs, depth)!Entry : Mmal(bufs, depth)!GiveBack(i)
  <2>1. Mmal(bufs, depth)!Entry = Place BY DEF Mmal!Entry, Place
  <2> QED BY <1>6, <2>1, MmalGiveBack
<1> QED BY <1>1, <1>2, <1>3, <1>4, <1>5, <1>6 DEF Mmal!Next

LEMMA MmalInit ==
  ASSUME NEW bufs, NEW depth, Sane(bufs, depth), Mmal(bufs, depth)!Init
  PROVE  MmalInv(bufs, depth)
<1>1. /\ m_table = [i \in Place |-> Nothing] /\ m_returned = <<>>
      /\ m_bulk = [i \in 0..depth - 1 |-> Nothing] /\ m_lists = [i \in 0..depth - 1 |-> Nothing]
      /\ m_mine = bufs /\ m_firm = {} /\ m_offered = <<>> /\ m_asked = <<>> /\ m_back = <<>>
      /\ m_holds = [b \in bufs |-> Nothing] /\ m_failed = FALSE
  BY DEF Mmal!Init, Mmal!Entry, Mmal!Index, Place
<1>2. Len(<<>>) = 0 /\ DOMAIN <<>> = {} OBVIOUS
<1>3. Announced = 0 /\ Many(m_back) = 0
  <2>1. Dones(m_back, Len(m_back)) = {} /\ Datas(m_back, Len(m_back)) = {} BY <1>1, <1>2 DEF Dones, Datas
  <2> QED BY <2>1, FS_EmptySet DEF Announced, Many
<1>4. \A i \in Place : ~Taken(i) BY <1>1 DEF Taken
<1>5. TableTyped(bufs, depth)
  <2>1. \A S : <<>> \in Seq(S) OBVIOUS
  <2>2. m_table \in [Place -> {Nothing} \cup [buf : bufs, state : {"with", "receiving", "returned"}]] BY <1>1
  <2>3. m_bulk \in [0..depth - 1 -> {Nothing} \cup Place] BY <1>1 DEF Place
  <2>4. m_holds \in [bufs -> {Nothing} \cup bufs] BY <1>1
  <2> QED BY <1>1, <2>1, <2>2, <2>3, <2>4 DEF TableTyped
<1>6. OneEach /\ Lending /\ GivenBack /\ FinishedOnce BY <1>1, <1>2, <1>4 DEF OneEach, Lending, GivenBack, FinishedOnce
<1>7. InQueue(depth) BY <1>1 DEF InQueue
<1>8. Covered(depth) /\ BulksQueued(depth) BY <1>1, <1>2, <1>3 DEF Covered, BulksQueued
<1>9. InStep(depth) /\ InOrder BY <1>1, <1>2, <1>3 DEF InStep, InOrder
<1>10. OwnOnly(bufs) BY <1>1 DEF OwnOnly
<1> QED BY <1>5, <1>6, <1>7, <1>8, <1>9, <1>10, MmalTyped DEF MmalInv

\* What it says of the properties.
LEMMA MmalSays ==
  ASSUME NEW bufs, NEW depth, Sane(bufs, depth), MmalInv(bufs, depth)
  PROVE  /\ Mmal(bufs, depth)!TypeOK /\ Mmal(bufs, depth)!QueueInStep
         /\ Mmal(Lent, Bulks)!HandedBackIsQuiet /\ Mmal(Lent, Bulks)!OwnBytes
<1>0. TableTyped(bufs, depth) BY MmalTyped DEF MmalInv
<1>1. Mmal(bufs, depth)!TypeOK BY DEF MmalInv
<1>2. Mmal(Lent, Bulks)!HandedBackIsQuiet
  <2> SUFFICES ASSUME NEW k \in DOMAIN m_asked PROVE m_asked[k].to \notin m_mine
    BY ListsAssumption DEF Mmal!HandedBackIsQuiet, Mmal!Target
  <2>1. PICK n \in 0..depth - 1 : m_bulk[n] # Nothing /\ m_table[m_bulk[n]].buf = m_asked[k].to BY DEF MmalInv, BulksQueued
  <2>2. m_bulk[n] \in Place /\ In(m_bulk[n], "receiving") BY <1>0, <2>1, Members DEF MmalInv, InQueue
  <2> QED BY <2>1, <2>2 DEF MmalInv, OneEach, In
<1>3. Mmal(Lent, Bulks)!OwnBytes
  <2> SUFFICES ASSUME ~m_failed, NEW i \in Place, m_table[i] # Nothing, m_holds[m_table[i].buf] # Nothing
               PROVE  m_holds[m_table[i].buf] = m_table[i].buf
    BY DEF Mmal!OwnBytes, Mmal!Entry, Place
  <2>1. m_table[i].buf \in bufs
    <3>1. m_table[i] \in Rec(bufs) BY <1>0 DEF TableTyped
    <3> QED BY <3>1 DEF Rec
  <2> QED BY <2>1 DEF MmalInv, OwnOnly
<1>4. Mmal(bufs, depth)!QueueInStep
  <2> SUFFICES ASSUME ~m_failed
               PROVE  /\ Mmal(bufs, depth)!Outstanding = 0..(Len(m_asked) + Mmal(bufs, depth)!Completions - 1)
                      /\ \A k \in DOMAIN m_asked : LET i == m_bulk[Mmal(bufs, depth)!Completions + k - 1]
                                                  IN i # Nothing /\ m_table[i].buf = m_asked[k].to
    BY DEF Mmal!QueueInStep
  <2>1. Mmal(bufs, depth)!Completions = Announced
    <3>1. DOMAIN m_back = 1..Len(m_back) BY <1>0, LenProperties DEF TableTyped
    <3> QED BY <3>1 DEF Mmal!Completions, Announced, Dones, Done, Mmal!Cardinality, Cardinality
  <2>2. Announced \in Nat /\ Len(m_asked) \in Nat BY <1>0, Members
  <2>3. Mmal(bufs, depth)!Outstanding = 0..(Len(m_asked) + Announced - 1)
    <3>1. Mmal(bufs, depth)!Outstanding = {n \in 0..depth - 1 : m_bulk[n] # Nothing} BY DEF Mmal!Outstanding, Mmal!Index
    <3>2. \A n \in 0..depth - 1 : m_bulk[n] # Nothing <=> n < Announced + Len(m_asked) BY DEF MmalInv, InStep
    <3>3. \A n \in 0..(Announced + Len(m_asked)) - 1 : n \in 0..depth - 1 BY DEF MmalInv, Covered
    <3>4. depth \in Nat BY DEF Sane
    <3> QED BY <2>2, <3>1, <3>2, <3>3, <3>4
  <2>4. \A k \in DOMAIN m_asked : LET i == m_bulk[Announced + k - 1] IN i # Nothing /\ m_table[i].buf = m_asked[k].to
    BY DEF MmalInv, InStep
  <2> QED BY <2>1, <2>3, <2>4
<1> QED BY <1>1, <1>2, <1>3, <1>4

-----------------------------------------------------------------------------
(* A film. *)

\* The places of a sequence that hold one of H, and the output buffers in it.
Hits(s, H) == {k \in DOMAIN s : s[k] \in H}
Bufs(s) == {s[k] : k \in DOMAIN s} \ {0}
Once(s) == \A j, k \in DOMAIN s : s[j] = s[k] /\ s[j] # 0 => j = k
\* The buffer a message brings, if it does.
Brings(m) == IF m.kind \in {"back", "done"} THEN m.of ELSE 0
Brought(s) == [k \in DOMAIN s |-> Brings(s[k])]

Outs == DOMAIN Size
Film == [kind : {"back"}, of : Outs \cup {0}] \cup [kind : {"done"}, of : Outs]
        \cup [kind : {"format"}, of : Nat] \cup [kind : {"answer"}, of : {0}]
InputBack == {[kind |-> "back", of |-> 0]}
FilmAnswers == {[kind |-> "answer", of |-> 0]}
Formats == [kind : {"format"}, of : Nat]
HeldBufs(h) == {x.buffer : x \in h}
Away(pool, h) == Outs \ (pool \cup HeldBufs(h))
FilmTyped ==
  /\ f_stream \in Seq(Nat \ {0}) /\ f_fed \in 0..(Len(f_stream) + 1) /\ f_last \in 0..Len(f_stream)
  /\ f_parsed \in 0..f_fed /\ f_decoded \in 0..f_parsed
  /\ f_inputPool \in Nat /\ f_outputPool \subseteq Outs /\ f_firm \subseteq Outs
  /\ f_held \subseteq [buffer : Outs, format : Nat] /\ IsFiniteSet(f_held)
  /\ f_pc \in {"out", "poll", "disable", "drain", "enable"} /\ f_asked \in {"nothing", "disable", "enable"}
  /\ f_inFlight \in Nat /\ f_format \in Nat /\ f_changed \in Nat /\ f_pending \in Nat /\ f_layout \in Nat
  /\ f_outputEnabled \in BOOLEAN /\ f_refused \in BOOLEAN /\ f_late \in BOOLEAN /\ f_paused \in BOOLEAN
  /\ f_fill \in [Outs -> 0..(Len(f_stream) + 1)]
  /\ f_returned \in Seq(Outs \cup {0}) /\ f_bulks \in Seq(Outs) /\ f_ring \in Seq(Film)

\* Every output buffer is in one place at most.
Single(pool, h, firm, back, moving, ring) ==
  /\ pool \cap h = {} /\ firm \cap (pool \cup h) = {}
  /\ Bufs(back) \cap (pool \cup h \cup firm) = {}
  /\ Bufs(moving) \cap (pool \cup h \cup firm \cup Bufs(back)) = {}
  /\ Bufs(ring) \cap (pool \cup h \cup firm \cup Bufs(back) \cup Bufs(moving)) = {}
  /\ Once(back) /\ Once(moving) /\ Once(ring)
OnePlace == /\ Single(f_outputPool, HeldBufs(f_held), f_firm, f_returned, f_bulks, Brought(f_ring))
            /\ \A x, y \in f_held : x.buffer = y.buffer => x = y
\* What a drain waits for, at most and, unless one was cut short, exactly.
FilmCounted == /\ f_inFlight <= Cardinality(Away(f_outputPool, f_held))
               /\ ~f_late => f_inFlight = Cardinality(Away(f_outputPool, f_held))
InputsKept == f_inputPool + (f_fed - f_parsed) + Cardinality(Hits(f_returned, {0}))
                + Cardinality(Hits(f_ring, InputBack)) = Inputs
RoomLeft == f_pc # "out" => Cardinality(f_held) < MayHold
\* Free buffers hold nothing; others frames in the layout told.
Cleared == \A b \in f_outputPool \cup f_firm : f_fill[b] = 0
LayoutTold == ~f_late =>
          /\ \A x \in f_held : f_fill[x.buffer] \in 1..Len(f_stream) /\ x.format = f_stream[f_fill[x.buffer]]
          /\ \A b \in Outs \ HeldBufs(f_held) : f_fill[b] \in 1..Len(f_stream) => f_format = f_stream[f_fill[b]]
\* A request is out, or its answer is on the way, just while one is waited for.
Asking == /\ f_asked # "nothing" => f_asked = f_pc
          /\ Cardinality(Hits(f_ring, FilmAnswers)) = One(f_asked = "nothing" /\ f_pc \in {"disable", "enable"})
\* The firmware pauses over one change of layout at a time, that of the picture to come.
Wanted == f_stream[f_decoded + 1]
Pausing ==
  /\ Cardinality(Hits(f_ring, Formats)) + One(f_pending # 0)
       + One(f_pc \in {"disable", "drain"} \/ (f_pc = "enable" /\ f_asked = "enable")) + One(f_refused) = One(f_paused)
  /\ f_paused \/ f_pc = "enable" => f_decoded < Len(f_stream)
  /\ \A k \in DOMAIN f_ring : f_ring[k].kind = "format" => f_ring[k].of = Wanted
  /\ f_pending # 0 => f_pending = Wanted
  /\ f_pc \in {"disable", "drain", "enable"} => f_changed = Wanted
  /\ f_pc = "enable" /\ f_asked = "nothing" => f_layout = Wanted
  /\ f_pc = "enable" => ~f_refused
  /\ ~f_paused /\ f_pc # "enable" => f_layout = f_format
\* The port is enabled but while the layout changes, and only then are buffers with the firmware.
Enabled == /\ f_outputEnabled <=> f_pc \notin {"drain", "enable"} /\ ~f_refused
           /\ ~f_outputEnabled \/ (f_pc = "disable" /\ f_asked = "nothing") => f_firm = {}
           /\ f_pc = "enable" /\ ~f_late => f_inFlight = 0
TooSmall == f_refused /\ ~f_late => \E b \in Outs : Size[b] < f_changed

VideoInv == /\ FilmTyped /\ OnePlace /\ FilmCounted /\ InputsKept /\ RoomLeft /\ Cleared /\ LayoutTold
            /\ Asking /\ Pausing /\ Enabled /\ TooSmall

\* What a sequence holds once something was appended, or its head is gone.
LEMMA HitsNat == ASSUME NEW s, NEW n \in Nat, DOMAIN s = 1..n, NEW H
                 PROVE  IsFiniteSet(Hits(s, H)) /\ Cardinality(Hits(s, H)) \in Nat
<1>1. IsFiniteSet(1..n) BY FS_Interval
<1>2. IsFiniteSet(Hits(s, H)) BY <1>1, FS_Subset DEF Hits
<1> QED BY <1>2, FS_CardinalityType

LEMMA HitsAppended ==
  ASSUME NEW S, NEW s \in Seq(S), NEW e \in S, NEW H
  PROVE  Cardinality(Hits(Append(s, e), H)) = Cardinality(Hits(s, H)) + One(e \in H)
<1> DEFINE l == Append(s, e)
           n == Len(s)
           f == [p \in 1..(n + 1) |-> l[p] \in H]
<1>1. n \in Nat /\ (\A k \in 1..n : l[k] = s[k]) /\ l[n + 1] = e /\ DOMAIN s = 1..n /\ DOMAIN l = 1..(n + 1) BY Appended
<1> HIDE DEF l, n
<1>2. \A p \in 1..(n + 1) : f[p] <=> l[p] \in H BY Zenon
<1>3. n + 1 \in 1..(n + 1) /\ \A k \in 1..n : k \in 1..(n + 1) BY <1>1
<1> HIDE DEF f
<1>4. Hits(l, H) = Marks(f, n + 1) BY <1>1, <1>2, Zenon DEF Hits, Marks
<1>5. Hits(s, H) = Marks(f, n) BY <1>1, <1>2, <1>3, Zenon DEF Hits, Marks
<1>6. f[n + 1] <=> e \in H BY <1>1, <1>2, <1>3, Zenon
<1> QED BY <1>1, <1>4, <1>5, <1>6, MarksNext DEF One, l

LEMMA HitsTail ==
  ASSUME NEW S, NEW s \in Seq(S), s # <<>>, NEW H
  PROVE  Cardinality(Hits(s, H)) = Cardinality(Hits(Tail(s), H)) + One(Head(s) \in H)
<1> DEFINE l == Tail(s)
           n == Len(l)
           f == [p \in 1..(n + 1) |-> s[p] \in H]
           g == [p \in 1..n |-> l[p] \in H]
<1>1. /\ n \in Nat /\ (\A k \in 1..n : l[k] = s[k + 1]) /\ Head(s) = s[1] /\ DOMAIN s = 1..(n + 1) /\ DOMAIN l = 1..n
  BY Shortened
<1> HIDE DEF l, n
<1>2. \A p \in 1..(n + 1) : f[p] <=> s[p] \in H BY Zenon
<1>3. \A p \in 1..n : g[p] <=> l[p] \in H BY Zenon
<1>4. 1 \in 1..(n + 1) /\ \A k \in 1..n : k + 1 \in 1..(n + 1) BY <1>1
<1> HIDE DEF f, g
<1>5. Hits(s, H) = Marks(f, n + 1) BY <1>1, <1>2, Zenon DEF Hits, Marks
<1>6. Hits(l, H) = Marks(g, n) BY <1>1, <1>3, Zenon DEF Hits, Marks
<1>7. f[1] <=> Head(s) \in H BY <1>1, <1>2, <1>4, Zenon
<1>8. \A p \in 1..n : g[p] <=> f[p + 1] BY <1>1, <1>2, <1>3, <1>4, Zenon
<1> QED BY <1>1, <1>5, <1>6, <1>7, <1>8, MarksShift DEF One, l

LEMMA HitsJoined ==
  ASSUME NEW s, NEW l, NEW n \in Nat, NEW m \in Nat, DOMAIN s = 1..n, DOMAIN l = 1..(n + m), NEW H,
         \A k \in 1..n : l[k] = s[k], \A k \in (n + 1)..(n + m) : l[k] \notin H
  PROVE  Hits(l, H) = Hits(s, H)
BY DEF Hits

\* The same of the buffers in it, given by places.
LEMMA BufsAppended ==
  ASSUME NEW s, NEW l, NEW n \in Nat, DOMAIN s = 1..n, DOMAIN l = 1..(n + 1), \A k \in 1..n : l[k] = s[k],
         Once(s), l[n + 1] \notin Bufs(s)
  PROVE  Bufs(l) = (Bufs(s) \cup {l[n + 1]}) \ {0} /\ Once(l)
<1>1. \A k \in 1..n : k # n + 1 /\ k \in 1..(n + 1) OBVIOUS
<1>2. \A k \in 1..(n + 1) : k \in 1..n \/ k = n + 1 OBVIOUS
<1>3. \A k \in DOMAIN s : s[k] # 0 => s[k] \in Bufs(s) BY DEF Bufs
<1>4. Bufs(l) = (Bufs(s) \cup {l[n + 1]}) \ {0} BY <1>1, <1>2 DEF Bufs
<1>5. Once(l) BY <1>1, <1>2, <1>3 DEF Once
<1> QED BY <1>4, <1>5

LEMMA BufsShortened ==
  ASSUME NEW s, NEW l, NEW n \in Nat, DOMAIN s = 1..(n + 1), DOMAIN l = 1..n, \A k \in 1..n : l[k] = s[k + 1], Once(s)
  PROVE  Bufs(l) = Bufs(s) \ {s[1]} /\ Once(l) /\ (s[1] # 0 => s[1] \in Bufs(s))
<1>1. \A k \in 1..n : k + 1 \in 1..(n + 1) /\ k + 1 # 1 OBVIOUS
<1>2. \A k \in 1..(n + 1) : k # 1 => k - 1 \in 1..n /\ (k - 1) + 1 = k OBVIOUS
<1>3. 1 \in DOMAIN s OBVIOUS
<1>4. Bufs(l) \subseteq Bufs(s) \ {s[1]}
  <2> SUFFICES ASSUME NEW k \in 1..n, l[k] # 0 PROVE l[k] \in Bufs(s) /\ l[k] # s[1] BY DEF Bufs
  <2> QED BY <1>1, <1>3 DEF Bufs, Once
<1>5. Bufs(s) \ {s[1]} \subseteq Bufs(l)
  <2> SUFFICES ASSUME NEW k \in 1..(n + 1), s[k] # 0, s[k] # s[1] PROVE s[k] \in Bufs(l) BY DEF Bufs
  <2>1. k - 1 \in 1..n /\ l[k - 1] = s[k] BY <1>2
  <2> QED BY <2>1 DEF Bufs
<1>6. Once(l)
  <2> SUFFICES ASSUME NEW j \in 1..n, NEW k \in 1..n, l[j] = l[k], l[j] # 0 PROVE j = k BY DEF Once
  <2>1. j + 1 = k + 1 BY <1>1 DEF Once
  <2> QED BY <2>1
<1> QED BY <1>3, <1>4, <1>5, <1>6 DEF Bufs

LEMMA BufsJoined ==
  ASSUME NEW s, NEW l, NEW w, NEW n \in Nat, NEW m \in Nat, DOMAIN s = 1..n, DOMAIN w = 1..m, DOMAIN l = 1..(n + m),
         \A k \in 1..n : l[k] = s[k], \A k \in 1..m : l[n + k] = w[k],
         Once(s), Once(w), Bufs(s) \cap Bufs(w) = {}
  PROVE  Bufs(l) = Bufs(s) \cup Bufs(w) /\ Once(l)
<1>1. \A k \in 1..(n + m) : k \in 1..n \/ (k - n \in 1..m /\ n + (k - n) = k) OBVIOUS
<1>2. \A k \in 1..m : n + k \in 1..(n + m) OBVIOUS
<1>3. \A k \in 1..n : k \in 1..(n + m) OBVIOUS
<1>4. Bufs(l) \subseteq Bufs(s) \cup Bufs(w)
  <2> SUFFICES ASSUME NEW k \in 1..(n + m), l[k] # 0 PROVE l[k] \in Bufs(s) \cup Bufs(w) BY DEF Bufs
  <2>1. CASE k \in 1..n BY <2>1 DEF Bufs
  <2>2. CASE k - n \in 1..m /\ n + (k - n) = k
    <3>1. l[k] = w[k - n] BY <2>2
    <3> QED BY <2>2, <3>1 DEF Bufs
  <2> QED BY <1>1, <2>1, <2>2
<1>5. Bufs(s) \subseteq Bufs(l) BY <1>3 DEF Bufs
<1>6. Bufs(w) \subseteq Bufs(l)
  <2> SUFFICES ASSUME NEW k \in 1..m, w[k] # 0 PROVE w[k] \in Bufs(l) BY DEF Bufs
  <2>1. n + k \in 1..(n + m) /\ l[n + k] = w[k] BY <1>2
  <2> QED BY <2>1 DEF Bufs
<1>7. Once(l)
  <2> SUFFICES ASSUME NEW j \in 1..(n + m), NEW k \in 1..(n + m), l[j] = l[k], l[j] # 0 PROVE j = k BY DEF Once
  <2>1. CASE j \in 1..n /\ k \in 1..n BY <2>1 DEF Once
  <2>2. CASE j \in 1..n /\ k \notin 1..n
    <3>1. k - n \in 1..m /\ l[k] = w[k - n] BY <1>1, <2>2
    <3> QED BY <2>2, <3>1 DEF Bufs
  <2>3. CASE j \notin 1..n /\ k \in 1..n
    <3>1. j - n \in 1..m /\ l[j] = w[j - n] BY <1>1, <2>3
    <3> QED BY <2>3, <3>1 DEF Bufs
  <2>4. CASE j \notin 1..n /\ k \notin 1..n
    <3>1. k - n \in 1..m /\ l[k] = w[k - n] /\ j - n \in 1..m /\ l[j] = w[j - n] BY <1>1, <2>4
    <3>2. j - n = k - n BY <3>1 DEF Once
    <3> QED BY <3>2
  <2> QED BY <2>1, <2>2, <2>3, <2>4
<1> QED BY <1>4, <1>5, <1>6, <1>7

\* Buffers are counted, and so in the instance.
LEMMA Outputs == /\ Outs = 1..Len(Size) /\ Len(Size) \in Nat /\ 0 \notin Outs /\ IsFiniteSet(Outs)
                 /\ \A b \in Outs : Size[b] \in Nat
<1>1. Len(Size) \in Nat /\ Outs = 1..Len(Size) BY VideoAssumption, LenProperties DEF Outs
<1>2. IsFiniteSet(Outs) BY <1>1, FS_Interval
<1>3. \A b \in Outs : Size[b] \in Nat BY VideoAssumption, ElementOfSeq, <1>1
<1> QED BY <1>1, <1>2, <1>3

LEMMA SameCount == \A S : Video!Cardinality(S) = Cardinality(S)
BY DEF Video!Cardinality, Cardinality

\* What is on the ring once a message is written, or taken.
More(s, t, m) == /\ t \in Seq(Film) /\ Once(Brought(t))
                 /\ Bufs(Brought(t)) = (Bufs(Brought(s)) \cup {Brings(m)}) \ {0}
                 /\ \A k \in DOMAIN t : (k \in DOMAIN s /\ t[k] = s[k]) \/ t[k] = m
Less(s, t, m) == /\ t \in Seq(Film) /\ Once(Brought(t)) /\ m \in Film
                 /\ Bufs(Brought(t)) = Bufs(Brought(s)) \ {Brings(m)}
                 /\ Brings(m) # 0 => Brings(m) \in Bufs(Brought(s))
                 /\ \A k \in DOMAIN t : \E j \in DOMAIN s : t[k] = s[j]
                 /\ \E j \in DOMAIN s : m = s[j]
\* t has as many of H as s, and m.
Gains(s, t, m, H) == Cardinality(Hits(t, H)) = Cardinality(Hits(s, H)) + One(m \in H) /\ Cardinality(Hits(s, H)) \in Nat

LEMMA RingGrows ==
  ASSUME NEW s \in Seq(Film), NEW m \in Film, NEW t, t = s \o <<m>>,
         Once(Brought(s)), Brings(m) \notin Bufs(Brought(s))
  PROVE  More(s, t, m)
<1>1. t = Append(s, m) BY AppendIsConcat
<1>2. /\ t \in Seq(Film) /\ Len(s) \in Nat /\ DOMAIN s = 1..Len(s) /\ DOMAIN t = 1..(Len(s) + 1)
      /\ \A k \in 1..Len(s) : t[k] = s[k]
      /\ t[Len(s) + 1] = m
  BY <1>1, Appended
<1>3. /\ DOMAIN Brought(s) = 1..Len(s) /\ DOMAIN Brought(t) = 1..(Len(s) + 1)
      /\ \A k \in 1..Len(s) : Brought(t)[k] = Brought(s)[k]
      /\ Brought(t)[Len(s) + 1] = Brings(m)
  BY <1>2 DEF Brought
<1>4. Bufs(Brought(t)) = (Bufs(Brought(s)) \cup {Brings(m)}) \ {0} /\ Once(Brought(t)) BY <1>2, <1>3, BufsAppended
<1>6. \A k \in DOMAIN t : (k \in DOMAIN s /\ t[k] = s[k]) \/ t[k] = m BY <1>2
<1> QED BY <1>2, <1>4, <1>6 DEF More

LEMMA RingGains ==
  ASSUME NEW s \in Seq(Film), NEW m \in Film, NEW t, t = s \o <<m>>, NEW H
  PROVE  Gains(s, t, m, H)
<1>1. t = Append(s, m) BY AppendIsConcat
<1>2. Len(s) \in Nat /\ DOMAIN s = 1..Len(s) BY LenProperties
<1>3. Cardinality(Hits(Append(s, m), H)) = Cardinality(Hits(s, H)) + One(m \in H) BY HitsAppended
<1>4. Cardinality(Hits(s, H)) \in Nat BY <1>2, HitsNat
<1> QED BY <1>1, <1>3, <1>4 DEF Gains

LEMMA RingShrinks ==
  ASSUME NEW s \in Seq(Film), s # <<>>, NEW t, t = Tail(s), NEW m, m = Head(s), Once(Brought(s))
  PROVE  Less(s, t, m)
<1>1. /\ t \in Seq(Film) /\ Len(s) \in Nat \ {0} /\ DOMAIN s = 1..Len(s) /\ DOMAIN t = 1..(Len(s) - 1)
      /\ \A k \in 1..(Len(s) - 1) : t[k] = s[k + 1]
      /\ m = s[1] /\ m \in Film
  BY Shortened
<1> DEFINE n == Len(s) - 1
<1>2. /\ n \in Nat /\ DOMAIN s = 1..(n + 1) /\ DOMAIN t = 1..n /\ 1 \in 1..(n + 1)
      /\ m = s[1]
      /\ \A k \in 1..n : k + 1 \in 1..(n + 1) /\ t[k] = s[k + 1]
  BY <1>1
<1> HIDE DEF n
<1>3. /\ DOMAIN Brought(s) = 1..(n + 1) /\ DOMAIN Brought(t) = 1..n
      /\ \A k \in 1..n : Brought(t)[k] = Brought(s)[k + 1]
      /\ Brought(s)[1] = Brings(s[1])
  BY <1>2, Zenon DEF Brought
<1>4. /\ Bufs(Brought(t)) = Bufs(Brought(s)) \ {Brings(m)} /\ Once(Brought(t))
      /\ Brings(m) # 0 => Brings(m) \in Bufs(Brought(s))
  BY <1>2, <1>3, BufsShortened
<1>6. \A k \in DOMAIN t : \E j \in DOMAIN s : t[k] = s[j]
  <2>1. \A k \in 1..n : k + 1 \in 1..(n + 1) BY <1>2
  <2> QED BY <1>2, <2>1
<1>7. \E j \in DOMAIN s : m = s[j] BY <1>2, Zenon
<1> QED BY <1>1, <1>4, <1>6, <1>7 DEF Less

LEMMA RingCounts ==
  ASSUME NEW s \in Seq(Film), s # <<>>, NEW t, t = Tail(s), NEW m, m = Head(s), NEW H
  PROVE  Gains(t, s, m, H)
<1>1. Len(t) \in Nat /\ DOMAIN t = 1..Len(t) BY Shortened, LenProperties
<1> QED BY <1>1, HitsTail, HitsNat DEF Gains

\* The same of a queue of buffers.
LEMMA LineGrows ==
  ASSUME NEW S, NEW s \in Seq(S), NEW b \in S, Once(s), b \notin Bufs(s)
  PROVE  /\ Append(s, b) \in Seq(S) /\ Once(Append(s, b)) /\ Bufs(Append(s, b)) = (Bufs(s) \cup {b}) \ {0}
         /\ \A H : Cardinality(Hits(Append(s, b), H)) = Cardinality(Hits(s, H)) + One(b \in H)
         /\ \A H : Cardinality(Hits(s, H)) \in Nat
<1> DEFINE t == Append(s, b)
<1>1. /\ t \in Seq(S) /\ Len(s) \in Nat /\ DOMAIN s = 1..Len(s) /\ DOMAIN t = 1..(Len(s) + 1)
      /\ \A k \in 1..Len(s) : t[k] = s[k]
      /\ t[Len(s) + 1] = b
  BY Appended
<1>2. \A H : Cardinality(Hits(t, H)) = Cardinality(Hits(s, H)) + One(b \in H) BY HitsAppended
<1>3. \A H : Cardinality(Hits(s, H)) \in Nat BY <1>1, HitsNat
<1> HIDE DEF t
<1>4. Bufs(t) = (Bufs(s) \cup {b}) \ {0} /\ Once(t) BY <1>1, BufsAppended
<1> QED BY <1>1, <1>2, <1>3, <1>4 DEF t

LEMMA LineShrinks ==
  ASSUME NEW S, NEW s \in Seq(S), s # <<>>, Once(s)
  PROVE  /\ Tail(s) \in Seq(S) /\ Once(Tail(s)) /\ Bufs(Tail(s)) = Bufs(s) \ {Head(s)} /\ Head(s) \in S
         /\ Head(s) # 0 => Head(s) \in Bufs(s)
         /\ \A H : Cardinality(Hits(s, H)) = Cardinality(Hits(Tail(s), H)) + One(Head(s) \in H)
         /\ \A H : Cardinality(Hits(Tail(s), H)) \in Nat
<1> DEFINE t == Tail(s)
           n == Len(s) - 1
<1>1. /\ t \in Seq(S) /\ n \in Nat /\ DOMAIN s = 1..(n + 1) /\ DOMAIN t = 1..n
      /\ \A k \in 1..n : t[k] = s[k + 1]
      /\ Head(s) = s[1] /\ Head(s) \in S
  BY Shortened
<1>2. \A H : Cardinality(Hits(s, H)) = Cardinality(Hits(t, H)) + One(Head(s) \in H) BY HitsTail
<1>3. \A H : Cardinality(Hits(t, H)) \in Nat BY <1>1, HitsNat
<1> HIDE DEF t, n
<1>4. Bufs(t) = Bufs(s) \ {Head(s)} /\ Once(t) /\ (Head(s) # 0 => Head(s) \in Bufs(s)) BY <1>1, BufsShortened
<1> QED BY <1>1, <1>2, <1>3, <1>4 DEF t


LEMMA Kinds ==
  ASSUME NEW m \in Film
  PROVE  /\ m.kind \in {"back", "done", "format", "answer"}
         /\ m.kind \in {"back", "done"} => m.of \in Outs \cup {0} /\ Brings(m) = m.of
         /\ m.kind = "done" => m.of \in Outs
         /\ m.kind \notin {"back", "done"} => Brings(m) = 0
         /\ m.kind = "format" => m.of \in Nat
         /\ m \in InputBack <=> m.kind = "back" /\ m.of = 0
         /\ m \in FilmAnswers <=> m.kind = "answer"
         /\ m \in Formats <=> m.kind = "format"
<1>1. CASE m \in [kind : {"back"}, of : Outs \cup {0}] BY <1>1 DEF Brings, InputBack, FilmAnswers, Formats
<1>2. CASE m \in [kind : {"done"}, of : Outs] BY <1>2 DEF Brings, InputBack, FilmAnswers, Formats
<1>3. CASE m \in [kind : {"format"}, of : Nat] BY <1>3 DEF Brings, InputBack, FilmAnswers, Formats
<1>4. CASE m \in [kind : {"answer"}, of : {0}] BY <1>4 DEF Brings, InputBack, FilmAnswers, Formats
<1> QED BY <1>1, <1>2, <1>3, <1>4 DEF Film

\* pump: a message is looked at.
LEMMA VideoMessage ==
  ASSUME VideoInv, f_ring # <<>>, NEW m, m = Head(f_ring), Video!OnMessage(m)
  PROVE  /\ m \in Film /\ f_ring' \in Seq(Film) /\ f_returned' \in Seq(Outs \cup {0}) /\ f_bulks' \in Seq(Outs)
         /\ Single(f_outputPool, HeldBufs(f_held), f_firm, f_returned', f_bulks', Brought(f_ring'))
         /\ Cardinality(Hits(f_returned', {0})) + Cardinality(Hits(f_ring', InputBack))
              = Cardinality(Hits(f_returned, {0})) + Cardinality(Hits(f_ring, InputBack))
         /\ Cardinality(Hits(f_ring, FilmAnswers)) = Cardinality(Hits(f_ring', FilmAnswers)) + One(m.kind = "answer")
         /\ Cardinality(Hits(f_ring, Formats)) = Cardinality(Hits(f_ring', Formats)) + One(m.kind = "format")
         /\ Cardinality(Hits(f_ring', FilmAnswers)) \in Nat /\ Cardinality(Hits(f_ring', Formats)) \in Nat
         /\ f_pending' = IF m.kind = "format" THEN Wanted ELSE f_pending
         /\ f_pending' \in Nat
         /\ \A k \in DOMAIN f_ring' : f_ring'[k].kind = "format" => f_ring'[k].of = Wanted
         /\ f_asked' = f_asked
<1> DEFINE x == Brings(m)
           P == f_outputPool
           H == HeldBufs(f_held)
           F == f_firm
           R == Bufs(f_returned)
           B == Bufs(f_bulks)
           M == Bufs(Brought(f_ring))
<1>1. /\ f_ring' = Tail(f_ring) /\ f_asked' = f_asked
      /\ f_returned' = (IF m.kind = "done" \/ (m.kind = "back" /\ ~(m.of # 0 /\ f_fill[m.of] # 0))
                          THEN Append(f_returned, m.of) ELSE f_returned)
      /\ f_bulks' = (IF m.kind = "back" /\ m.of # 0 /\ f_fill[m.of] # 0 THEN Append(f_bulks, m.of) ELSE f_bulks)
      /\ f_pending' = (IF m.kind = "format" THEN m.of ELSE f_pending)
  BY DEF Video!OnMessage, Video!Holding, Video!Input
<1>2. /\ f_ring \in Seq(Film) /\ f_returned \in Seq(Outs \cup {0}) /\ f_bulks \in Seq(Outs) /\ f_pending \in Nat
  BY DEF VideoInv, FilmTyped
<1>3. /\ Once(f_returned) /\ Once(f_bulks) /\ Once(Brought(f_ring))
      /\ P \cap H = {} /\ F \cap (P \cup H) = {} /\ R \cap (P \cup H \cup F) = {}
      /\ B \cap (P \cup H \cup F \cup R) = {} /\ M \cap (P \cup H \cup F \cup R \cup B) = {}
  BY DEF VideoInv, OnePlace, Single
<1>4. /\ f_ring' \in Seq(Film) /\ Once(Brought(f_ring')) /\ m \in Film
      /\ Bufs(Brought(f_ring')) = M \ {x} /\ (x # 0 => x \in M)
      /\ \A k \in DOMAIN f_ring' : \E j \in DOMAIN f_ring : f_ring'[k] = f_ring[j]
      /\ \E j \in DOMAIN f_ring : m = f_ring[j]
  <2>1. f_ring \in Seq(Film) /\ f_ring # <<>> /\ f_ring' = Tail(f_ring) /\ m = Head(f_ring) /\ Once(Brought(f_ring))
    BY <1>1, <1>2, <1>3
  <2>2. Less(f_ring, f_ring', m) BY <2>1, RingShrinks
  <2> QED BY <2>2 DEF Less
<1>5. ASSUME NEW K
      PROVE  /\ Cardinality(Hits(f_ring, K)) = Cardinality(Hits(f_ring', K)) + One(m \in K)
             /\ Cardinality(Hits(f_ring', K)) \in Nat
  <2>1. f_ring \in Seq(Film) /\ f_ring # <<>> /\ f_ring' = Tail(f_ring) /\ m = Head(f_ring) BY <1>1, <1>2
  <2>2. Gains(f_ring', f_ring, m, K) BY <2>1, RingCounts
  <2> QED BY <2>2 DEF Gains
<1>6. 0 \notin R /\ 0 \notin B /\ 0 \notin M BY DEF Bufs
<1>7. /\ Cardinality(Hits(f_ring, FilmAnswers)) = Cardinality(Hits(f_ring', FilmAnswers)) + One(m.kind = "answer")
      /\ Cardinality(Hits(f_ring, Formats)) = Cardinality(Hits(f_ring', Formats)) + One(m.kind = "format")
      /\ Cardinality(Hits(f_ring, InputBack)) = Cardinality(Hits(f_ring', InputBack)) + One(m.kind = "back" /\ m.of = 0)
      /\ Cardinality(Hits(f_ring', FilmAnswers)) \in Nat /\ Cardinality(Hits(f_ring', Formats)) \in Nat
      /\ Cardinality(Hits(f_ring', InputBack)) \in Nat
  <2>1. /\ One(m \in FilmAnswers) = One(m.kind = "answer") /\ One(m \in Formats) = One(m.kind = "format")
        /\ One(m \in InputBack) = One(m.kind = "back" /\ m.of = 0)
    <3>1. /\ m \in FilmAnswers <=> m.kind = "answer"
          /\ m \in Formats <=> m.kind = "format"
          /\ m \in InputBack <=> m.kind = "back" /\ m.of = 0
      BY <1>4, Kinds
    <3> QED BY <3>1 DEF One
  <2> QED BY <1>5, <2>1
<1>8. /\ \A k \in DOMAIN f_ring' : f_ring'[k].kind = "format" => f_ring'[k].of = Wanted
      /\ m.kind = "format" => m.of = Wanted
  <2>1. \A k \in DOMAIN f_ring : f_ring[k].kind = "format" => f_ring[k].of = Wanted BY DEF VideoInv, Pausing
  <2> HIDE DEF Wanted
  <2> QED BY <1>4, <2>1, Zenon
<1>9. f_pending' \in Nat /\ f_pending' = IF m.kind = "format" THEN Wanted ELSE f_pending BY <1>1, <1>2, <1>4, <1>8, Kinds
<1> HIDE DEF P, H, F, R, B, M
<1>10. CASE m.kind = "done" \/ (m.kind = "back" /\ ~(m.of # 0 /\ f_fill[m.of] # 0))
  <2>1. m.of = x /\ x \in Outs \cup {0} /\ x \notin R /\ (m.kind = "done" => x # 0)
    BY <1>3, <1>4, <1>6, <1>10, Kinds, Outputs
  <2>2. f_returned' = Append(f_returned, x) /\ f_bulks' = f_bulks BY <1>1, <1>10, <2>1
  <2> HIDE DEF x
  <2>3. /\ f_returned' \in Seq(Outs \cup {0}) /\ Once(f_returned') /\ Bufs(f_returned') = (R \cup {x}) \ {0}
        /\ Cardinality(Hits(f_returned', {0})) = Cardinality(Hits(f_returned, {0})) + One(x \in {0})
        /\ Cardinality(Hits(f_returned, {0})) \in Nat
    BY <1>2, <1>3, <2>1, <2>2, LineGrows DEF R
  <2>4. Single(P, H, F, f_returned', f_bulks', Brought(f_ring'))
    <3>1. Bufs(f_bulks') = B BY <2>2 DEF B
    <3> QED BY <1>3, <1>4, <1>6, <2>2, <2>3, <3>1 DEF Single
  <2>5. Cardinality(Hits(f_returned', {0})) + Cardinality(Hits(f_ring', InputBack))
              = Cardinality(Hits(f_returned, {0})) + Cardinality(Hits(f_ring, InputBack))
    <3>1. One(x \in {0}) = One(m.kind = "back" /\ m.of = 0) BY <1>10, <2>1 DEF One
    <3>2. One(x \in {0}) \in Nat BY DEF One
    <3> QED BY <1>7, <2>3, <3>1, <3>2
  <2> QED BY <1>1, <1>2, <1>4, <1>7, <1>8, <1>9, <2>2, <2>3, <2>4, <2>5 DEF P, H, F
<1>11. CASE m.kind = "back" /\ m.of # 0 /\ f_fill[m.of] # 0
  <2>1. m.of = x /\ x \in Outs /\ x \notin B /\ x # 0 BY <1>3, <1>4, <1>6, <1>11, Kinds, Outputs
  <2>2. f_returned' = f_returned /\ f_bulks' = Append(f_bulks, x) BY <1>1, <1>11, <2>1
  <2> HIDE DEF x
  <2>3. f_bulks' \in Seq(Outs) /\ Once(f_bulks') /\ Bufs(f_bulks') = (B \cup {x}) \ {0}
    BY <1>2, <1>3, <2>1, <2>2, LineGrows DEF B
  <2>4. Single(P, H, F, f_returned', f_bulks', Brought(f_ring'))
    <3>1. Bufs(f_returned') = R BY <2>2 DEF R
    <3> QED BY <1>3, <1>4, <1>6, <2>2, <2>3, <3>1 DEF Single
  <2>5. Cardinality(Hits(f_returned', {0})) + Cardinality(Hits(f_ring', InputBack))
              = Cardinality(Hits(f_returned, {0})) + Cardinality(Hits(f_ring, InputBack))
    <3>1. One(m.kind = "back" /\ m.of = 0) = 0 BY <1>11 DEF One
    <3> QED BY <1>7, <2>2, <3>1
  <2> QED BY <1>1, <1>2, <1>4, <1>7, <1>8, <1>9, <2>2, <2>3, <2>4, <2>5 DEF P, H, F
<1>12. CASE m.kind \notin {"back", "done"}
  <2>1. x = 0 BY <1>4, <1>12, Kinds
  <2>2. f_returned' = f_returned /\ f_bulks' = f_bulks BY <1>1, <1>12
  <2> HIDE DEF x
  <2>4. Single(P, H, F, f_returned', f_bulks', Brought(f_ring'))
    <3>1. Bufs(f_returned') = R /\ Bufs(f_bulks') = B BY <2>2 DEF R, B
    <3> QED BY <1>3, <1>4, <2>2, <3>1 DEF Single
  <2>5. Cardinality(Hits(f_returned', {0})) + Cardinality(Hits(f_ring', InputBack))
              = Cardinality(Hits(f_returned, {0})) + Cardinality(Hits(f_ring, InputBack))
    <3>1. One(m.kind = "back" /\ m.of = 0) = 0 BY <1>12 DEF One
    <3> QED BY <1>7, <2>2, <3>1
  <2> QED BY <1>1, <1>2, <1>4, <1>7, <1>8, <1>9, <2>2, <2>4, <2>5 DEF P, H, F
<1> QED BY <1>4, <1>10, <1>11, <1>12, Kinds

\* What is away once free buffers, P, are handed over.
LEMMA Handed ==
  ASSUME NEW P, P \subseteq Outs, NEW H, P \cap H = {}, NEW n \in Nat, n <= Cardinality(Outs \ (P \cup H))
  PROVE  /\ Cardinality(P) \in Nat /\ n + Cardinality(P) <= Cardinality(Outs \ ({} \cup H))
         /\ n = Cardinality(Outs \ (P \cup H)) => n + Cardinality(P) = Cardinality(Outs \ ({} \cup H))
<1> DEFINE A == Outs \ (P \cup H)
<1>1. IsFiniteSet(P) /\ IsFiniteSet(A) BY Outputs, FS_Subset
<1>2. Cardinality(P) \in Nat /\ Cardinality(A) \in Nat BY <1>1, FS_CardinalityType
<1>3. A \cap P = {} /\ Outs \ ({} \cup H) = A \cup P OBVIOUS
<1>4. Cardinality(A \cup P) = Cardinality(A) + Cardinality(P) - Cardinality(A \cap P) BY <1>1, FS_Union
<1>5. Cardinality(A \cap P) = 0 BY <1>3, FS_EmptySet
<1>6. n <= Cardinality(A) OBVIOUS
<1>7. Cardinality(A \cup P) = Cardinality(Outs \ ({} \cup H)) BY <1>3
<1> DEFINE a == Cardinality(A)
           p == Cardinality(P)
           u == Cardinality(A \cup P)
           z == Cardinality(A \cap P)
<1>8. u = a + p - z /\ z = 0 /\ n <= a /\ a \in Nat /\ p \in Nat BY <1>2, <1>4, <1>5, <1>6
<1> HIDE DEF a, p, u, z
<1>9. n + p <= u /\ (n = a => n + p = u) BY <1>8
<1> QED BY <1>2, <1>7, <1>9 DEF a, p, u

\* One fewer is away.
LEMMA Landed ==
  ASSUME NEW A, A \subseteq Outs, NEW b \in A, NEW n \in Nat, n <= Cardinality(A), NEW k,
         k = IF n = 0 THEN 0 ELSE n - 1
  PROVE  k \in Nat /\ k <= Cardinality(A \ {b}) /\ (n = Cardinality(A) => k = Cardinality(A \ {b}))
<1>1. IsFiniteSet(A) BY Outputs, FS_Subset
<1>2. Cardinality(A \ {b}) = Cardinality(A) - 1 BY <1>1, FS_RemoveElement
<1>3. Cardinality(A) \in Nat /\ Cardinality(A \ {b}) \in Nat
  <2>1. IsFiniteSet(A \ {b}) BY <1>1, FS_RemoveElement
  <2> QED BY <1>1, <2>1, FS_CardinalityType
<1> DEFINE a == Cardinality(A)
           c == Cardinality(A \ {b})
<1>4. c = a - 1 /\ a \in Nat /\ c \in Nat /\ n <= a BY <1>2, <1>3
<1> HIDE DEF a, c
<1>5. k \in Nat /\ k <= c /\ (n = a => k = c) BY <1>4
<1> QED BY <1>5 DEF a, c

LEMMA VideoCaller ==
  ASSUME VideoInv, Video!Feed \/ Video!Poll
  PROVE  VideoInv'
<1>1. /\ UNCHANGED <<f_stream, f_last, f_outputPool, f_held, f_outputEnabled, f_inFlight, f_format, f_changed, f_refused, f_late,
                     f_returned, f_pending, f_ring, f_bulks, f_asked, f_layout, f_paused, f_parsed, f_decoded, f_firm, f_fill>>
      /\ \/ /\ f_pc' = f_pc /\ f_inputPool > 0 /\ f_fed < Len(f_stream) + 1
            /\ f_inputPool' = f_inputPool - 1 /\ f_fed' = f_fed + 1
         \/ /\ f_pc = "out" /\ f_pc' = "poll" /\ f_inputPool' = f_inputPool /\ f_fed' = f_fed
            /\ Cardinality(f_held) < MayHold
  BY SameCount DEF Video!Feed, Video!Poll, Video!caller, Video!pools, Video!decoder, Video!mmal, Video!wire, Video!firmware, Video!End
<1>2. FilmTyped BY DEF VideoInv
<1>3. /\ f_fed' \in 0..(Len(f_stream) + 1) /\ f_parsed \in 0..f_fed' /\ f_inputPool' \in Nat
      /\ f_inputPool' + (f_fed' - f_parsed) = f_inputPool + (f_fed - f_parsed)
  <2>1. f_fed \in Nat /\ f_parsed \in Nat /\ f_parsed <= f_fed /\ Len(f_stream) \in Nat /\ f_fed <= Len(f_stream) + 1
        /\ f_inputPool \in Nat
    BY <1>2, LenProperties DEF FilmTyped
  <2> QED BY <1>1, <2>1
<1>4. FilmTyped' BY <1>1, <1>2, <1>3 DEF FilmTyped
<1>5. OnePlace' /\ FilmCounted' /\ Cleared' /\ LayoutTold' /\ TooSmall'
  BY <1>1 DEF VideoInv, OnePlace, FilmCounted, Cleared, LayoutTold, TooSmall
<1>6. InputsKept'
  <2>1. f_returned' = f_returned /\ f_ring' = f_ring /\ f_parsed' = f_parsed BY <1>1
  <2> QED BY <1>3, <2>1 DEF VideoInv, InputsKept
<1>7. RoomLeft' BY <1>1 DEF VideoInv, RoomLeft
<1>8. Asking'
  <2>1. One(f_asked' = "nothing" /\ f_pc' \in {"disable", "enable"}) = One(f_asked = "nothing" /\ f_pc \in {"disable", "enable"})
    BY <1>1 DEF One
  <2>2. f_asked \in {"nothing", "disable", "enable"} BY <1>2 DEF FilmTyped
  <2>3. f_asked # "nothing" => f_asked = f_pc BY DEF VideoInv, Asking
  <2>4. f_asked' # "nothing" => f_asked' = f_pc' BY <1>1, <2>2, <2>3
  <2> QED BY <1>1, <2>1, <2>4 DEF VideoInv, Asking
<1>9. Enabled' BY <1>1 DEF VideoInv, Enabled
<1>10. Pausing'
  <2>1. One(f_pc' \in {"disable", "drain"} \/ (f_pc' = "enable" /\ f_asked' = "enable"))
          = One(f_pc \in {"disable", "drain"} \/ (f_pc = "enable" /\ f_asked = "enable"))
    BY <1>1 DEF One
  <2>2. f_pc' = f_pc \/ (f_pc = "out" /\ f_pc' = "poll") BY <1>1
  <2>3. Wanted' = Wanted BY <1>1 DEF Wanted
  <2> QED BY <1>1, <2>1, <2>2, <2>3 DEF VideoInv, Pausing
<1> QED BY <1>4, <1>5, <1>6, <1>7, <1>8, <1>9, <1>10 DEF VideoInv

\* The firmware parses, or announces a layout: one message more.
LEMMA VideoWrites ==
  ASSUME VideoInv, Video!Parse \/ Video!Announce
  PROVE  VideoInv'
<1> DEFINE m == IF f_parsed' = f_parsed THEN [kind |-> "format", of |-> Wanted] ELSE [kind |-> "back", of |-> 0]
<1>0. FilmTyped BY DEF VideoInv
<1>1. /\ UNCHANGED <<f_stream, f_fed, f_last, f_inputPool, f_outputPool, f_held, f_pc, f_outputEnabled, f_inFlight, f_format,
                     f_changed, f_refused, f_late, f_returned, f_pending, f_bulks, f_asked, f_layout, f_decoded, f_firm, f_fill>>
      /\ \/ /\ f_parsed < f_fed /\ f_parsed' = f_parsed + 1 /\ f_paused' = f_paused
            /\ f_ring' = f_ring \o <<[kind |-> "back", of |-> 0]>>
         \/ /\ f_parsed' = f_parsed /\ ~f_paused /\ f_paused' = TRUE /\ f_decoded < f_parsed
            /\ f_decoded + 1 # Len(f_stream) + 1 /\ Wanted # f_layout
            /\ f_ring' = f_ring \o <<[kind |-> "format", of |-> Wanted]>>
  BY DEF Video!Parse, Video!Announce, Video!caller, Video!pools, Video!decoder, Video!mmal, Video!End, Video!CanDecode,
         Video!Coming, Video!Says, Video!Message, Video!Input, Wanted
<1>2. /\ f_fed \in Nat /\ f_parsed \in Nat /\ f_parsed <= f_fed /\ Len(f_stream) \in Nat /\ f_fed <= Len(f_stream) + 1
      /\ f_inputPool \in Nat /\ f_ring \in Seq(Film) /\ f_decoded \in Nat /\ f_decoded <= f_parsed
      /\ f_returned \in Seq(Outs \cup {0})
  BY <1>0, LenProperties DEF FilmTyped
<1>3. f_parsed' # f_parsed => f_parsed' = f_parsed + 1 BY <1>1
<1>4. f_ring' = f_ring \o <<m>> /\ m \in Film /\ Brings(m) = 0
  <2>1. CASE f_parsed' = f_parsed
    <3>0. f_parsed' # f_parsed + 1 BY <1>2, <2>1
    <3>a. m = [kind |-> "format", of |-> Wanted] BY <2>1
    <3>1. f_ring' = f_ring \o <<m>> /\ m = [kind |-> "format", of |-> Wanted] BY <1>1, <3>0, <3>a, Zenon
    <3>2. Wanted \in Nat
      <4>1. f_decoded + 1 \in 1..Len(f_stream) BY <1>1, <1>2, <2>1
      <4> QED BY <1>0, <4>1, ElementOfSeq DEF FilmTyped, Wanted
    <3> QED BY <3>1, <3>2 DEF Film, Brings
  <2>2. CASE f_parsed' # f_parsed
    <3>1. f_ring' = f_ring \o <<m>> /\ m = [kind |-> "back", of |-> 0] BY <1>1, <1>2, <2>2
    <3> QED BY <3>1 DEF Film, Brings
  <2> QED BY <2>1, <2>2
<1>5. m.kind = (IF f_parsed' = f_parsed THEN "format" ELSE "back") /\ m.of = (IF f_parsed' = f_parsed THEN Wanted ELSE 0) OBVIOUS
<1> HIDE DEF m
<1>6. Once(Brought(f_ring)) /\ 0 \notin Bufs(Brought(f_ring)) BY DEF VideoInv, OnePlace, Single, Bufs
<1>7. More(f_ring, f_ring', m) BY <1>2, <1>4, <1>6, RingGrows
<1>8. /\ f_ring' \in Seq(Film) /\ Once(Brought(f_ring')) /\ Bufs(Brought(f_ring')) = Bufs(Brought(f_ring))
      /\ \A k \in DOMAIN f_ring' : (k \in DOMAIN f_ring /\ f_ring'[k] = f_ring[k]) \/ f_ring'[k] = m
  BY <1>4, <1>6, <1>7 DEF More
<1>9. Gains(f_ring, f_ring', m, FilmAnswers) /\ Gains(f_ring, f_ring', m, Formats) /\ Gains(f_ring, f_ring', m, InputBack)
  BY <1>2, <1>4, RingGains
<1>10. /\ Cardinality(Hits(f_ring', FilmAnswers)) = Cardinality(Hits(f_ring, FilmAnswers))
       /\ Cardinality(Hits(f_ring', Formats)) = Cardinality(Hits(f_ring, Formats)) + One(f_parsed' = f_parsed)
       /\ Cardinality(Hits(f_ring', InputBack)) = Cardinality(Hits(f_ring, InputBack)) + One(f_parsed' # f_parsed)
       /\ Cardinality(Hits(f_ring, Formats)) \in Nat /\ Cardinality(Hits(f_ring, InputBack)) \in Nat
       /\ Cardinality(Hits(f_ring, FilmAnswers)) \in Nat
  <2>1. /\ m \notin FilmAnswers /\ (m \in Formats <=> f_parsed' = f_parsed) /\ (m \in InputBack <=> f_parsed' # f_parsed)
    BY <1>4, <1>5, Kinds
  <2>2. /\ One(m \in FilmAnswers) = 0 /\ One(m \in Formats) = One(f_parsed' = f_parsed)
        /\ One(m \in InputBack) = One(f_parsed' # f_parsed)
    BY <2>1 DEF One
  <2> QED BY <1>9, <2>2 DEF Gains
<1>11. FilmTyped'
  <2>1. f_parsed' \in 0..f_fed /\ f_decoded \in 0..f_parsed' BY <1>1, <1>2
  <2>2. f_paused' \in BOOLEAN BY <1>0, <1>1 DEF FilmTyped
  <2> QED BY <1>0, <1>1, <1>8, <2>1, <2>2 DEF FilmTyped
<1>12. OnePlace' BY <1>1, <1>8 DEF VideoInv, OnePlace, Single
<1>13. FilmCounted' /\ RoomLeft' /\ Cleared' /\ LayoutTold' /\ TooSmall' /\ Enabled'
  BY <1>1 DEF VideoInv, FilmCounted, RoomLeft, Cleared, LayoutTold, TooSmall, Enabled
<1>14. Asking' BY <1>1, <1>10 DEF VideoInv, Asking
<1>15. InputsKept'
  <2> DEFINE a == Cardinality(Hits(f_returned, {0}))
             b == Cardinality(Hits(f_ring, InputBack))
             c == Cardinality(Hits(f_ring', InputBack))
  <2>1. a \in Nat
    <3>1. Len(f_returned) \in Nat /\ DOMAIN f_returned = 1..Len(f_returned) BY <1>2, LenProperties
    <3> QED BY <3>1, HitsNat
  <2>2. c = b + One(f_parsed' # f_parsed) /\ b \in Nat BY <1>10
  <2>3. f_inputPool + (f_fed - f_parsed) + a + b = Inputs BY DEF VideoInv, InputsKept
  <2> HIDE DEF a, b, c
  <2>4. f_inputPool + (f_fed - f_parsed') + a + c = Inputs
    <3>1. CASE f_parsed' = f_parsed
      <4>1. c = b BY <2>2, <3>1 DEF One
      <4> QED BY <2>3, <3>1, <4>1
    <3>2. CASE f_parsed' # f_parsed
      <4>1. c = b + 1 /\ f_parsed' = f_parsed + 1 BY <1>3, <2>2, <3>2 DEF One
      <4> QED BY <1>2, <2>1, <2>2, <2>3, <4>1
    <3> QED BY <3>1, <3>2
  <2> QED BY <1>1, <2>4 DEF InputsKept, a, c
<1>16. Pausing'
  <2>1. Wanted' = Wanted BY <1>1 DEF Wanted
  <2>2. CASE f_parsed' # f_parsed
    <3>1. f_paused' = f_paused /\ Cardinality(Hits(f_ring', Formats)) = Cardinality(Hits(f_ring, Formats))
      BY <1>1, <1>2, <1>10, <2>2 DEF One
    <3>2. \A k \in DOMAIN f_ring' : f_ring'[k].kind = "format" => f_ring'[k].of = Wanted
      BY <1>5, <1>8, <2>2 DEF VideoInv, Pausing
    <3> QED BY <1>1, <2>1, <3>1, <3>2 DEF VideoInv, Pausing
  <2>3. CASE f_parsed' = f_parsed
    <3>1. /\ ~f_paused /\ f_paused' = TRUE /\ f_decoded < Len(f_stream) /\ Wanted # f_layout
          /\ Cardinality(Hits(f_ring', Formats)) = Cardinality(Hits(f_ring, Formats)) + 1
      BY <1>1, <1>2, <1>10, <2>3 DEF One
    <3>2. \A k \in DOMAIN f_ring' : f_ring'[k].kind = "format" => f_ring'[k].of = Wanted
      BY <1>5, <1>8, <2>3 DEF VideoInv, Pausing
    <3>3. /\ Cardinality(Hits(f_ring', Formats)) + One(f_pending # 0)
               + One(f_pc \in {"disable", "drain"} \/ (f_pc = "enable" /\ f_asked = "enable")) + One(f_refused) = 1
          /\ f_pc \notin {"disable", "drain"} /\ ~(f_pc = "enable" /\ f_asked = "enable")
      <4> DEFINE h == Cardinality(Hits(f_ring, Formats))
                 i == Cardinality(Hits(f_ring', Formats))
                 x == One(f_pending # 0)
                 y == One(f_pc \in {"disable", "drain"} \/ (f_pc = "enable" /\ f_asked = "enable"))
                 z == One(f_refused)
      <4>1. h + x + y + z = One(f_paused) BY DEF VideoInv, Pausing
      <4>2. One(f_paused) = 0 /\ i = h + 1 /\ h \in Nat BY <1>10, <3>1 DEF One
      <4>3. x \in {0, 1} /\ y \in {0, 1} /\ z \in {0, 1} BY DEF One
      <4>4. y = 0 => f_pc \notin {"disable", "drain"} /\ ~(f_pc = "enable" /\ f_asked = "enable") BY DEF One
      <4> HIDE DEF h, i, x, y, z
      <4>5. i + x + y + z = 1 /\ y = 0 BY <4>1, <4>2, <4>3
      <4> QED BY <4>4, <4>5 DEF i, x, y, z
    <3>4. f_pc # "enable"
      <4>1. f_pc = "enable" /\ f_asked = "nothing" => f_layout = Wanted BY DEF VideoInv, Pausing
      <4>2. f_asked # "nothing" => f_asked = f_pc BY DEF VideoInv, Asking
      <4> QED BY <3>1, <3>3, <4>1, <4>2
    <3>5. f_pending # 0 => f_pending = Wanted BY DEF VideoInv, Pausing
    <3>6. One(f_paused') = 1 BY <3>1 DEF One
    <3> QED BY <1>1, <2>1, <3>1, <3>2, <3>3, <3>4, <3>5, <3>6 DEF Pausing
  <2> QED BY <2>2, <2>3
<1> QED BY <1>11, <1>12, <1>13, <1>14, <1>15, <1>16 DEF VideoInv

\* A message about an output buffer: the three counts of the ring are as they were.
LEMMA RingBuffer ==
  ASSUME VideoInv, NEW b \in Outs, NEW m, m.kind \in {"back", "done"}, m.of = b, m \in Film,
         f_ring' = f_ring \o <<m>>, b \notin Bufs(Brought(f_ring))
  PROVE  /\ f_ring' \in Seq(Film) /\ Once(Brought(f_ring')) /\ Bufs(Brought(f_ring')) = Bufs(Brought(f_ring)) \cup {b}
         /\ Cardinality(Hits(f_ring', FilmAnswers)) = Cardinality(Hits(f_ring, FilmAnswers))
         /\ Cardinality(Hits(f_ring', Formats)) = Cardinality(Hits(f_ring, Formats))
         /\ Cardinality(Hits(f_ring', InputBack)) = Cardinality(Hits(f_ring, InputBack))
         /\ \A k \in DOMAIN f_ring' : f_ring'[k].kind = "format" => f_ring'[k].of = Wanted
<1>1. f_ring \in Seq(Film) /\ Once(Brought(f_ring)) BY DEF VideoInv, FilmTyped, OnePlace, Single
<1>2. Brings(m) = b /\ b # 0 /\ m \notin FilmAnswers /\ m \notin Formats /\ m \notin InputBack
  BY Kinds, Outputs DEF Brings
<1>3. More(f_ring, f_ring', m) BY <1>1, <1>2, RingGrows
<1>4. /\ f_ring' \in Seq(Film) /\ Once(Brought(f_ring')) /\ Bufs(Brought(f_ring')) = (Bufs(Brought(f_ring)) \cup {b}) \ {0}
      /\ \A k \in DOMAIN f_ring' : (k \in DOMAIN f_ring /\ f_ring'[k] = f_ring[k]) \/ f_ring'[k] = m
  BY <1>2, <1>3 DEF More
<1>5. Bufs(Brought(f_ring')) = Bufs(Brought(f_ring)) \cup {b}
  <2>1. 0 \notin Bufs(Brought(f_ring)) BY DEF Bufs
  <2> QED BY <1>2, <1>4, <2>1
<1>6. Gains(f_ring, f_ring', m, FilmAnswers) /\ Gains(f_ring, f_ring', m, Formats) /\ Gains(f_ring, f_ring', m, InputBack)
  BY <1>1, RingGains
<1>7. One(m \in FilmAnswers) = 0 /\ One(m \in Formats) = 0 /\ One(m \in InputBack) = 0 BY <1>2 DEF One
<1>8. /\ Cardinality(Hits(f_ring', FilmAnswers)) = Cardinality(Hits(f_ring, FilmAnswers))
      /\ Cardinality(Hits(f_ring', Formats)) = Cardinality(Hits(f_ring, Formats))
      /\ Cardinality(Hits(f_ring', InputBack)) = Cardinality(Hits(f_ring, InputBack))
  BY <1>6, <1>7 DEF Gains
<1>9. \A k \in DOMAIN f_ring' : f_ring'[k].kind = "format" => f_ring'[k].of = Wanted
  <2>1. \A k \in DOMAIN f_ring : f_ring[k].kind = "format" => f_ring[k].of = Wanted BY DEF VideoInv, Pausing
  <2> QED BY <1>4, <2>1
<1> QED BY <1>4, <1>5, <1>8, <1>9

LEMMA VideoMove ==
  ASSUME VideoInv, Video!Move
  PROVE  VideoInv'
<1> DEFINE b == Head(f_bulks)
           m == [kind |-> "done", of |-> b]
<1>0. FilmTyped BY DEF VideoInv
<1>1. /\ UNCHANGED <<f_stream, f_fed, f_last, f_inputPool, f_outputPool, f_held, f_pc, f_outputEnabled, f_inFlight, f_format,
                     f_changed, f_refused, f_late, f_returned, f_pending, f_asked, f_layout, f_decoded, f_firm, f_fill,
                     f_paused, f_parsed>>
      /\ f_bulks # <<>> /\ f_bulks' = Tail(f_bulks) /\ f_ring' = f_ring \o <<m>>
  BY DEF Video!Move, Video!caller, Video!pools, Video!decoder, Video!mmal, Video!firmware, Video!Says, Video!Message
<1>2. /\ Once(f_returned) /\ Once(f_bulks) /\ Once(Brought(f_ring)) /\ f_bulks \in Seq(Outs)
      /\ Bufs(f_bulks) \cap (f_outputPool \cup HeldBufs(f_held) \cup f_firm \cup Bufs(f_returned)) = {}
      /\ Bufs(Brought(f_ring))
           \cap (f_outputPool \cup HeldBufs(f_held) \cup f_firm \cup Bufs(f_returned) \cup Bufs(f_bulks)) = {}
  BY DEF VideoInv, FilmTyped, OnePlace, Single
<1>3. /\ f_bulks' \in Seq(Outs) /\ Once(f_bulks') /\ Bufs(f_bulks') = Bufs(f_bulks) \ {b} /\ b \in Outs
      /\ b # 0 /\ b \in Bufs(f_bulks)
  <2>1. f_bulks # <<>> /\ f_bulks \in Seq(Outs) /\ Once(f_bulks) /\ f_bulks' = Tail(f_bulks) BY <1>1, <1>2
  <2>2. /\ Tail(f_bulks) \in Seq(Outs) /\ Once(Tail(f_bulks)) /\ Bufs(Tail(f_bulks)) = Bufs(f_bulks) \ {b} /\ b \in Outs
        /\ b # 0 => b \in Bufs(f_bulks)
    BY <2>1, LineShrinks
  <2>3. b # 0 BY <2>2, Outputs
  <2> QED BY <2>1, <2>2, <2>3
<1>4. m.kind \in {"back", "done"} /\ m.of = b /\ m \in Film BY <1>3 DEF Film
<1> HIDE DEF m, b
<1>5. /\ f_ring' \in Seq(Film) /\ Once(Brought(f_ring')) /\ Bufs(Brought(f_ring')) = Bufs(Brought(f_ring)) \cup {b}
      /\ Cardinality(Hits(f_ring', FilmAnswers)) = Cardinality(Hits(f_ring, FilmAnswers))
      /\ Cardinality(Hits(f_ring', Formats)) = Cardinality(Hits(f_ring, Formats))
      /\ Cardinality(Hits(f_ring', InputBack)) = Cardinality(Hits(f_ring, InputBack))
      /\ \A k \in DOMAIN f_ring' : f_ring'[k].kind = "format" => f_ring'[k].of = Wanted
  BY <1>1, <1>2, <1>3, <1>4, RingBuffer, SMTT(30)
<1>6. FilmTyped' BY <1>0, <1>1, <1>3, <1>5 DEF FilmTyped
<1>7. OnePlace' BY <1>1, <1>2, <1>3, <1>5 DEF VideoInv, OnePlace, Single
<1>8. FilmCounted' /\ RoomLeft' /\ Cleared' /\ LayoutTold' /\ TooSmall' /\ Enabled'
  BY <1>1 DEF VideoInv, FilmCounted, RoomLeft, Cleared, LayoutTold, TooSmall, Enabled
<1>9. Asking' /\ InputsKept' BY <1>1, <1>5 DEF VideoInv, Asking, InputsKept
<1>10. Pausing'
  <2>1. Wanted' = Wanted BY <1>1 DEF Wanted
  <2> QED BY <1>1, <1>5, <2>1 DEF VideoInv, Pausing
<1> QED BY <1>6, <1>7, <1>8, <1>9, <1>10 DEF VideoInv

LEMMA VideoDecodes ==
  ASSUME VideoInv, NEW b \in Outs, Video!Decode(b)
  PROVE  VideoInv'
<1> DEFINE m == [kind |-> "back", of |-> b]
<1>0. FilmTyped BY DEF VideoInv
<1>1. /\ UNCHANGED <<f_stream, f_fed, f_last, f_inputPool, f_outputPool, f_held, f_pc, f_outputEnabled, f_inFlight, f_format,
                     f_changed, f_refused, f_late, f_returned, f_pending, f_asked, f_layout, f_bulks,
                     f_paused, f_parsed>>
      /\ f_decoded < f_parsed /\ ~f_paused /\ b \in f_firm /\ f_decoded' = f_decoded + 1
      /\ f_decoded + 1 # Len(f_stream) + 1 => Wanted = f_layout
      /\ f_fill' = [f_fill EXCEPT ![b] = f_decoded + 1] /\ f_firm' = f_firm \ {b}
      /\ f_ring' = f_ring \o <<m>>
  BY DEF Video!Decode, Video!caller, Video!pools, Video!decoder, Video!mmal, Video!Says, Video!Message, Video!CanDecode,
         Video!Coming, Video!End, Wanted
<1>2. /\ f_fed \in Nat /\ f_parsed \in Nat /\ f_parsed <= f_fed /\ Len(f_stream) \in Nat /\ f_fed <= Len(f_stream) + 1
      /\ f_decoded \in Nat
  BY <1>0, LenProperties DEF FilmTyped
<1>3. f_pc # "enable"
  BY <1>1 DEF VideoInv, Enabled
<1>4. /\ Once(f_returned) /\ Once(f_bulks) /\ Once(Brought(f_ring))
      /\ f_firm \cap (f_outputPool \cup HeldBufs(f_held)) = {}
      /\ Bufs(f_returned) \cap (f_outputPool \cup HeldBufs(f_held) \cup f_firm) = {}
      /\ Bufs(f_bulks) \cap (f_outputPool \cup HeldBufs(f_held) \cup f_firm \cup Bufs(f_returned)) = {}
      /\ Bufs(Brought(f_ring))
           \cap (f_outputPool \cup HeldBufs(f_held) \cup f_firm \cup Bufs(f_returned) \cup Bufs(f_bulks)) = {}
  BY DEF VideoInv, OnePlace, Single
<1>5. m.kind \in {"back", "done"} /\ m.of = b /\ m \in Film BY DEF Film
<1> HIDE DEF m
<1>6. /\ f_ring' \in Seq(Film) /\ Once(Brought(f_ring')) /\ Bufs(Brought(f_ring')) = Bufs(Brought(f_ring)) \cup {b}
      /\ Cardinality(Hits(f_ring', FilmAnswers)) = Cardinality(Hits(f_ring, FilmAnswers))
      /\ Cardinality(Hits(f_ring', Formats)) = Cardinality(Hits(f_ring, Formats))
      /\ Cardinality(Hits(f_ring', InputBack)) = Cardinality(Hits(f_ring, InputBack))
      /\ \A k \in DOMAIN f_ring' : f_ring'[k].kind = "format" => f_ring'[k].of = Wanted
  <2>1. b \notin Bufs(Brought(f_ring)) BY <1>1, <1>4
  <2> QED BY <1>1, <1>5, <2>1, RingBuffer
<1>7. FilmTyped'
  <2>1. f_decoded' \in 0..f_parsed /\ f_decoded + 1 \in 0..(Len(f_stream) + 1) BY <1>1, <1>2
  <2>2. f_fill' \in [Outs -> 0..(Len(f_stream) + 1)] BY <1>0, <1>1, <2>1 DEF FilmTyped
  <2>3. f_firm' \subseteq Outs BY <1>0, <1>1 DEF FilmTyped
  <2> QED BY <1>0, <1>1, <1>6, <2>1, <2>2, <2>3 DEF FilmTyped
<1>8. OnePlace' BY <1>1, <1>4, <1>6 DEF VideoInv, OnePlace, Single
<1>9. FilmCounted' /\ RoomLeft' /\ TooSmall' BY <1>1 DEF VideoInv, FilmCounted, RoomLeft, TooSmall
<1>10. Enabled' BY <1>1 DEF VideoInv, Enabled
<1>11. Asking' /\ InputsKept' BY <1>1, <1>6 DEF VideoInv, Asking, InputsKept
<1>12. \A x \in Outs : f_fill'[x] = IF x = b THEN f_decoded + 1 ELSE f_fill[x] BY <1>0, <1>1 DEF FilmTyped
<1>13. Cleared'
  <2>1. \A x \in f_outputPool \cup (f_firm \ {b}) : f_fill[x] = 0 /\ x # b /\ x \in Outs
    BY <1>0, <1>1, <1>4 DEF VideoInv, Cleared, FilmTyped
  <2> QED BY <1>1, <1>12, <2>1 DEF Cleared
<1>14. LayoutTold'
  <2> SUFFICES ASSUME ~f_late PROVE LayoutTold' BY <1>1 DEF LayoutTold
  <2>1. /\ \A x \in f_held : f_fill[x.buffer] \in 1..Len(f_stream) /\ x.format = f_stream[f_fill[x.buffer]]
        /\ \A y \in Outs \ HeldBufs(f_held) : f_fill[y] \in 1..Len(f_stream) => f_format = f_stream[f_fill[y]]
    BY DEF VideoInv, LayoutTold
  <2>2. \A x \in f_held : x.buffer # b /\ x.buffer \in Outs
    BY <1>0, <1>1, <1>4 DEF FilmTyped, HeldBufs
  <2>3. \A x \in f_held : f_fill'[x.buffer] \in 1..Len(f_stream) /\ x.format = f_stream[f_fill'[x.buffer]]
    BY <1>12, <2>1, <2>2
  <2>4. f_decoded + 1 \in 1..Len(f_stream) => f_format = f_stream[f_decoded + 1]
    <3>1. f_layout = f_format BY <1>1, <1>3 DEF VideoInv, Pausing
    <3> QED BY <1>1, <1>2, <3>1 DEF Wanted
  <2>5. \A y \in Outs \ HeldBufs(f_held) : f_fill'[y] \in 1..Len(f_stream) => f_format = f_stream[f_fill'[y]]
    BY <1>12, <2>1, <2>4
  <2> QED BY <1>1, <2>3, <2>5 DEF LayoutTold
<1>15. Pausing'
  <2>1. ~f_paused /\ f_pc # "enable" BY <1>1, <1>3
  <2>2. /\ f_pc \notin {"disable", "drain"} /\ f_pending = 0 /\ Hits(f_ring, Formats) = {}
        /\ \A k \in DOMAIN f_ring' : f_ring'[k].kind # "format"
    <3> DEFINE h == Cardinality(Hits(f_ring, Formats))
               x == One(f_pending # 0)
               y == One(f_pc \in {"disable", "drain"} \/ (f_pc = "enable" /\ f_asked = "enable"))
               z == One(f_refused)
    <3>1. h + x + y + z = 0
      <4>1. h + x + y + z = One(f_paused) BY DEF VideoInv, Pausing
      <4>2. One(f_paused) = 0 BY <1>1 DEF One
      <4> QED BY <4>1, <4>2
    <3>2. f_ring' \in Seq(Film) /\ f_ring \in Seq(Film) BY <1>0, <1>6 DEF FilmTyped
    <3>3. /\ Len(f_ring) \in Nat /\ DOMAIN f_ring = 1..Len(f_ring)
          /\ Len(f_ring') \in Nat /\ DOMAIN f_ring' = 1..Len(f_ring')
      BY <3>2, LenProperties
    <3>4. /\ h \in Nat /\ x \in {0, 1} /\ y \in {0, 1} /\ z \in {0, 1}
          /\ y = 0 => f_pc \notin {"disable", "drain"}
          /\ x = 0 => f_pending = 0
      <4>1. h \in Nat BY <3>3, HitsNat
      <4> QED BY <4>1 DEF One
    <3> HIDE DEF h, x, y, z
    <3>5. h = 0 /\ x = 0 /\ y = 0 BY <3>1, <3>4
    <3>6. Cardinality(Hits(f_ring', Formats)) = 0 BY <1>6, <3>5 DEF h
    <3>7. Hits(f_ring', Formats) = {} /\ Hits(f_ring, Formats) = {}
      <4>1. IsFiniteSet(Hits(f_ring', Formats)) /\ IsFiniteSet(Hits(f_ring, Formats)) BY <3>3, HitsNat
      <4> QED BY <3>5, <3>6, <4>1, FS_EmptySet DEF h
    <3>8. \A k \in DOMAIN f_ring' : f_ring'[k].kind # "format"
      <4> SUFFICES ASSUME NEW k \in DOMAIN f_ring', f_ring'[k].kind = "format" PROVE FALSE OBVIOUS
      <4>1. f_ring'[k] \in Film BY <3>2, <3>3, ElementOfSeq
      <4>2. f_ring'[k] \in Formats BY <4>1, Kinds
      <4> QED BY <3>7, <4>2 DEF Hits
    <3> QED BY <3>4, <3>5, <3>7, <3>8
  <2> QED BY <1>1, <1>6, <2>1, <2>2 DEF VideoInv, Pausing
<1> QED BY <1>7, <1>8, <1>9, <1>10, <1>11, <1>13, <1>14, <1>15 DEF VideoInv

\* The buffers given back when the port is disabled, each once.
LEMMA Listed ==
  ASSUME NEW F, F \subseteq Outs, NEW q, q = Video!SetToSeq(F)
  PROVE  /\ Cardinality(F) \in Nat /\ q \in [1..Cardinality(F) -> F]
         /\ \A i, j \in 1..Cardinality(F) : q[i] = q[j] => i = j
         /\ \A x \in F : \E i \in 1..Cardinality(F) : q[i] = x
<1> DEFINE n == Cardinality(F)
<1>1. IsFiniteSet(F) /\ n \in Nat /\ ExistsBijection(1..n, F) BY Outputs, FS_Subset, FS_CardinalityType
<1>2. \E f \in [1..n -> F] : Video!IsInjective(f)
  <2>1. PICK f : f \in Bijection(1..n, F) BY <1>1 DEF ExistsBijection
  <2>2. f \in [1..n -> F] /\ IsInjective(f) BY <2>1 DEF Bijection, Injection
  <2>3. Video!IsInjective(f) BY <2>2 DEF Video!IsInjective, IsInjective
  <2> QED BY <2>2, <2>3
<1>3. q = CHOOSE f \in [1..n -> F] : Video!IsInjective(f) BY SameCount DEF Video!SetToSeq
<1> HIDE DEF n
<1>4. q \in [1..n -> F] /\ Video!IsInjective(q) BY <1>2, <1>3
<1>5. \A i, j \in 1..n : q[i] = q[j] => i = j BY <1>4 DEF Video!IsInjective
<1>6. q \in Injection(1..n, F) BY <1>4, <1>5 DEF Injection, IsInjective
<1>7. Cardinality(1..n) = n
  <2>1. n \in Int /\ Cardinality(1..n) = IF 1 > n THEN 0 ELSE n - 1 + 1 BY <1>1, FS_Interval
  <2> QED BY <1>1, <2>1
<1>8. q \in Surjection(1..n, F) BY <1>1, <1>6, <1>7, FS_Injection DEF n
<1> QED BY <1>1, <1>4, <1>5, <1>8 DEF Surjection, n

\* t is s and then v, messages that bring the buffers F, each once.
Gives(F, n, v) == /\ DOMAIN v = 1..n /\ \A k \in 1..n : v[k] \in Film /\ v[k].kind = "back" /\ v[k].of \in F
                  /\ \A i, j \in 1..n : v[i].of = v[j].of => i = j
                  /\ \A x \in F : \E i \in 1..n : v[i].of = x
Joins(s, r, n, v, t) == /\ DOMAIN s = 1..r /\ DOMAIN t = 1..(r + n) /\ t \in Seq(Film)
                        /\ \A k \in 1..r : t[k] = s[k]
                        /\ \A k \in 1..n : t[r + k] = v[k]
Given(s, F, t) == /\ t \in Seq(Film) /\ Once(Brought(t)) /\ Bufs(Brought(t)) = Bufs(Brought(s)) \cup F
                  /\ Hits(t, FilmAnswers) = Hits(s, FilmAnswers) /\ Hits(t, Formats) = Hits(s, Formats)
                  /\ Hits(t, InputBack) = Hits(s, InputBack)
                  /\ \A k \in DOMAIN t : (k \in DOMAIN s /\ t[k] = s[k]) \/ t[k].kind = "back"

LEMMA RingJoined ==
  ASSUME NEW s, NEW r \in Nat, NEW n \in Nat, NEW v, NEW t, NEW F, F \subseteq Outs,
         Gives(F, n, v), Joins(s, r, n, v, t), Once(Brought(s)), Bufs(Brought(s)) \cap F = {}
  PROVE  Given(s, F, t)
<1>1. /\ DOMAIN s = 1..r /\ DOMAIN t = 1..(r + n) /\ (\A k \in 1..r : t[k] = s[k]) /\ (\A k \in 1..n : t[r + k] = v[k])
      /\ t \in Seq(Film)
  BY DEF Joins
<1>2. /\ DOMAIN v = 1..n /\ (\A k \in 1..n : v[k] \in Film /\ v[k].kind = "back" /\ v[k].of \in F)
      /\ \A i, j \in 1..n : v[i].of = v[j].of => i = j
      /\ \A x \in F : \E i \in 1..n : v[i].of = x
  BY DEF Gives
<1>3. \A k \in (r + 1)..(r + n) : k - r \in 1..n /\ t[k] = v[k - r]
  <2>1. \A k \in (r + 1)..(r + n) : k - r \in 1..n /\ r + (k - r) = k OBVIOUS
  <2> QED BY <1>1, <2>1
<1>4. \A k \in (r + 1)..(r + n) : t[k] \in Film /\ t[k].kind = "back" /\ t[k].of \in F BY <1>2, <1>3
<1>5. \A k \in (r + 1)..(r + n) : t[k] \notin FilmAnswers /\ t[k] \notin Formats /\ t[k] \notin InputBack
  <2> SUFFICES ASSUME NEW k \in (r + 1)..(r + n) PROVE t[k] \notin FilmAnswers /\ t[k] \notin Formats /\ t[k] \notin InputBack
    OBVIOUS
  <2>1. t[k] \in Film /\ t[k].kind = "back" /\ t[k].of # 0 BY <1>4, Outputs
  <2> QED BY <2>1, Kinds
<1>6. Hits(t, FilmAnswers) = Hits(s, FilmAnswers)
  <2>1. \A k \in (r + 1)..(r + n) : t[k] \notin FilmAnswers BY <1>5
  <2>2. /\ \A k \in 1..(r + n) : k \in 1..r \/ k \in (r + 1)..(r + n)
        /\ \A k \in 1..r : k \in 1..(r + n)
    OBVIOUS
  <2> QED BY <1>1, <2>1, <2>2, Zenon DEF Hits
<1>7. Hits(t, Formats) = Hits(s, Formats)
  <2>1. \A k \in (r + 1)..(r + n) : t[k] \notin Formats BY <1>5
  <2>2. /\ \A k \in 1..(r + n) : k \in 1..r \/ k \in (r + 1)..(r + n)
        /\ \A k \in 1..r : k \in 1..(r + n)
    OBVIOUS
  <2> QED BY <1>1, <2>1, <2>2, Zenon DEF Hits
<1>8. Hits(t, InputBack) = Hits(s, InputBack)
  <2>1. \A k \in (r + 1)..(r + n) : t[k] \notin InputBack BY <1>5
  <2>2. /\ \A k \in 1..(r + n) : k \in 1..r \/ k \in (r + 1)..(r + n)
        /\ \A k \in 1..r : k \in 1..(r + n)
    OBVIOUS
  <2> QED BY <1>1, <2>1, <2>2, Zenon DEF Hits
<1>9. /\ DOMAIN Brought(s) = 1..r /\ DOMAIN Brought(v) = 1..n /\ DOMAIN Brought(t) = 1..(r + n)
      /\ (\A k \in 1..r : Brought(t)[k] = Brought(s)[k]) /\ \A k \in 1..n : Brought(t)[r + k] = Brought(v)[k]
  <2>1. \A k \in 1..r : k \in 1..(r + n) OBVIOUS
  <2>2. \A k \in 1..n : r + k \in 1..(r + n) OBVIOUS
  <2> QED BY <1>1, <1>2, <2>1, <2>2 DEF Brought
<1>10. \A k \in 1..n : Brought(v)[k] = v[k].of /\ v[k].of # 0 BY <1>2, Outputs DEF Brought, Brings
<1>11. Once(Brought(v)) BY <1>2, <1>9, <1>10 DEF Once
<1>12. Bufs(Brought(v)) = F
  <2>1. Bufs(Brought(v)) \subseteq F
    <3> SUFFICES ASSUME NEW k \in 1..n PROVE Brought(v)[k] \in F BY <1>9 DEF Bufs
    <3> QED BY <1>2, <1>10
  <2>2. F \subseteq Bufs(Brought(v))
    <3> SUFFICES ASSUME NEW x \in F PROVE x \in Bufs(Brought(v)) OBVIOUS
    <3>1. PICK i \in 1..n : v[i].of = x BY <1>2
    <3>2. Brought(v)[i] = x /\ x # 0 BY <1>10, <3>1
    <3> QED BY <1>9, <3>2 DEF Bufs
  <2> QED BY <2>1, <2>2
<1>13. Once(Brought(t)) /\ Bufs(Brought(t)) = Bufs(Brought(s)) \cup F
  <2>1. Bufs(Brought(s)) \cap Bufs(Brought(v)) = {} BY <1>12
  <2> DEFINE f == Brought(s)
             g == Brought(v)
             h == Brought(t)
  <2>2. /\ DOMAIN f = 1..r /\ DOMAIN g = 1..n /\ DOMAIN h = 1..(r + n)
        /\ (\A k \in 1..r : h[k] = f[k]) /\ \A k \in 1..n : h[r + k] = g[k]
    BY <1>9
  <2>3. Once(f) /\ Once(g) /\ Bufs(f) \cap Bufs(g) = {} BY <1>11, <2>1
  <2> HIDE DEF f, g, h
  <2>4. Bufs(h) = Bufs(f) \cup Bufs(g) /\ Once(h) BY <2>2, <2>3, BufsJoined, SMTT(30)
  <2> QED BY <1>12, <2>4 DEF f, g, h
<1>14. \A k \in DOMAIN t : (k \in DOMAIN s /\ t[k] = s[k]) \/ t[k].kind = "back"
  <2>1. \A k \in 1..(r + n) : k \in 1..r \/ k \in (r + 1)..(r + n) OBVIOUS
  <2> QED BY <1>1, <1>4, <2>1
<1> QED BY <1>1, <1>6, <1>7, <1>8, <1>13, <1>14 DEF Given

Backs(F) == [i \in 1..Cardinality(F) |-> [kind |-> "back", of |-> Video!SetToSeq(F)[i]]]

LEMMA RingFirm ==
  ASSUME NEW s \in Seq(Film), NEW F, F \subseteq Outs, Once(Brought(s)), Bufs(Brought(s)) \cap F = {},
         NEW v, v = Backs(F)
  PROVE  v \in Seq(Film) /\ Given(s, F, s \o v)
<1> DEFINE n == Cardinality(F)
           q == Video!SetToSeq(F)
           r == Len(s)
           t == s \o v
<1>1. /\ n \in Nat /\ q \in [1..n -> F] /\ (\A i, j \in 1..n : q[i] = q[j] => i = j) /\ \A x \in F : \E i \in 1..n : q[i] = x
  BY Listed
<1>2. r \in Nat /\ DOMAIN s = 1..r BY LenProperties
<1>a. v = [i \in 1..n |-> [kind |-> "back", of |-> q[i]]] BY DEF Backs
<1> HIDE DEF n, q, r
<1>3. DOMAIN v = 1..n /\ \A i \in 1..n : v[i] = [kind |-> "back", of |-> q[i]] BY <1>a
<1>4. \A i \in 1..n : q[i] \in F /\ [kind |-> "back", of |-> q[i]] \in Film BY <1>1 DEF Film
<1>5. \A i \in 1..n : v[i] \in Film /\ v[i].kind = "back" /\ v[i].of = q[i] /\ q[i] \in F BY <1>3, <1>4
<1>6. Gives(F, n, v) BY <1>1, <1>3, <1>5 DEF Gives
<1>7. v \in Seq(Film) /\ Len(v) = n
  <2>1. v = [i \in 1..n |-> v[i]] BY <1>3, <1>a
  <2>2. v \in [1..n -> Film] BY <1>5, <2>1
  <2>3. v \in Seq(Film) BY <1>1, <2>2, SeqDef
  <2> QED BY <1>1, <1>3, <2>3, LenProperties
<1>8. t \in Seq(Film) /\ Len(t) = r + n BY <1>7, ConcatProperties DEF r
<1>9. \A i \in 1..(r + n) : t[i] = IF i <= r THEN s[i] ELSE v[i - r] BY <1>7, ConcatProperties DEF r
<1> HIDE DEF t
<1>10. DOMAIN t = 1..(r + n) BY <1>8, LenProperties
<1>11. \A k \in 1..r : t[k] = s[k]
  <2>1. \A k \in 1..r : k \in 1..(r + n) /\ k <= r BY <1>1, <1>2
  <2> QED BY <1>9, <2>1
<1>12. \A k \in 1..n : t[r + k] = v[k]
  <2>1. \A k \in 1..n : r + k \in 1..(r + n) /\ ~(r + k <= r) /\ (r + k) - r = k BY <1>1, <1>2
  <2> QED BY <1>9, <2>1
<1>13. Joins(s, r, n, v, t) BY <1>2, <1>8, <1>10, <1>11, <1>12 DEF Joins
<1>14. Given(s, F, t) BY <1>1, <1>2, <1>6, <1>13, RingJoined
<1> QED BY <1>7, <1>14, Zenon DEF t

\* Of what the firmware may pause over, one thing at a time is so.
Relaying(pc, asked) == pc \in {"disable", "drain"} \/ (pc = "enable" /\ asked = "enable")

LEMMA Pauses ==
  ASSUME VideoInv
  PROVE  /\ Cardinality(Hits(f_ring, Formats)) \in Nat
         /\ f_pending # 0 => f_paused /\ Cardinality(Hits(f_ring, Formats)) = 0 /\ ~Relaying(f_pc, f_asked) /\ ~f_refused
         /\ Relaying(f_pc, f_asked) => f_paused /\ Cardinality(Hits(f_ring, Formats)) = 0 /\ f_pending = 0 /\ ~f_refused
         /\ Cardinality(Hits(f_ring, Formats)) # 0 =>
              /\ f_paused /\ Cardinality(Hits(f_ring, Formats)) = 1
              /\ f_pending = 0 /\ ~f_refused /\ ~Relaying(f_pc, f_asked)
<1> DEFINE h == Cardinality(Hits(f_ring, Formats))
           x == One(f_pending # 0)
           y == One(f_pc \in {"disable", "drain"} \/ (f_pc = "enable" /\ f_asked = "enable"))
           z == One(f_refused)
<1>1. h + x + y + z = One(f_paused) BY DEF VideoInv, Pausing
<1>2. h \in Nat
  <2>1. Len(f_ring) \in Nat /\ DOMAIN f_ring = 1..Len(f_ring) BY LenProperties DEF VideoInv, FilmTyped
  <2> QED BY <2>1, HitsNat
<1>3. /\ One(f_paused) \in {0, 1} /\ x \in {0, 1} /\ y \in {0, 1} /\ z \in {0, 1}
      /\ One(f_paused) # 0 => f_paused
      /\ (x = 0 <=> f_pending = 0) /\ (y = 0 <=> ~Relaying(f_pc, f_asked)) /\ (z = 0 <=> ~f_refused)
  BY DEF One, Relaying
<1> DEFINE w == One(f_paused)
<1> HIDE DEF h, x, y, z, w
<1>4. h + x + y + z = w /\ w \in {0, 1} /\ (w # 0 => f_paused) BY <1>1, <1>3 DEF w
<1>5. /\ x # 0 => w # 0 /\ h = 0 /\ y = 0 /\ z = 0
      /\ y # 0 => w # 0 /\ h = 0 /\ x = 0 /\ z = 0
      /\ h # 0 => w # 0 /\ h = 1 /\ x = 0 /\ y = 0 /\ z = 0
  BY <1>2, <1>3, <1>4
<1> QED BY <1>2, <1>3, <1>4, <1>5 DEF h

\* An answer is written after the buffers F, in a ring that was u before it.
LEMMA RingAnswer ==
  ASSUME VideoInv, NEW F, NEW u, Given(f_ring, F, u), f_ring' = u \o <<[kind |-> "answer", of |-> 0]>>
  PROVE  /\ f_ring' \in Seq(Film) /\ Once(Brought(f_ring')) /\ Bufs(Brought(f_ring')) = (Bufs(Brought(f_ring)) \cup F) \ {0}
         /\ Cardinality(Hits(f_ring', FilmAnswers)) = Cardinality(Hits(f_ring, FilmAnswers)) + 1
         /\ Cardinality(Hits(f_ring', Formats)) = Cardinality(Hits(f_ring, Formats))
         /\ Cardinality(Hits(f_ring', InputBack)) = Cardinality(Hits(f_ring, InputBack))
         /\ \A k \in DOMAIN f_ring' : f_ring'[k].kind = "format" => f_ring'[k].of = Wanted
<1> DEFINE m == [kind |-> "answer", of |-> 0]
<1>1. m \in Film /\ m.kind = "answer" /\ Brings(m) = 0 BY DEF Film, Brings
<1> HIDE DEF m
<1>2. m \in FilmAnswers /\ m \notin Formats /\ m \notin InputBack BY <1>1, Kinds
<1>3. /\ u \in Seq(Film) /\ Once(Brought(u)) /\ Bufs(Brought(u)) = Bufs(Brought(f_ring)) \cup F
      /\ Hits(u, FilmAnswers) = Hits(f_ring, FilmAnswers) /\ Hits(u, Formats) = Hits(f_ring, Formats)
      /\ Hits(u, InputBack) = Hits(f_ring, InputBack)
      /\ \A k \in DOMAIN u : (k \in DOMAIN f_ring /\ u[k] = f_ring[k]) \/ u[k].kind = "back"
  BY DEF Given
<1>4. 0 \notin Bufs(Brought(u)) BY DEF Bufs
<1>5. f_ring' = u \o <<m>> BY DEF m
<1>6. More(u, f_ring', m) BY <1>1, <1>3, <1>4, <1>5, RingGrows
<1>7. Gains(u, f_ring', m, FilmAnswers) /\ Gains(u, f_ring', m, Formats) /\ Gains(u, f_ring', m, InputBack)
  BY <1>1, <1>3, <1>5, RingGains
<1>8. One(m \in FilmAnswers) = 1 /\ One(m \in Formats) = 0 /\ One(m \in InputBack) = 0 BY <1>2 DEF One
<1>9. /\ Cardinality(Hits(f_ring', FilmAnswers)) = Cardinality(Hits(f_ring, FilmAnswers)) + 1
      /\ Cardinality(Hits(f_ring', Formats)) = Cardinality(Hits(f_ring, Formats))
      /\ Cardinality(Hits(f_ring', InputBack)) = Cardinality(Hits(f_ring, InputBack))
  BY <1>3, <1>7, <1>8 DEF Gains
<1>10. /\ f_ring' \in Seq(Film) /\ Once(Brought(f_ring'))
       /\ Bufs(Brought(f_ring')) = (Bufs(Brought(u)) \cup {Brings(m)}) \ {0}
       /\ \A k \in DOMAIN f_ring' : (k \in DOMAIN u /\ f_ring'[k] = u[k]) \/ f_ring'[k] = m
  BY <1>6 DEF More
<1>11. Bufs(Brought(f_ring')) = (Bufs(Brought(f_ring)) \cup F) \ {0} BY <1>1, <1>3, <1>10
<1>12. \A k \in DOMAIN f_ring' : f_ring'[k].kind = "format" => f_ring'[k].of = Wanted
  <2>1. \A k \in DOMAIN f_ring : f_ring[k].kind = "format" => f_ring[k].of = Wanted BY DEF VideoInv, Pausing
  <2>2. \A k \in DOMAIN u : u[k].kind = "format" => u[k].of = Wanted BY <1>3, <2>1
  <2> QED BY <1>1, <1>10, <2>2
<1> QED BY <1>9, <1>10, <1>11, <1>12

LEMMA VideoAnswer ==
  ASSUME VideoInv, Video!Answer
  PROVE  VideoInv'
<1>0. FilmTyped BY DEF VideoInv
<1>1. /\ UNCHANGED <<f_stream, f_fed, f_last, f_inputPool, f_outputPool, f_held, f_pc, f_outputEnabled, f_inFlight, f_format,
                     f_changed, f_refused, f_late, f_returned, f_pending, f_bulks, f_decoded, f_fill, f_parsed>>
      /\ f_asked # "nothing" /\ f_asked' = "nothing"
  BY DEF Video!Answer, Video!caller, Video!pools, Video!decoder, Video!mmal
<1>2. f_asked = f_pc /\ f_pc \in {"disable", "enable"} /\ Relaying(f_pc, f_asked)
  BY <1>0, <1>1 DEF VideoInv, Asking, FilmTyped, Relaying
<1>3. /\ Once(f_returned) /\ Once(f_bulks) /\ Once(Brought(f_ring))
      /\ f_firm \cap (f_outputPool \cup HeldBufs(f_held)) = {}
      /\ Bufs(f_returned) \cap (f_outputPool \cup HeldBufs(f_held) \cup f_firm) = {}
      /\ Bufs(f_bulks) \cap (f_outputPool \cup HeldBufs(f_held) \cup f_firm \cup Bufs(f_returned)) = {}
      /\ Bufs(Brought(f_ring))
           \cap (f_outputPool \cup HeldBufs(f_held) \cup f_firm \cup Bufs(f_returned) \cup Bufs(f_bulks)) = {}
  BY DEF VideoInv, OnePlace, Single
<1>4. f_paused /\ Cardinality(Hits(f_ring, Formats)) = 0 /\ f_pending = 0 /\ ~f_refused BY <1>2, Pauses
<1>5. f_ring \in Seq(Film) /\ f_firm \subseteq Outs BY <1>0 DEF FilmTyped
<1>6. One(f_asked = "nothing" /\ f_pc \in {"disable", "enable"}) = 0 /\ One(f_asked' = "nothing" /\ f_pc' \in {"disable", "enable"}) = 1
  BY <1>1, <1>2 DEF One
<1>7. CASE f_asked = "disable"
  <2> DEFINE v == Backs(f_firm)
             a == <<[kind |-> "answer", of |-> 0]>>
  <2>1. f_ring' = f_ring \o (v \o a) /\ f_firm' = {} /\ f_layout' = f_layout /\ f_paused' = f_paused
    BY <1>7, SameCount DEF Video!Answer, Video!Says, Video!Message, Video!Input, Backs
  <2>2. v \in Seq(Film) /\ Given(f_ring, f_firm, f_ring \o v)
    <3>1. Once(Brought(f_ring)) /\ Bufs(Brought(f_ring)) \cap f_firm = {} BY <1>3
    <3> QED BY <1>5, <3>1, RingFirm, Zenon
  <2> HIDE DEF v
  <2>3. f_ring' = (f_ring \o v) \o a
    <3>1. a \in Seq(Film) BY DEF Film
    <3>2. f_ring \in Seq(Film) /\ v \in Seq(Film) BY <1>5, <2>2
    <3> HIDE DEF a
    <3>3. (f_ring \o v) \o a = f_ring \o (v \o a) BY <3>1, <3>2, ConcatAssociative
    <3> QED BY <2>1, <3>3
  <2> DEFINE u == f_ring \o v
  <2>4. Given(f_ring, f_firm, u) /\ f_ring' = u \o <<[kind |-> "answer", of |-> 0]>> BY <2>2, <2>3
  <2> HIDE DEF u
  <2>5. /\ f_ring' \in Seq(Film) /\ Once(Brought(f_ring')) /\ Bufs(Brought(f_ring')) = (Bufs(Brought(f_ring)) \cup f_firm) \ {0}
        /\ Cardinality(Hits(f_ring', FilmAnswers)) = Cardinality(Hits(f_ring, FilmAnswers)) + 1
        /\ Cardinality(Hits(f_ring', Formats)) = Cardinality(Hits(f_ring, Formats))
        /\ Cardinality(Hits(f_ring', InputBack)) = Cardinality(Hits(f_ring, InputBack))
        /\ \A k \in DOMAIN f_ring' : f_ring'[k].kind = "format" => f_ring'[k].of = Wanted
    BY <2>4, RingAnswer
  <2>6. FilmTyped' BY <1>0, <1>1, <2>1, <2>5 DEF FilmTyped
  <2>7. OnePlace' BY <1>1, <1>3, <2>1, <2>5 DEF VideoInv, OnePlace, Single
  <2>8. FilmCounted' /\ RoomLeft' /\ LayoutTold' /\ TooSmall'
    BY <1>1 DEF VideoInv, FilmCounted, RoomLeft, LayoutTold, TooSmall
  <2>9. Cleared' BY <1>1, <2>1 DEF VideoInv, Cleared
  <2>10. Enabled' BY <1>1, <1>2, <1>7, <2>1 DEF VideoInv, Enabled
  <2>11. Asking'
    <3>1. Cardinality(Hits(f_ring, FilmAnswers)) = 0 BY <1>6 DEF VideoInv, Asking
    <3>2. Cardinality(Hits(f_ring', FilmAnswers)) = 1 BY <2>5, <3>1
    <3> QED BY <1>1, <1>6, <3>2 DEF Asking
  <2>12. InputsKept' BY <1>1, <2>5 DEF VideoInv, InputsKept
  <2>13. Pausing'
    <3>1. Wanted' = Wanted BY <1>1 DEF Wanted
    <3>2. f_pc = "disable" /\ f_pc' = "disable" BY <1>1, <1>2, <1>7
    <3>3. One(f_pc' \in {"disable", "drain"} \/ (f_pc' = "enable" /\ f_asked' = "enable")) = 1
          /\ One(f_pc \in {"disable", "drain"} \/ (f_pc = "enable" /\ f_asked = "enable")) = 1
      BY <3>2 DEF One
    <3> QED BY <1>1, <2>1, <2>5, <3>1, <3>2, <3>3 DEF VideoInv, Pausing
  <2> QED BY <2>6, <2>7, <2>8, <2>9, <2>10, <2>11, <2>12, <2>13 DEF VideoInv
<1>8. CASE f_asked = "enable"
  <2>1. /\ f_ring' = f_ring \o <<[kind |-> "answer", of |-> 0]>> /\ f_firm' = f_firm
        /\ f_layout' = f_changed /\ f_paused' = FALSE
    BY <1>8 DEF Video!Answer, Video!Says, Video!Message, Video!Input
  <2>2. Given(f_ring, {}, f_ring) BY <1>3, <1>5 DEF Given
  <2>3. /\ f_ring' \in Seq(Film) /\ Once(Brought(f_ring')) /\ Bufs(Brought(f_ring')) = (Bufs(Brought(f_ring)) \cup {}) \ {0}
        /\ Cardinality(Hits(f_ring', FilmAnswers)) = Cardinality(Hits(f_ring, FilmAnswers)) + 1
        /\ Cardinality(Hits(f_ring', Formats)) = Cardinality(Hits(f_ring, Formats))
        /\ Cardinality(Hits(f_ring', InputBack)) = Cardinality(Hits(f_ring, InputBack))
        /\ \A k \in DOMAIN f_ring' : f_ring'[k].kind = "format" => f_ring'[k].of = Wanted
    BY <2>1, <2>2, RingAnswer
  <2>6. FilmTyped' BY <1>0, <1>1, <2>1, <2>3 DEF FilmTyped
  <2>7. OnePlace' BY <1>1, <1>3, <2>1, <2>3 DEF VideoInv, OnePlace, Single
  <2>8. FilmCounted' /\ RoomLeft' /\ LayoutTold' /\ TooSmall' /\ Cleared'
    BY <1>1, <2>1 DEF VideoInv, FilmCounted, RoomLeft, LayoutTold, TooSmall, Cleared
  <2>10. Enabled' BY <1>1, <1>2, <1>8, <2>1 DEF VideoInv, Enabled
  <2>11. Asking'
    <3>1. Cardinality(Hits(f_ring, FilmAnswers)) = 0 BY <1>6 DEF VideoInv, Asking
    <3>2. Cardinality(Hits(f_ring', FilmAnswers)) = 1 BY <2>3, <3>1
    <3> QED BY <1>1, <1>6, <3>2 DEF Asking
  <2>12. InputsKept' BY <1>1, <2>3 DEF VideoInv, InputsKept
  <2>13. Pausing'
    <3>1. Wanted' = Wanted BY <1>1 DEF Wanted
    <3>2. f_pc = "enable" /\ f_pc' = "enable" BY <1>1, <1>2, <1>8
    <3>3. /\ One(f_pc' \in {"disable", "drain"} \/ (f_pc' = "enable" /\ f_asked' = "enable")) = 0
          /\ One(f_pending' # 0) = 0 /\ One(f_refused') = 0 /\ One(f_paused') = 0
      BY <1>1, <1>4, <2>1, <3>2 DEF One
    <3>4. Cardinality(Hits(f_ring', Formats)) = 0 BY <1>4, <2>3
    <3>5. f_changed = Wanted /\ f_decoded < Len(f_stream) BY <3>2 DEF VideoInv, Pausing
    <3> QED BY <1>1, <1>4, <2>1, <2>3, <3>1, <3>2, <3>3, <3>4, <3>5 DEF Pausing
  <2> QED BY <2>6, <2>7, <2>8, <2>10, <2>11, <2>12, <2>13 DEF VideoInv
<1> QED BY <1>2, <1>7, <1>8

\* An answer on its way is awaited.
LEMMA AnswerAwaited ==
  ASSUME VideoInv, f_ring # <<>>, Head(f_ring).kind = "answer", Video!OnMessage(Head(f_ring))
  PROVE  f_pc \in {"disable", "enable"} /\ f_asked = "nothing" /\ Cardinality(Hits(f_ring', FilmAnswers)) = 0
<1> DEFINE m == Head(f_ring)
<1>1. /\ Cardinality(Hits(f_ring, FilmAnswers)) = Cardinality(Hits(f_ring', FilmAnswers)) + One(m.kind = "answer")
      /\ Cardinality(Hits(f_ring', FilmAnswers)) \in Nat
  BY VideoMessage
<1>2. One(m.kind = "answer") = 1 BY DEF One
<1>3. Cardinality(Hits(f_ring, FilmAnswers)) = One(f_asked = "nothing" /\ f_pc \in {"disable", "enable"})
  BY DEF VideoInv, Asking
<1>4. /\ One(f_asked = "nothing" /\ f_pc \in {"disable", "enable"}) \in {0, 1}
      /\ One(f_asked = "nothing" /\ f_pc \in {"disable", "enable"}) = 1 => f_pc \in {"disable", "enable"} /\ f_asked = "nothing"
  BY DEF One
<1> QED BY <1>1, <1>2, <1>3, <1>4

\* Any other message leaves the decoder where it was, or with its caller.
LEMMA VideoLooks ==
  ASSUME VideoInv, f_ring # <<>>, Video!OnMessage(Head(f_ring)), Head(f_ring).kind # "answer",
         UNCHANGED <<f_stream, f_fed, f_last, f_inputPool, f_outputPool, f_held, f_outputEnabled, f_inFlight, f_format,
                     f_changed, f_refused, f_late, f_layout, f_paused, f_parsed, f_decoded, f_firm, f_fill>>,
         f_pc' = f_pc \/ (f_pc = "poll" /\ f_pc' = "out")
  PROVE  VideoInv'
<1> DEFINE m == Head(f_ring)
<1>0. FilmTyped BY DEF VideoInv
<1>1. /\ m \in Film /\ f_ring' \in Seq(Film) /\ f_returned' \in Seq(Outs \cup {0}) /\ f_bulks' \in Seq(Outs)
      /\ Single(f_outputPool, HeldBufs(f_held), f_firm, f_returned', f_bulks', Brought(f_ring'))
      /\ Cardinality(Hits(f_returned', {0})) + Cardinality(Hits(f_ring', InputBack))
           = Cardinality(Hits(f_returned, {0})) + Cardinality(Hits(f_ring, InputBack))
      /\ Cardinality(Hits(f_ring, FilmAnswers)) = Cardinality(Hits(f_ring', FilmAnswers)) + One(m.kind = "answer")
      /\ Cardinality(Hits(f_ring, Formats)) = Cardinality(Hits(f_ring', Formats)) + One(m.kind = "format")
      /\ Cardinality(Hits(f_ring', FilmAnswers)) \in Nat /\ Cardinality(Hits(f_ring', Formats)) \in Nat
      /\ f_pending' = IF m.kind = "format" THEN Wanted ELSE f_pending
      /\ f_pending' \in Nat
      /\ \A k \in DOMAIN f_ring' : f_ring'[k].kind = "format" => f_ring'[k].of = Wanted
      /\ f_asked' = f_asked
  BY VideoMessage
<1>2. FilmTyped'
  <2>1. f_pc' \in {"out", "poll", "disable", "drain", "enable"} BY <1>0 DEF FilmTyped
  <2> QED BY <1>0, <1>1, <2>1 DEF FilmTyped
<1>3. OnePlace' BY <1>1 DEF VideoInv, OnePlace
<1>4. FilmCounted' /\ RoomLeft' /\ Cleared' /\ LayoutTold' /\ TooSmall'
  BY DEF VideoInv, FilmCounted, RoomLeft, Cleared, LayoutTold, TooSmall
<1>5. Enabled' BY <1>1 DEF VideoInv, Enabled
<1>6. Asking'
  <2>1. One(m.kind = "answer") = 0 BY DEF One
  <2>2. Cardinality(Hits(f_ring', FilmAnswers)) = Cardinality(Hits(f_ring, FilmAnswers)) BY <1>1, <2>1
  <2>3. One(f_asked' = "nothing" /\ f_pc' \in {"disable", "enable"}) = One(f_asked = "nothing" /\ f_pc \in {"disable", "enable"})
    BY <1>1 DEF One
  <2>4. f_asked' # "nothing" => f_asked' = f_pc' BY <1>0, <1>1 DEF VideoInv, Asking, FilmTyped
  <2> QED BY <2>2, <2>3, <2>4 DEF VideoInv, Asking
<1>7. InputsKept'
  <2> DEFINE a == Cardinality(Hits(f_returned, {0}))
             b == Cardinality(Hits(f_ring, InputBack))
             c == Cardinality(Hits(f_returned', {0}))
             d == Cardinality(Hits(f_ring', InputBack))
  <2>1. f_inputPool + (f_fed - f_parsed) + a + b = Inputs BY DEF VideoInv, InputsKept
  <2>2. c + d = a + b BY <1>1
  <2>3. a \in Nat /\ b \in Nat /\ c \in Nat /\ d \in Nat
    <3>1. /\ Len(f_ring) \in Nat /\ DOMAIN f_ring = 1..Len(f_ring) /\ Len(f_ring') \in Nat /\ DOMAIN f_ring' = 1..Len(f_ring')
          /\ Len(f_returned) \in Nat /\ DOMAIN f_returned = 1..Len(f_returned)
          /\ Len(f_returned') \in Nat /\ DOMAIN f_returned' = 1..Len(f_returned')
      BY <1>0, <1>1, LenProperties DEF FilmTyped
    <3> QED BY <3>1, HitsNat
  <2>4. f_inputPool \in Nat /\ f_fed \in Int /\ f_parsed \in Int
    <3>1. f_fed \in Nat /\ f_parsed \in Nat BY <1>0, LenProperties DEF FilmTyped
    <3> QED BY <1>0, <3>1 DEF FilmTyped
  <2> HIDE DEF a, b, c, d
  <2>5. f_inputPool + (f_fed - f_parsed) + c + d = Inputs BY <2>1, <2>2, <2>3, <2>4
  <2> QED BY <2>5 DEF InputsKept, c, d
<1>8. Pausing'
  <2>1. Wanted' = Wanted BY DEF Wanted
  <2>2. CASE m.kind # "format"
    <3>1. One(m.kind = "format") = 0 BY <2>2 DEF One
    <3>2. Cardinality(Hits(f_ring', Formats)) = Cardinality(Hits(f_ring, Formats)) BY <1>1, <3>1
    <3>3. f_pending' = f_pending BY <1>1, <2>2
    <3>4. One(f_pc' \in {"disable", "drain"} \/ (f_pc' = "enable" /\ f_asked' = "enable"))
            = One(f_pc \in {"disable", "drain"} \/ (f_pc = "enable" /\ f_asked = "enable"))
      BY <1>1 DEF One
    <3> QED BY <1>1, <2>1, <3>2, <3>3, <3>4 DEF VideoInv, Pausing
  <2>3. CASE m.kind = "format"
    <3>1. One(m.kind = "format") = 1 BY <2>3 DEF One
    <3>2. Cardinality(Hits(f_ring, Formats)) = Cardinality(Hits(f_ring', Formats)) + 1 BY <1>1, <3>1
    <3>3. f_paused /\ f_pending = 0 /\ ~f_refused /\ ~Relaying(f_pc, f_asked) /\ Cardinality(Hits(f_ring', Formats)) = 0
      BY <1>1, <3>2, Pauses
    <3>4. f_pending' = Wanted BY <1>1, <2>3
    <3>5. f_decoded < Len(f_stream) BY <3>3 DEF VideoInv, Pausing
    <3>6. Wanted # 0
      <4>1. f_decoded + 1 \in 1..Len(f_stream)
        <5>1. f_decoded \in Nat /\ Len(f_stream) \in Nat BY <1>0, LenProperties DEF FilmTyped
        <5> QED BY <3>5, <5>1
      <4>2. Wanted \in Nat \ {0} BY <1>0, <4>1, ElementOfSeq DEF FilmTyped, Wanted
      <4> QED BY <4>2
    <3>7. f_pc' = "poll" \/ f_pc' = "out" \/ f_pc' = "enable"
      BY <1>0, <3>3 DEF FilmTyped, Relaying
    <3>8. /\ One(f_pending' # 0) = 1 /\ One(f_refused') = 0 /\ One(f_paused') = 1
          /\ One(f_pc' \in {"disable", "drain"} \/ (f_pc' = "enable" /\ f_asked' = "enable")) = 0
      BY <1>1, <3>3, <3>4, <3>6, <3>7 DEF One, Relaying
    <3>9. Cardinality(Hits(f_ring', Formats)) + One(f_pending' # 0)
             + One(f_pc' \in {"disable", "drain"} \/ (f_pc' = "enable" /\ f_asked' = "enable")) + One(f_refused') = One(f_paused')
      <4> DEFINE h == Cardinality(Hits(f_ring', Formats))
                 x == One(f_pending' # 0)
                 y == One(f_pc' \in {"disable", "drain"} \/ (f_pc' = "enable" /\ f_asked' = "enable"))
                 z == One(f_refused')
                 w == One(f_paused')
      <4>1. h = 0 /\ x = 1 /\ y = 0 /\ z = 0 /\ w = 1 BY <3>3, <3>8
      <4> HIDE DEF h, x, y, z, w
      <4>2. h + x + y + z = w BY <4>1
      <4> QED BY <4>2 DEF h, x, y, z, w
    <3>10. /\ f_pc' \in {"disable", "drain", "enable"} => f_changed' = Wanted
           /\ f_pc' = "enable" /\ f_asked' = "nothing" => f_layout' = Wanted
           /\ f_pc' = "enable" => ~f_refused'
           /\ f_paused' /\ f_decoded' < Len(f_stream')
      BY <1>1, <3>3, <3>5, <3>7 DEF VideoInv, Pausing
    <3> QED BY <1>1, <2>1, <3>4, <3>9, <3>10 DEF Pausing
  <2> QED BY <2>2, <2>3
<1> QED BY <1>2, <1>3, <1>4, <1>5, <1>6, <1>7, <1>8 DEF VideoInv

LEMMA VideoLook ==
  ASSUME VideoInv, Video!Look \/ Video!DrainLook
  PROVE  VideoInv'
<1>0. FilmTyped BY DEF VideoInv
<1>1. CASE Video!Look /\ f_ring = <<>>
  <2>1. /\ UNCHANGED <<f_stream, f_fed, f_last, f_inputPool, f_outputPool, f_held, f_outputEnabled, f_inFlight, f_format,
                       f_changed, f_refused, f_late, f_returned, f_pending, f_ring, f_bulks, f_asked, f_layout, f_paused,
                       f_parsed, f_decoded, f_firm, f_fill>>
        /\ f_pc = "poll" /\ f_pc' = "out"
    BY <1>1 DEF Video!Look, Video!caller, Video!pools, Video!mmal, Video!wire, Video!firmware, Video!Something, Video!Unknown
  <2>2. FilmTyped' BY <1>0, <2>1 DEF FilmTyped
  <2>3. OnePlace' /\ FilmCounted' /\ InputsKept' /\ RoomLeft' /\ Cleared' /\ LayoutTold' /\ TooSmall'
    BY <2>1 DEF VideoInv, OnePlace, FilmCounted, InputsKept, RoomLeft, Cleared, LayoutTold, TooSmall
  <2>4. Enabled' BY <2>1 DEF VideoInv, Enabled
  <2>5. One(f_asked' = "nothing" /\ f_pc' \in {"disable", "enable"}) = One(f_asked = "nothing" /\ f_pc \in {"disable", "enable"})
    BY <2>1 DEF One
  <2>6. Asking' BY <1>0, <2>1, <2>5 DEF VideoInv, Asking, FilmTyped
  <2>7. Pausing'
    <3>1. Wanted' = Wanted BY <2>1 DEF Wanted
    <3>2. One(f_pc' \in {"disable", "drain"} \/ (f_pc' = "enable" /\ f_asked' = "enable"))
            = One(f_pc \in {"disable", "drain"} \/ (f_pc = "enable" /\ f_asked = "enable"))
      BY <2>1 DEF One
    <3> QED BY <2>1, <3>1, <3>2 DEF VideoInv, Pausing
  <2> QED BY <2>2, <2>3, <2>4, <2>6, <2>7 DEF VideoInv
<1>2. CASE f_ring # <<>> /\ (Video!Look \/ (Video!DrainLook /\ f_pending = 0))
  <2>1. /\ UNCHANGED <<f_stream, f_fed, f_last, f_inputPool, f_outputPool, f_held, f_outputEnabled, f_inFlight, f_format,
                       f_changed, f_refused, f_late, f_layout, f_paused, f_parsed, f_decoded, f_firm, f_fill>>
        /\ f_pc \in {"poll", "drain"} /\ (f_pc' = f_pc \/ (f_pc = "poll" /\ f_pc' = "out")) /\ Video!OnMessage(Head(f_ring))
    <3>1. CASE Video!Look
      BY <1>2, <3>1 DEF Video!Look, Video!caller, Video!pools, Video!firmware
    <3>2. CASE Video!DrainLook /\ f_pending = 0
      BY <1>2, <3>2 DEF Video!DrainLook, Video!Draining, Video!caller, Video!pools, Video!decoder, Video!firmware, Video!Unknown
    <3> QED BY <1>2, <3>1, <3>2
  <2>2. Head(f_ring).kind # "answer" BY <1>2, <2>1, AnswerAwaited
  <2> QED BY <1>2, <2>1, <2>2, VideoLooks
<1>3. CASE Video!DrainLook /\ f_pending # 0
  <2>1. f_pc = "drain" BY <1>3 DEF Video!DrainLook, Video!Draining
  <2> QED BY <1>3, <2>1, Pauses DEF Relaying
<1>4. Video!DrainLook /\ f_pending = 0 => f_ring # <<>> BY DEF Video!DrainLook, Video!Unknown
<1> QED BY <1>1, <1>2, <1>3, <1>4

\* What is away is a finite set, and there is none when none is counted.
LEMMA AwayCount ==
  ASSUME NEW P, NEW H
  PROVE  /\ Cardinality(Away(P, H)) \in Nat /\ IsFiniteSet(Away(P, H)) /\ Away(P, H) \subseteq Outs
         /\ Cardinality(Away(P, H)) = 0 => Away(P, H) = {}
<1>1. IsFiniteSet(Away(P, H)) /\ Away(P, H) \subseteq Outs BY Outputs, FS_Subset DEF Away
<1> QED BY <1>1, FS_CardinalityType, FS_EmptySet

\* What the input buffers are counted by.
LEMMA InputsCounted ==
  ASSUME VideoInv
  PROVE  /\ f_inputPool \in Nat /\ f_fed - f_parsed \in Nat
         /\ Cardinality(Hits(f_returned, {0})) \in Nat /\ Cardinality(Hits(f_ring, InputBack)) \in Nat
         /\ f_inputPool + (f_fed - f_parsed) + Cardinality(Hits(f_returned, {0})) + Cardinality(Hits(f_ring, InputBack)) = Inputs
<1>1. FilmTyped BY DEF VideoInv
<1>2. /\ Len(f_ring) \in Nat /\ DOMAIN f_ring = 1..Len(f_ring)
      /\ Len(f_returned) \in Nat /\ DOMAIN f_returned = 1..Len(f_returned)
  BY <1>1, LenProperties DEF FilmTyped
<1>3. f_fed - f_parsed \in Nat
  <2>1. f_fed \in Nat /\ f_parsed \in Nat /\ f_parsed <= f_fed BY <1>1, LenProperties DEF FilmTyped
  <2> QED BY <2>1
<1> QED BY <1>1, <1>2, <1>3, HitsNat DEF VideoInv, InputsKept, FilmTyped

\* An input buffer is free again.
LEMMA VideoTakesInput ==
  ASSUME VideoInv, Video!TakesInput \/ Video!DrainInput
  PROVE  VideoInv'
<1>0. FilmTyped BY DEF VideoInv
<1>1. /\ UNCHANGED <<f_stream, f_fed, f_last, f_outputPool, f_held, f_pc, f_outputEnabled, f_inFlight, f_format,
                     f_changed, f_refused, f_late, f_pending, f_ring, f_bulks, f_asked, f_layout, f_paused,
                     f_parsed, f_decoded, f_firm, f_fill>>
      /\ f_returned # <<>> /\ Head(f_returned) = 0 /\ f_returned' = Tail(f_returned) /\ f_inputPool' = f_inputPool + 1
  BY DEF Video!TakesInput, Video!DrainInput, Video!TakeInput, Video!caller, Video!decoder, Video!wire, Video!firmware, Video!Input
<1>2. f_returned \in Seq(Outs \cup {0}) /\ Once(f_returned) BY <1>0 DEF VideoInv, OnePlace, Single, FilmTyped
<1>3. /\ f_returned' \in Seq(Outs \cup {0}) /\ Once(f_returned') /\ Bufs(f_returned') = Bufs(f_returned) \ {0}
      /\ Cardinality(Hits(f_returned, {0})) = Cardinality(Hits(f_returned', {0})) + One(0 \in {0})
      /\ Cardinality(Hits(f_returned', {0})) \in Nat
  <2>1. /\ Tail(f_returned) \in Seq(Outs \cup {0}) /\ Once(Tail(f_returned))
        /\ Bufs(Tail(f_returned)) = Bufs(f_returned) \ {Head(f_returned)}
        /\ \A H : Cardinality(Hits(f_returned, H)) = Cardinality(Hits(Tail(f_returned), H)) + One(Head(f_returned) \in H)
        /\ \A H : Cardinality(Hits(Tail(f_returned), H)) \in Nat
    BY <1>1, <1>2, LineShrinks
  <2> QED BY <1>1, <2>1, Zenon
<1>4. Bufs(f_returned') = Bufs(f_returned) BY <1>3 DEF Bufs
<1>5. FilmTyped' BY <1>0, <1>1, <1>3 DEF FilmTyped
<1>6. OnePlace' BY <1>1, <1>3, <1>4 DEF VideoInv, OnePlace, Single
<1>7. FilmCounted' /\ RoomLeft' /\ Cleared' /\ LayoutTold' /\ TooSmall' /\ Enabled'
  BY <1>1 DEF VideoInv, FilmCounted, RoomLeft, Cleared, LayoutTold, TooSmall, Enabled
<1>8. Asking' BY <1>1 DEF VideoInv, Asking
<1>9. Pausing'
  <2>1. Wanted' = Wanted BY <1>1 DEF Wanted
  <2> QED BY <1>1, <2>1 DEF VideoInv, Pausing
<1>10. InputsKept'
  <2> DEFINE a == Cardinality(Hits(f_returned, {0}))
             b == Cardinality(Hits(f_ring, InputBack))
             c == Cardinality(Hits(f_returned', {0}))
             d == f_fed - f_parsed
  <2>1. f_inputPool + d + a + b = Inputs /\ f_inputPool \in Nat /\ a \in Nat /\ b \in Nat /\ d \in Nat BY InputsCounted
  <2>2. a = c + 1 /\ c \in Nat
    <3>1. One(0 \in {0}) = 1 BY DEF One
    <3> QED BY <1>3, <3>1
  <2> HIDE DEF a, b, c, d
  <2>3. (f_inputPool + 1) + d + c + b = Inputs BY <2>1, <2>2
  <2> QED BY <1>1, <2>3 DEF InputsKept, b, c, d
<1> QED BY <1>5, <1>6, <1>7, <1>8, <1>9, <1>10 DEF VideoInv

\* request: the answer has come.
LEMMA VideoAwaits ==
  ASSUME VideoInv, Video!Await
  PROVE  VideoInv'
<1> DEFINE m == Head(f_ring)
<1>0. FilmTyped BY DEF VideoInv
<1>1. /\ UNCHANGED <<f_stream, f_fed, f_last, f_inputPool, f_held, f_changed, f_refused, f_late,
                     f_layout, f_paused, f_parsed, f_decoded, f_fill>>
      /\ f_pc \in {"disable", "enable"} /\ f_ring # <<>> /\ Video!OnMessage(m)
  BY DEF Video!Await, Video!caller
<1>2. CASE m.kind # "answer"
  <2>1. UNCHANGED <<f_pc, f_outputEnabled, f_inFlight, f_format, f_outputPool, f_firm>> BY <1>2 DEF Video!Await
  <2> QED BY <1>1, <1>2, <2>1, VideoLooks
<1>3. CASE m.kind = "answer"
  <2>1. f_asked = "nothing" /\ Cardinality(Hits(f_ring', FilmAnswers)) = 0 BY <1>1, <1>3, AnswerAwaited
  <2>2. /\ m \in Film /\ f_ring' \in Seq(Film) /\ f_returned' \in Seq(Outs \cup {0}) /\ f_bulks' \in Seq(Outs)
        /\ Single(f_outputPool, HeldBufs(f_held), f_firm, f_returned', f_bulks', Brought(f_ring'))
        /\ Cardinality(Hits(f_returned', {0})) + Cardinality(Hits(f_ring', InputBack))
             = Cardinality(Hits(f_returned, {0})) + Cardinality(Hits(f_ring, InputBack))
        /\ Cardinality(Hits(f_ring, Formats)) = Cardinality(Hits(f_ring', Formats)) + One(m.kind = "format")
        /\ Cardinality(Hits(f_ring', Formats)) \in Nat
        /\ f_pending' = IF m.kind = "format" THEN Wanted ELSE f_pending
        /\ \A k \in DOMAIN f_ring' : f_ring'[k].kind = "format" => f_ring'[k].of = Wanted
        /\ f_asked' = f_asked
    BY <1>1, VideoMessage
  <2>3. f_pending' = f_pending /\ Cardinality(Hits(f_ring', Formats)) = Cardinality(Hits(f_ring, Formats))
    <3>1. One(m.kind = "format") = 0 BY <1>3 DEF One
    <3>2. f_pending' = f_pending BY <1>3, <2>2
    <3> QED BY <2>2, <3>1, <3>2
  <2>4. f_firm = {} BY <1>1, <2>1 DEF VideoInv, Enabled
  <2>5. InputsKept'
    <3> DEFINE a == Cardinality(Hits(f_returned, {0}))
               b == Cardinality(Hits(f_ring, InputBack))
               c == Cardinality(Hits(f_returned', {0}))
               d == Cardinality(Hits(f_ring', InputBack))
               e == f_fed - f_parsed
    <3>1. f_inputPool + e + a + b = Inputs /\ f_inputPool \in Nat /\ a \in Nat /\ b \in Nat /\ e \in Nat BY InputsCounted
    <3>2. c + d = a + b BY <2>2
    <3>3. c \in Nat /\ d \in Nat
      <4>1. /\ Len(f_ring') \in Nat /\ DOMAIN f_ring' = 1..Len(f_ring')
            /\ Len(f_returned') \in Nat /\ DOMAIN f_returned' = 1..Len(f_returned')
        BY <2>2, LenProperties
      <4> QED BY <4>1, HitsNat
    <3> HIDE DEF a, b, c, d, e
    <3>4. f_inputPool + e + c + d = Inputs BY <3>1, <3>2, <3>3
    <3> QED BY <1>1, <3>4 DEF InputsKept, c, d, e
  <2>6. Wanted' = Wanted BY <1>1 DEF Wanted
  <2>8. CASE f_pc = "disable"
    <3>1. f_pc' = "drain" /\ f_outputEnabled' = FALSE /\ UNCHANGED <<f_inFlight, f_format, f_outputPool, f_firm>>
      BY <1>3, <2>8 DEF Video!Await
    <3>2. FilmTyped' BY <1>0, <1>1, <2>2, <2>3, <3>1 DEF FilmTyped
    <3>3. OnePlace' BY <1>1, <2>2, <3>1 DEF VideoInv, OnePlace
    <3>4. FilmCounted' /\ Cleared' /\ LayoutTold' /\ TooSmall'
      BY <1>1, <3>1 DEF VideoInv, FilmCounted, Cleared, LayoutTold, TooSmall
    <3>5. RoomLeft' BY <1>1, <2>8, <3>1 DEF VideoInv, RoomLeft
    <3>6. Enabled' BY <1>1, <2>4, <3>1 DEF VideoInv, Enabled
    <3>7. Asking'
      <4>1. One(f_asked' = "nothing" /\ f_pc' \in {"disable", "enable"}) = 0 BY <3>1 DEF One
      <4> QED BY <2>1, <2>2, <4>1 DEF Asking
    <3>8. Pausing'
      <4>1. One(f_pc' \in {"disable", "drain"} \/ (f_pc' = "enable" /\ f_asked' = "enable"))
              = One(f_pc \in {"disable", "drain"} \/ (f_pc = "enable" /\ f_asked = "enable"))
        BY <2>8, <3>1 DEF One
      <4> QED BY <1>1, <2>2, <2>3, <2>6, <2>8, <3>1, <4>1 DEF VideoInv, Pausing
    <3> QED BY <2>5, <3>2, <3>3, <3>4, <3>5, <3>6, <3>7, <3>8 DEF VideoInv
  <2>9. CASE f_pc = "enable"
    <3>1. /\ f_pc' = "poll" /\ f_outputEnabled' = TRUE /\ f_format' = f_changed
          /\ f_outputPool' = {} /\ f_firm' = f_outputPool /\ f_inFlight' = f_inFlight + Cardinality(f_outputPool)
      BY <1>3, <2>4, <2>9, SameCount DEF Video!Await
    <3>2. /\ f_changed = Wanted /\ f_layout = Wanted /\ f_decoded < Len(f_stream) /\ ~f_refused
          /\ ~f_late => f_inFlight = 0
      BY <2>1, <2>9 DEF VideoInv, Pausing, Enabled
    <3> DEFINE H == HeldBufs(f_held)
    <3>3. /\ f_outputPool \subseteq Outs /\ f_outputPool \cap H = {} /\ f_inFlight \in Nat
          /\ f_inFlight <= Cardinality(Outs \ (f_outputPool \cup H))
          /\ ~f_late => f_inFlight = Cardinality(Outs \ (f_outputPool \cup H))
      BY <1>0 DEF VideoInv, FilmCounted, OnePlace, Single, FilmTyped, Away
    <3>4. /\ Cardinality(f_outputPool) \in Nat
          /\ f_inFlight + Cardinality(f_outputPool) <= Cardinality(Outs \ ({} \cup H))
          /\ f_inFlight = Cardinality(Outs \ (f_outputPool \cup H))
               => f_inFlight + Cardinality(f_outputPool) = Cardinality(Outs \ ({} \cup H))
      BY <3>3, Handed
    <3>5. FilmCounted'
      <4>1. HeldBufs(f_held)' = H BY <1>1
      <4> QED BY <1>1, <3>1, <3>3, <3>4, <4>1 DEF FilmCounted, Away
    <3>6. FilmTyped'
      <4>1. f_inFlight' \in Nat BY <3>1, <3>3, <3>4
      <4> QED BY <1>0, <1>1, <2>2, <2>3, <3>1, <4>1 DEF FilmTyped
    <3>7. OnePlace'
      <4>1. HeldBufs(f_held)' = H BY <1>1
      <4>2. Single({}, H, f_outputPool, f_returned', f_bulks', Brought(f_ring')) BY <2>2, <2>4 DEF Single
      <4> QED BY <1>1, <3>1, <4>1, <4>2 DEF VideoInv, OnePlace
    <3>8. Cleared' BY <1>1, <3>1 DEF VideoInv, Cleared
    <3>9. TooSmall' BY <1>1, <3>2 DEF TooSmall
    <3>10. RoomLeft' BY <1>1, <2>9, <3>1 DEF VideoInv, RoomLeft
    <3>11. Enabled' BY <1>1, <3>1, <3>2 DEF VideoInv, Enabled
    <3>12. Asking'
      <4>1. One(f_asked' = "nothing" /\ f_pc' \in {"disable", "enable"}) = 0 BY <3>1 DEF One
      <4> QED BY <2>1, <2>2, <4>1 DEF Asking
    <3>13. LayoutTold'
      <4> SUFFICES ASSUME ~f_late PROVE LayoutTold' BY <1>1 DEF LayoutTold
      <4>c. Away(f_outputPool, f_held) = Outs \ (f_outputPool \cup H) BY DEF Away
      <4>1. Cardinality(Away(f_outputPool, f_held)) = 0 BY <3>2, <3>3, <4>c
      <4>d. Away(f_outputPool, f_held) = {} BY <4>1, AwayCount
      <4>2. Outs \ (f_outputPool \cup H) = {} BY <4>c, <4>d
      <4>3. \A b \in Outs \ H : f_fill[b] = 0 BY <4>2 DEF VideoInv, Cleared
      <4>a. f_fill' = f_fill /\ f_stream' = f_stream /\ f_held' = f_held /\ Len(f_stream) \in Nat /\ f_late' = f_late
        BY <1>0, <1>1, LenProperties DEF FilmTyped
      <4>b. 0 \notin 1..Len(f_stream) BY <4>a
      <4>4. \A b \in Outs \ HeldBufs(f_held') : f_fill'[b] \notin 1..Len(f_stream') BY <4>a, <4>b, <4>3
      <4>5. \A x \in f_held' : f_fill'[x.buffer] \in 1..Len(f_stream') /\ x.format = f_stream'[f_fill'[x.buffer]]
        BY <4>a DEF VideoInv, LayoutTold
      <4> QED BY <4>4, <4>5 DEF LayoutTold
    <3>14. Pausing'
      <4>1. One(f_pc' \in {"disable", "drain"} \/ (f_pc' = "enable" /\ f_asked' = "enable"))
              = One(f_pc \in {"disable", "drain"} \/ (f_pc = "enable" /\ f_asked = "enable"))
        BY <2>1, <2>9, <3>1 DEF One
      <4> QED BY <1>1, <2>2, <2>3, <2>6, <3>1, <3>2, <4>1 DEF VideoInv, Pausing
    <3> QED BY <2>5, <3>5, <3>6, <3>7, <3>8, <3>9, <3>10, <3>11, <3>12, <3>13, <3>14 DEF VideoInv
  <2> QED BY <1>1, <2>8, <2>9
<1> QED BY <1>2, <1>3

LEMMA VideoTimesOut ==
  ASSUME VideoInv, Video!DrainTimesOut
  PROVE  VideoInv'
<1>0. FilmTyped BY DEF VideoInv
<1>1. /\ UNCHANGED <<f_stream, f_fed, f_last, f_inputPool, f_outputPool, f_held, f_pc, f_outputEnabled, f_format,
                     f_changed, f_refused, f_returned, f_pending, f_ring, f_bulks, f_asked, f_layout, f_paused,
                     f_parsed, f_decoded, f_firm, f_fill>>
      /\ f_late' = TRUE /\ f_inFlight' = 0
  BY DEF Video!DrainTimesOut, Video!caller, Video!pools, Video!mmal, Video!wire, Video!firmware
<1>2. FilmTyped' BY <1>0, <1>1 DEF FilmTyped
<1>3. OnePlace' /\ RoomLeft' /\ Cleared' /\ LayoutTold' /\ TooSmall' /\ Asking' /\ InputsKept'
  BY <1>1 DEF VideoInv, OnePlace, RoomLeft, Cleared, LayoutTold, TooSmall, Asking, InputsKept
<1>4. Enabled' BY <1>1 DEF VideoInv, Enabled
<1>5. FilmCounted' BY <1>1, AwayCount DEF FilmCounted
<1>6. Pausing'
  <2>1. Wanted' = Wanted BY <1>1 DEF Wanted
  <2> QED BY <1>1, <2>1 DEF VideoInv, Pausing
<1> QED BY <1>2, <1>3, <1>4, <1>5, <1>6 DEF VideoInv

\* reconfigure_output begins: the port is enabled, for a layout is asked for once at a time.
LEMMA VideoTakesFormat ==
  ASSUME VideoInv, Video!TakesFormat
  PROVE  VideoInv'
<1>0. FilmTyped BY DEF VideoInv
<1>1. /\ UNCHANGED <<f_stream, f_fed, f_last, f_inputPool, f_outputPool, f_held, f_outputEnabled, f_inFlight, f_format,
                     f_refused, f_late, f_returned, f_ring, f_bulks, f_layout, f_paused,
                     f_parsed, f_decoded, f_firm, f_fill>>
      /\ f_pc = "poll" /\ f_pending # 0 /\ f_changed' = f_pending /\ f_pending' = 0
      /\ f_outputEnabled => f_pc' = "disable" /\ f_asked' = "disable"
  BY DEF Video!TakesFormat, Video!caller, Video!pools, Video!firmware, Video!Unknown
<1>2. f_paused /\ Cardinality(Hits(f_ring, Formats)) = 0 /\ ~f_refused BY <1>1, Pauses
<1>3. f_pending = Wanted /\ f_decoded < Len(f_stream) BY <1>1, <1>2 DEF VideoInv, Pausing
<1>4. f_outputEnabled /\ f_asked = "nothing"
  BY <1>0, <1>1, <1>2 DEF VideoInv, Enabled, Asking, FilmTyped
<1>5. f_pc' = "disable" /\ f_asked' = "disable" BY <1>1, <1>4
<1>6. FilmTyped'
  <2>1. f_changed' \in Nat /\ f_pending' \in Nat BY <1>0, <1>1 DEF FilmTyped
  <2> QED BY <1>0, <1>1, <1>5, <2>1 DEF FilmTyped
<1>7. OnePlace' /\ FilmCounted' /\ InputsKept' /\ Cleared' /\ LayoutTold'
  BY <1>1 DEF VideoInv, OnePlace, FilmCounted, InputsKept, Cleared, LayoutTold
<1>8. RoomLeft' BY <1>1 DEF VideoInv, RoomLeft
<1>9. Enabled' BY <1>1, <1>2, <1>4, <1>5 DEF VideoInv, Enabled
<1>10. TooSmall' BY <1>1, <1>2 DEF TooSmall
<1>11. Asking'
  <2>1. /\ One(f_asked = "nothing" /\ f_pc \in {"disable", "enable"}) = 0
        /\ One(f_asked' = "nothing" /\ f_pc' \in {"disable", "enable"}) = 0
    BY <1>1, <1>5 DEF One
  <2> QED BY <1>1, <1>5, <2>1 DEF VideoInv, Asking
<1>12. Pausing'
  <2>1. Wanted' = Wanted BY <1>1 DEF Wanted
  <2> DEFINE h == Cardinality(Hits(f_ring', Formats))
             x == One(f_pending' # 0)
             y == One(f_pc' \in {"disable", "drain"} \/ (f_pc' = "enable" /\ f_asked' = "enable"))
             z == One(f_refused')
             w == One(f_paused')
  <2>2. h = 0 /\ x = 0 /\ y = 1 /\ z = 0 /\ w = 1 BY <1>1, <1>2, <1>5 DEF One
  <2> HIDE DEF h, x, y, z, w
  <2>3. h + x + y + z = w BY <2>2
  <2> QED BY <1>1, <1>2, <1>3, <1>5, <2>1, <2>3 DEF VideoInv, Pausing, h, x, y, z, w
<1> QED BY <1>6, <1>7, <1>8, <1>9, <1>10, <1>11, <1>12 DEF VideoInv

\* The caller holds fewer frames than there are buffers.
LEMMA SomeFree ==
  ASSUME VideoInv, f_pc # "out", Cardinality(Away(f_outputPool, f_held)) = 0
  PROVE  f_outputPool # {}
<1> SUFFICES ASSUME f_outputPool = {} PROVE FALSE OBVIOUS
<1>1. FilmTyped BY DEF VideoInv
<1> DEFINE H == HeldBufs(f_held)
           g == [x \in f_held |-> x.buffer]
<1>2. Outs = H
  <2>1. Away(f_outputPool, f_held) = {} BY AwayCount
  <2>2. Outs \subseteq H BY <2>1 DEF Away
  <2>3. H \subseteq Outs BY <1>1 DEF FilmTyped, HeldBufs
  <2> QED BY <2>2, <2>3
<1>3. g \in Surjection(f_held, H)
  <2>1. g \in [f_held -> H] BY DEF HeldBufs
  <2>2. \A y \in H : \E x \in f_held : g[x] = y BY DEF HeldBufs
  <2> QED BY <2>1, <2>2 DEF Surjection
<1>4. IsFiniteSet(f_held) BY <1>1 DEF FilmTyped
<1>5. Cardinality(H) <= Cardinality(f_held) /\ Cardinality(f_held) \in Nat
  <2> HIDE DEF g, H
  <2> QED BY <1>3, <1>4, FS_Surjection, FS_CardinalityType
<1>6. Cardinality(Outs) = Len(Size)
  <2> DEFINE n == Len(Size)
  <2>1. n \in Nat /\ Outs = 1..n BY Outputs
  <2> HIDE DEF n
  <2>2. Cardinality(1..n) = IF 1 > n THEN 0 ELSE n - 1 + 1 BY <2>1, FS_Interval
  <2>3. Cardinality(1..n) = n BY <2>1, <2>2
  <2> QED BY <2>1, <2>3 DEF n
<1>7. Cardinality(f_held) < MayHold /\ MayHold <= Len(Size) /\ MayHold \in Nat /\ Len(Size) \in Nat
  BY VideoAssumption, Outputs DEF VideoInv, RoomLeft
<1>8. Len(Size) <= Cardinality(f_held) BY <1>2, <1>5, <1>6
<1> QED BY <1>5, <1>7, <1>8

LEMMA SmallestIs ==
  ASSUME FilmTyped, f_outputPool # {}
  PROVE  \E b \in f_outputPool : Video!Smallest = Size[b]
<1> DEFINE T == {Size[b] : b \in f_outputPool}
<1>0. f_outputPool \subseteq Outs BY DEF FilmTyped
<1>1. T \subseteq Nat /\ T # {} BY <1>0, Outputs
<1>2. Video!Smallest = CHOOSE x \in T : \A y \in T : x <= y BY DEF Video!Smallest, Video!Min
<1>3. \E x \in T : \A y \in T : x <= y BY <1>1, Least
<1>4. Video!Smallest \in T
  <2> HIDE DEF T
  <2> QED BY <1>2, <1>3
<1> QED BY <1>4

LEMMA VideoConfigure ==
  ASSUME VideoInv, Video!Configure
  PROVE  VideoInv'
<1>0. FilmTyped BY DEF VideoInv
<1>1. /\ UNCHANGED <<f_stream, f_fed, f_last, f_inputPool, f_outputPool, f_held, f_outputEnabled, f_inFlight, f_format,
                     f_changed, f_late, f_returned, f_pending, f_ring, f_bulks, f_layout, f_paused,
                     f_parsed, f_decoded, f_firm, f_fill>>
      /\ f_pc = "drain" /\ f_inFlight = 0
      /\ \/ Video!Smallest < f_changed /\ f_pc' = "out" /\ f_refused' = TRUE /\ f_asked' = f_asked
         \/ f_pc' = "enable" /\ f_asked' = "enable" /\ f_refused' = f_refused
  BY DEF Video!Configure, Video!caller, Video!pools, Video!mmal, Video!firmware
<1>2. /\ f_paused /\ Cardinality(Hits(f_ring, Formats)) = 0 /\ ~f_refused /\ f_pending = 0
      /\ f_changed = Wanted /\ f_decoded < Len(f_stream)
  <2>1. f_paused /\ Cardinality(Hits(f_ring, Formats)) = 0 /\ ~f_refused /\ f_pending = 0 BY <1>1, Pauses DEF Relaying
  <2> QED BY <1>1, <2>1 DEF VideoInv, Pausing
<1>3. f_asked = "nothing" /\ ~f_outputEnabled /\ f_firm = {}
  BY <1>0, <1>1 DEF VideoInv, Enabled, Asking, FilmTyped
<1>4. FilmTyped' BY <1>0, <1>1 DEF FilmTyped
<1>5. OnePlace' /\ FilmCounted' /\ InputsKept' /\ Cleared' /\ LayoutTold'
  BY <1>1 DEF VideoInv, OnePlace, FilmCounted, InputsKept, Cleared, LayoutTold
<1>6. RoomLeft' BY <1>1 DEF VideoInv, RoomLeft
<1>7. Enabled' BY <1>1, <1>2, <1>3 DEF Enabled
<1>8. Asking'
  <2>1. /\ One(f_asked = "nothing" /\ f_pc \in {"disable", "enable"}) = 0
        /\ One(f_asked' = "nothing" /\ f_pc' \in {"disable", "enable"}) = 0
    BY <1>1, <1>3 DEF One
  <2> QED BY <1>1, <1>3, <2>1 DEF VideoInv, Asking
<1>9. Pausing'
  <2>1. Wanted' = Wanted BY <1>1 DEF Wanted
  <2> DEFINE h == Cardinality(Hits(f_ring', Formats))
             x == One(f_pending' # 0)
             y == One(f_pc' \in {"disable", "drain"} \/ (f_pc' = "enable" /\ f_asked' = "enable"))
             z == One(f_refused')
             w == One(f_paused')
  <2>2. h = 0 /\ x = 0 /\ w = 1 BY <1>1, <1>2 DEF One
  <2>3. (y = 0 /\ z = 1) \/ (y = 1 /\ z = 0) BY <1>1, <1>2 DEF One
  <2> HIDE DEF h, x, y, z, w
  <2>4. h + x + y + z = w BY <2>2, <2>3
  <2>5. \A k \in DOMAIN f_ring' : f_ring'[k].kind = "format" => f_ring'[k].of = Wanted' BY <1>1, <2>1 DEF VideoInv, Pausing
  <2>6. /\ f_decoded' < Len(f_stream') /\ f_pending' = 0 /\ f_changed' = Wanted'
        /\ f_paused' /\ (f_pc' = "enable" => ~f_refused' /\ f_asked' # "nothing")
    BY <1>1, <1>2, <2>1
  <2> QED BY <2>4, <2>5, <2>6 DEF Pausing, h, x, y, z, w
<1>10. TooSmall'
  <2> SUFFICES ASSUME f_refused', ~f_late PROVE \E b \in Outs : Size[b] < f_changed BY <1>1 DEF TooSmall
  <2>1. Video!Smallest < f_changed BY <1>1, <1>2
  <2>2. Cardinality(Away(f_outputPool, f_held)) = 0 BY <1>1 DEF VideoInv, FilmCounted
  <2>3. f_outputPool # {} BY <1>1, <2>2, SomeFree
  <2>4. PICK b \in f_outputPool : Video!Smallest = Size[b] BY <1>0, <2>3, SmallestIs
  <2> QED BY <1>0, <2>1, <2>4 DEF FilmTyped
<1> QED BY <1>4, <1>5, <1>6, <1>7, <1>8, <1>9, <1>10 DEF VideoInv

\* refill_output with one buffer more, with n away and H with the caller.
LEMMA Refilled ==
  ASSUME VideoInv, NEW b \in Outs, NEW P, P = f_outputPool \cup {b}, NEW H, P \cap H = {}, f_firm \cap P = {},
         NEW n \in Nat, n <= Cardinality(Outs \ (P \cup H)), ~f_late => n = Cardinality(Outs \ (P \cup H)),
         Video!Refill(P, n)
  PROVE  /\ f_inFlight' \in Nat /\ f_inFlight' <= Cardinality(Outs \ (f_outputPool' \cup H))
         /\ ~f_late => f_inFlight' = Cardinality(Outs \ (f_outputPool' \cup H))
         /\ f_outputPool' \cup f_firm' = P \cup f_firm /\ f_outputPool' \cap f_firm' = {}
         /\ ~f_outputEnabled => f_firm' = f_firm
<1>0. P \subseteq Outs BY DEF VideoInv, FilmTyped
<1>1. CASE Video!Open
  <2>1. f_outputPool' = {} /\ f_firm' = f_firm \cup P /\ f_inFlight' = n + Cardinality(P)
    BY <1>1, SameCount DEF Video!Refill
  <2>2. /\ Cardinality(P) \in Nat /\ n + Cardinality(P) <= Cardinality(Outs \ ({} \cup H))
        /\ n = Cardinality(Outs \ (P \cup H)) => n + Cardinality(P) = Cardinality(Outs \ ({} \cup H))
    BY <1>0, Handed
  <2>3. f_outputEnabled BY <1>1 DEF Video!Open
  <2>4. n + Cardinality(P) \in Nat BY <2>2
  <2> QED BY <2>1, <2>2, <2>3, <2>4
<1>2. CASE ~Video!Open
  <2>1. f_outputPool' = P /\ f_inFlight' = n /\ f_firm' = f_firm BY <1>2 DEF Video!Refill
  <2> QED BY <2>1
<1> QED BY <1>1, <1>2

\* A buffer, from the caller or from the firmware, is free again and holds nothing.
LEMMA VideoFrees ==
  ASSUME VideoInv, NEW b \in Outs, b \notin f_outputPool, b \notin f_firm, b \notin Bufs(f_bulks), b \notin Bufs(Brought(f_ring)),
         f_held' \subseteq f_held, HeldBufs(f_held') = HeldBufs(f_held) \ {b}, f_held' = f_held \/ f_pc = "out",
         f_returned' \in Seq(Outs \cup {0}), Once(f_returned'), Bufs(f_returned') = Bufs(f_returned) \ {b},
         Cardinality(Hits(f_returned', {0})) = Cardinality(Hits(f_returned, {0})),
         f_fill' = [f_fill EXCEPT ![b] = 0], f_pc \in {"out", "poll", "drain"},
         NEW n \in Nat, n <= Cardinality(Outs \ ((f_outputPool \cup {b}) \cup HeldBufs(f_held'))),
         ~f_late => n = Cardinality(Outs \ ((f_outputPool \cup {b}) \cup HeldBufs(f_held'))),
         Video!Refill(f_outputPool \cup {b}, n),
         UNCHANGED <<f_stream, f_fed, f_last, f_inputPool, f_pc, f_outputEnabled, f_format, f_changed, f_refused, f_late,
                     f_pending, f_ring, f_bulks, f_asked, f_layout, f_paused, f_parsed, f_decoded>>
  PROVE  VideoInv'
<1> DEFINE H == HeldBufs(f_held')
           P == f_outputPool \cup {b}
<1>0. FilmTyped BY DEF VideoInv
<1>1. /\ Once(f_bulks) /\ Once(Brought(f_ring))
      /\ f_outputPool \cap HeldBufs(f_held) = {} /\ f_firm \cap (f_outputPool \cup HeldBufs(f_held)) = {}
      /\ Bufs(f_returned) \cap (f_outputPool \cup HeldBufs(f_held) \cup f_firm) = {}
      /\ Bufs(f_bulks) \cap (f_outputPool \cup HeldBufs(f_held) \cup f_firm \cup Bufs(f_returned)) = {}
      /\ Bufs(Brought(f_ring))
           \cap (f_outputPool \cup HeldBufs(f_held) \cup f_firm \cup Bufs(f_returned) \cup Bufs(f_bulks)) = {}
  BY DEF VideoInv, OnePlace, Single
<1>2. P = f_outputPool \cup {b} /\ P \cap H = {} /\ f_firm \cap P = {} BY <1>1
<1>3. /\ f_inFlight' \in Nat /\ f_inFlight' <= Cardinality(Outs \ (f_outputPool' \cup H))
      /\ ~f_late => f_inFlight' = Cardinality(Outs \ (f_outputPool' \cup H))
      /\ f_outputPool' \cup f_firm' = P \cup f_firm /\ f_outputPool' \cap f_firm' = {}
      /\ ~f_outputEnabled => f_firm' = f_firm
  <2> HIDE DEF P, H
  <2>1. /\ n <= Cardinality(Outs \ (P \cup H)) /\ (~f_late => n = Cardinality(Outs \ (P \cup H)))
        /\ Video!Refill(P, n)
    BY DEF P, H
  <2> QED BY <1>2, <2>1, Refilled
<1>4. /\ H \subseteq HeldBufs(f_held) /\ b \notin H /\ HeldBufs(f_held') = H
      /\ f_outputPool' \subseteq f_outputPool \cup f_firm \cup {b} /\ f_firm' \subseteq f_outputPool \cup f_firm \cup {b}
  BY <1>3
<1>5. \A x \in Outs : f_fill'[x] = IF x = b THEN 0 ELSE f_fill[x] BY <1>0 DEF FilmTyped
<1>6. FilmTyped'
  <2>1. f_outputPool' \subseteq Outs /\ f_firm' \subseteq Outs BY <1>0, <1>4 DEF FilmTyped
  <2>2. f_fill' \in [Outs -> 0..(Len(f_stream) + 1)]
    <3>1. 0 \in 0..(Len(f_stream) + 1) BY <1>0, LenProperties DEF FilmTyped
    <3> QED BY <1>0, <3>1 DEF FilmTyped
  <2>3. f_held' \subseteq [buffer : Outs, format : Nat] /\ IsFiniteSet(f_held') BY <1>0, FS_Subset DEF FilmTyped
  <2> QED BY <1>0, <1>3, <2>1, <2>2, <2>3 DEF FilmTyped
<1>7. OnePlace'
  <2>1. \A x, y \in f_held' : x.buffer = y.buffer => x = y BY DEF VideoInv, OnePlace
  <2>2. Single(f_outputPool', H, f_firm', f_returned', f_bulks, Brought(f_ring)) BY <1>1, <1>3, <1>4 DEF Single
  <2> QED BY <1>4, <2>1, <2>2 DEF OnePlace
<1>8. FilmCounted' BY <1>3, <1>4 DEF FilmCounted, Away
<1>9. InputsKept' BY DEF VideoInv, InputsKept
<1>10. RoomLeft' BY DEF VideoInv, RoomLeft
<1>11. Cleared'
  <2>1. \A x \in f_outputPool \cup f_firm \cup {b} : x \in Outs /\ (x # b => f_fill[x] = 0) BY <1>0 DEF VideoInv, Cleared, FilmTyped
  <2> QED BY <1>4, <1>5, <2>1 DEF Cleared
<1>12. LayoutTold'
  <2> SUFFICES ASSUME ~f_late PROVE LayoutTold' BY DEF LayoutTold
  <2>1. /\ \A x \in f_held : f_fill[x.buffer] \in 1..Len(f_stream) /\ x.format = f_stream[f_fill[x.buffer]]
        /\ \A y \in Outs \ HeldBufs(f_held) : f_fill[y] \in 1..Len(f_stream) => f_format = f_stream[f_fill[y]]
    BY DEF VideoInv, LayoutTold
  <2>2. \A x \in f_held' : x.buffer # b /\ x.buffer \in Outs /\ x \in f_held BY <1>0, <1>4 DEF FilmTyped, HeldBufs
  <2>3. \A x \in f_held' : f_fill'[x.buffer] \in 1..Len(f_stream) /\ x.format = f_stream[f_fill'[x.buffer]]
    BY <1>5, <2>1, <2>2
  <2>4. \A y \in Outs \ HeldBufs(f_held') : f_fill'[y] \in 1..Len(f_stream) => f_format = f_stream[f_fill'[y]]
    <3>1. 0 \notin 1..Len(f_stream) BY <1>0, LenProperties DEF FilmTyped
    <3> QED BY <1>5, <2>1, <3>1
  <2> QED BY <2>3, <2>4 DEF LayoutTold
<1>13. Asking' BY DEF VideoInv, Asking
<1>14. Enabled' BY <1>3 DEF VideoInv, Enabled
<1>15. TooSmall' BY DEF VideoInv, TooSmall
<1>16. Pausing'
  <2>1. Wanted' = Wanted BY DEF Wanted
  <2> QED BY <2>1 DEF VideoInv, Pausing
<1> QED BY <1>6, <1>7, <1>8, <1>9, <1>10, <1>11, <1>12, <1>13, <1>14, <1>15, <1>16 DEF VideoInv

LEMMA VideoRecycle ==
  ASSUME VideoInv, NEW f \in f_held, Video!Recycle(f)
  PROVE  VideoInv'
<1> DEFINE b == f.buffer
<1>0. FilmTyped BY DEF VideoInv
<1>1. /\ UNCHANGED <<f_stream, f_fed, f_last, f_inputPool, f_pc, f_outputEnabled, f_format, f_changed, f_refused, f_late,
                     f_returned, f_pending, f_ring, f_bulks, f_asked, f_layout, f_paused, f_parsed, f_decoded>>
      /\ f_pc = "out" /\ f_held' = f_held \ {f} /\ f_fill' = [f_fill EXCEPT ![b] = 0]
      /\ Video!Refill(f_outputPool \cup {b}, f_inFlight)
  BY DEF Video!Recycle, Video!caller, Video!mmal, Video!wire
<1>2. b \in Outs /\ b \in HeldBufs(f_held) /\ b # 0 BY <1>0, Outputs DEF FilmTyped, HeldBufs
<1>3. /\ b \notin f_outputPool /\ b \notin f_firm /\ b \notin Bufs(f_bulks) /\ b \notin Bufs(Brought(f_ring))
      /\ b \notin Bufs(f_returned) /\ Once(f_returned)
  BY <1>2 DEF VideoInv, OnePlace, Single
<1>4. HeldBufs(f_held') = HeldBufs(f_held) \ {b}
  <2>1. \A x, y \in f_held : x.buffer = y.buffer => x = y BY DEF VideoInv, OnePlace
  <2> QED BY <1>1, <2>1 DEF HeldBufs
<1>5. (f_outputPool \cup {b}) \cup HeldBufs(f_held') = f_outputPool \cup HeldBufs(f_held) BY <1>2, <1>4
<1>6. /\ f_inFlight \in Nat /\ f_inFlight <= Cardinality(Outs \ ((f_outputPool \cup {b}) \cup HeldBufs(f_held')))
      /\ ~f_late => f_inFlight = Cardinality(Outs \ ((f_outputPool \cup {b}) \cup HeldBufs(f_held')))
  BY <1>0, <1>5 DEF VideoInv, FilmCounted, Away, FilmTyped
<1>7. /\ f_returned' \in Seq(Outs \cup {0}) /\ Once(f_returned') /\ Bufs(f_returned') = Bufs(f_returned) \ {b}
      /\ Cardinality(Hits(f_returned', {0})) = Cardinality(Hits(f_returned, {0}))
  BY <1>0, <1>1, <1>3 DEF FilmTyped
<1>8. f_held' \subseteq f_held BY <1>1
<1> HIDE DEF b
<1> QED BY <1>1, <1>2, <1>3, <1>4, <1>6, <1>7, <1>8, VideoFrees

LEMMA VideoTakesOutput ==
  ASSUME VideoInv, Video!TakesOutput \/ Video!DrainOutput
  PROVE  VideoInv'
<1> DEFINE b == Head(f_returned)
           k == IF f_inFlight = 0 THEN 0 ELSE f_inFlight - 1
           Frame == Video!TakesOutput /\ f_fill[b] \in 1..Len(f_stream) /\ f_format # 0
<1>0. FilmTyped BY DEF VideoInv
<1>1. /\ UNCHANGED <<f_stream, f_fed, f_inputPool, f_outputEnabled, f_format, f_changed, f_refused, f_late,
                     f_pending, f_ring, f_bulks, f_asked, f_layout, f_paused, f_parsed, f_decoded>>
      /\ f_returned # <<>> /\ b # 0 /\ f_returned' = Tail(f_returned)
      /\ f_pc \in {"poll", "drain"}
  BY DEF Video!TakesOutput, Video!DrainOutput, Video!Draining, Video!caller, Video!wire, Video!Input
<1>2. f_returned \in Seq(Outs \cup {0}) /\ Once(f_returned) BY <1>0 DEF VideoInv, OnePlace, Single, FilmTyped
<1>3. /\ f_returned' \in Seq(Outs \cup {0}) /\ Once(f_returned') /\ Bufs(f_returned') = Bufs(f_returned) \ {b}
      /\ b \in Bufs(f_returned) /\ b \in Outs
      /\ Cardinality(Hits(f_returned', {0})) = Cardinality(Hits(f_returned, {0}))
  <2>1. /\ Tail(f_returned) \in Seq(Outs \cup {0}) /\ Once(Tail(f_returned))
        /\ Bufs(Tail(f_returned)) = Bufs(f_returned) \ {b} /\ b \in Outs \cup {0} /\ (b # 0 => b \in Bufs(f_returned))
        /\ \A H : Cardinality(Hits(f_returned, H)) = Cardinality(Hits(Tail(f_returned), H)) + One(b \in H)
        /\ \A H : Cardinality(Hits(Tail(f_returned), H)) \in Nat
    BY <1>1, <1>2, LineShrinks
  <2>2. /\ Cardinality(Hits(f_returned, {0})) = Cardinality(Hits(f_returned', {0})) + One(b \in {0})
        /\ Cardinality(Hits(f_returned', {0})) \in Nat
    BY <1>1, <2>1, Zenon
  <2>3. One(b \in {0}) = 0 BY <1>1 DEF One
  <2> QED BY <1>1, <2>1, <2>2, <2>3
<1>4. /\ b \notin f_outputPool /\ b \notin f_firm /\ b \notin Bufs(f_bulks) /\ b \notin Bufs(Brought(f_ring))
      /\ b \notin HeldBufs(f_held)
  BY <1>3 DEF VideoInv, OnePlace, Single
<1> DEFINE A == Away(f_outputPool, f_held)
<1>5. /\ b \in A /\ A \subseteq Outs /\ f_inFlight \in Nat /\ f_inFlight <= Cardinality(A)
      /\ ~f_late => f_inFlight = Cardinality(A)
      /\ A \ {b} = Outs \ ((f_outputPool \cup {b}) \cup HeldBufs(f_held))
      /\ A \ {b} = Outs \ (f_outputPool \cup (HeldBufs(f_held) \cup {b}))
  BY <1>0, <1>3, <1>4 DEF VideoInv, FilmCounted, Away, FilmTyped
<1>6. k \in Nat /\ k <= Cardinality(A \ {b}) /\ (~f_late => k = Cardinality(A \ {b}))
  <2> HIDE DEF A, b
  <2>1. k = IF f_inFlight = 0 THEN 0 ELSE f_inFlight - 1 OBVIOUS
  <2> HIDE DEF k
  <2> QED BY <1>5, <2>1, Landed
<1>7. k = Video!LessOne BY DEF Video!LessOne
<1>8. CASE ~Frame
  <2>1. /\ UNCHANGED <<f_last, f_pc, f_held>> /\ f_fill' = [f_fill EXCEPT ![b] = 0] /\ Video!Refill(f_outputPool \cup {b}, k)
    <3>1. CASE Video!TakesOutput
      BY <1>7, <1>8, <3>1 DEF Video!TakesOutput, Video!Unknown
    <3>2. CASE Video!DrainOutput
      <4>1. ~Video!Open BY <3>2 DEF VideoInv, Enabled, Video!Open, Video!DrainOutput, Video!Draining
      <4> QED BY <1>7, <3>2, <4>1 DEF Video!DrainOutput, Video!Refill, Video!caller
    <3> QED BY <3>1, <3>2
  <2>2. f_held' \subseteq f_held /\ HeldBufs(f_held') = HeldBufs(f_held) \ {b} BY <1>4, <2>1
  <2>3. /\ k <= Cardinality(Outs \ ((f_outputPool \cup {b}) \cup HeldBufs(f_held')))
        /\ ~f_late => k = Cardinality(Outs \ ((f_outputPool \cup {b}) \cup HeldBufs(f_held')))
    BY <1>5, <1>6, <2>1
  <2> HIDE DEF b, k
  <2>4. f_pc \in {"out", "poll", "drain"} BY <1>1
  <2> QED BY <1>1, <1>3, <1>4, <1>6, <2>1, <2>2, <2>3, <2>4, VideoFrees
<1>9. CASE Frame
  <2> DEFINE x == [buffer |-> b, format |-> f_format]
  <2>1. /\ f_held' = f_held \cup {x} /\ f_last' = f_fill[b] /\ f_pc' = "out" /\ f_inFlight' = k
        /\ UNCHANGED <<f_outputPool, f_firm, f_fill>> /\ f_pc = "poll"
    BY <1>7, <1>9 DEF Video!TakesOutput, Video!Unknown
  <2>2. HeldBufs(f_held') = HeldBufs(f_held) \cup {b}
    <3>1. x.buffer = b OBVIOUS
    <3> HIDE DEF x, b
    <3>2. HeldBufs(f_held \cup {x}) = HeldBufs(f_held) \cup {x.buffer} BY DEF HeldBufs
    <3> QED BY <2>1, <3>1, <3>2
  <2>3. x \in [buffer : Outs, format : Nat] /\ x.buffer = b /\ x.format = f_format BY <1>0, <1>3 DEF FilmTyped
  <2>4. FilmTyped'
    <3>1. f_held' \subseteq [buffer : Outs, format : Nat] /\ IsFiniteSet(f_held')
      <4>1. IsFiniteSet(f_held) /\ f_held \subseteq [buffer : Outs, format : Nat] BY <1>0 DEF FilmTyped
      <4> HIDE DEF x
      <4> QED BY <2>1, <2>3, <4>1, FS_AddElement
    <3>2. f_last' \in 0..Len(f_stream)
      <4>1. Len(f_stream) \in Nat BY <1>0, LenProperties DEF FilmTyped
      <4> QED BY <1>9, <2>1, <4>1
    <3> QED BY <1>0, <1>1, <1>3, <1>6, <2>1, <3>1, <3>2 DEF FilmTyped
  <2>5. OnePlace'
    <3>1. /\ Once(f_bulks) /\ Once(Brought(f_ring))
          /\ f_outputPool \cap HeldBufs(f_held) = {} /\ f_firm \cap (f_outputPool \cup HeldBufs(f_held)) = {}
          /\ Bufs(f_returned) \cap (f_outputPool \cup HeldBufs(f_held) \cup f_firm) = {}
          /\ Bufs(f_bulks) \cap (f_outputPool \cup HeldBufs(f_held) \cup f_firm \cup Bufs(f_returned)) = {}
          /\ Bufs(Brought(f_ring))
               \cap (f_outputPool \cup HeldBufs(f_held) \cup f_firm \cup Bufs(f_returned) \cup Bufs(f_bulks)) = {}
      BY DEF VideoInv, OnePlace, Single
    <3>2. Single(f_outputPool, HeldBufs(f_held) \cup {b}, f_firm, f_returned', f_bulks, Brought(f_ring))
      <4> HIDE DEF b
      <4> QED BY <1>3, <1>4, <3>1 DEF Single
    <3>3. \A y \in f_held : y.buffer # b BY <1>4 DEF HeldBufs
    <3>4. \A y, z \in f_held : y.buffer = z.buffer => y = z BY DEF VideoInv, OnePlace
    <3>5. \A y, z \in f_held \cup {x} : y.buffer = z.buffer => y = z
      <4> HIDE DEF x
      <4> QED BY <2>3, <3>3, <3>4
    <3> QED BY <1>1, <2>1, <2>2, <3>2, <3>5 DEF OnePlace
  <2>6. FilmCounted'
    <3>1. Away(f_outputPool', f_held') = A \ {b} BY <1>5, <2>1, <2>2 DEF Away
    <3> QED BY <1>1, <1>6, <2>1, <3>1 DEF FilmCounted
  <2>7. InputsKept' BY <1>1, <1>3 DEF VideoInv, InputsKept
  <2>8. RoomLeft' BY <2>1 DEF RoomLeft
  <2>9. Cleared' /\ TooSmall' BY <1>1, <2>1 DEF VideoInv, Cleared, TooSmall
  <2>10. LayoutTold'
    <3> SUFFICES ASSUME ~f_late PROVE LayoutTold' BY <1>1 DEF LayoutTold
    <3>1. /\ \A y \in f_held : f_fill[y.buffer] \in 1..Len(f_stream) /\ y.format = f_stream[f_fill[y.buffer]]
          /\ \A y \in Outs \ HeldBufs(f_held) : f_fill[y] \in 1..Len(f_stream) => f_format = f_stream[f_fill[y]]
      BY DEF VideoInv, LayoutTold
    <3>2. f_fill[x.buffer] \in 1..Len(f_stream) /\ x.format = f_stream[f_fill[x.buffer]] BY <1>3, <1>4, <1>9, <2>3, <3>1
    <3>3. \A y \in f_held \cup {x} : f_fill[y.buffer] \in 1..Len(f_stream) /\ y.format = f_stream[f_fill[y.buffer]]
      <4> HIDE DEF x
      <4> QED BY <3>1, <3>2
    <3>4. \A y \in Outs \ HeldBufs(f_held') : f_fill[y] \in 1..Len(f_stream) => f_format = f_stream[f_fill[y]]
      BY <2>2, <3>1
    <3> QED BY <1>1, <2>1, <3>3, <3>4 DEF LayoutTold
  <2>11. Enabled' BY <1>1, <2>1 DEF VideoInv, Enabled
  <2>12. Asking'
    <3>1. One(f_asked' = "nothing" /\ f_pc' \in {"disable", "enable"}) = One(f_asked = "nothing" /\ f_pc \in {"disable", "enable"})
      BY <1>1, <2>1 DEF One
    <3> QED BY <1>0, <1>1, <2>1, <3>1 DEF VideoInv, Asking, FilmTyped
  <2>13. Pausing'
    <3>1. Wanted' = Wanted BY <1>1 DEF Wanted
    <3>2. One(f_pc' \in {"disable", "drain"} \/ (f_pc' = "enable" /\ f_asked' = "enable"))
            = One(f_pc \in {"disable", "drain"} \/ (f_pc = "enable" /\ f_asked = "enable"))
      BY <2>1 DEF One
    <3> QED BY <1>1, <2>1, <3>1, <3>2 DEF VideoInv, Pausing
  <2> QED BY <2>4, <2>5, <2>6, <2>7, <2>8, <2>9, <2>10, <2>11, <2>12, <2>13 DEF VideoInv
<1> QED BY <1>8, <1>9

LEMMA VideoInit ==
  ASSUME Video!Init
  PROVE  VideoInv
<1>1. /\ f_stream \in Streams /\ f_fed = 0 /\ f_last = 0 /\ f_inputPool = Inputs /\ f_outputPool = Outs /\ f_held = {}
      /\ f_pc = "out" /\ f_outputEnabled = TRUE /\ f_inFlight = 0 /\ f_format = 0
      /\ f_changed = 0 /\ f_refused = FALSE /\ f_late = FALSE
      /\ f_returned = <<>> /\ f_pending = 0 /\ f_ring = <<>> /\ f_bulks = <<>> /\ f_asked = "nothing"
      /\ f_layout = 0 /\ f_paused = FALSE /\ f_parsed = 0 /\ f_decoded = 0
      /\ f_firm = {} /\ f_fill = [b \in Outs |-> 0]
  BY DEF Video!Init, Video!Outputs, Video!Unknown, Outs
<1>2. f_stream \in Seq(Nat \ {0}) /\ Len(f_stream) \in Nat BY <1>1, VideoAssumption, LenProperties
<1>3. FilmTyped
  <2>1. 0 \in 0..(Len(f_stream) + 1) /\ 0 \in 0..Len(f_stream) BY <1>2
  <2>2. f_fill \in [Outs -> 0..(Len(f_stream) + 1)] BY <1>1, <2>1
  <2>3. IsFiniteSet(f_held) BY <1>1, FS_EmptySet
  <2>4. f_returned \in Seq(Outs \cup {0}) /\ f_bulks \in Seq(Outs) /\ f_ring \in Seq(Film) BY <1>1
  <2>5. /\ f_fed \in 0..(Len(f_stream) + 1) /\ f_last \in 0..Len(f_stream) /\ f_parsed \in 0..f_fed /\ f_decoded \in 0..f_parsed
        /\ f_inputPool \in Nat /\ f_outputPool \subseteq Outs /\ f_firm \subseteq Outs
        /\ f_held \subseteq [buffer : Outs, format : Nat]
    BY <1>1, <2>1, VideoAssumption
  <2>6. /\ f_pc \in {"out", "poll", "disable", "drain", "enable"} /\ f_asked \in {"nothing", "disable", "enable"}
        /\ f_inFlight \in Nat /\ f_format \in Nat /\ f_changed \in Nat /\ f_pending \in Nat /\ f_layout \in Nat
        /\ f_outputEnabled \in BOOLEAN /\ f_refused \in BOOLEAN /\ f_late \in BOOLEAN /\ f_paused \in BOOLEAN
    BY <1>1
  <2> QED BY <1>2, <2>2, <2>3, <2>4, <2>5, <2>6 DEF FilmTyped
<1>4. HeldBufs(f_held) = {} BY <1>1 DEF HeldBufs
<1>5. DOMAIN f_ring = {} /\ DOMAIN f_returned = {} /\ DOMAIN f_bulks = {} BY <1>1
<1>6. Brought(f_ring) = [k \in {} |-> Brings(f_ring[k])] BY <1>5 DEF Brought
<1>7. /\ Bufs(Brought(f_ring)) = {} /\ Bufs(f_returned) = {} /\ Bufs(f_bulks) = {}
      /\ Once(Brought(f_ring)) /\ Once(f_returned) /\ Once(f_bulks)
  BY <1>5, <1>6 DEF Bufs, Once
<1>8. OnePlace
  <2>1. Single(f_outputPool, {}, {}, f_returned, f_bulks, Brought(f_ring)) BY <1>7 DEF Single
  <2>2. \A x, y \in f_held : x.buffer = y.buffer => x = y BY <1>1
  <2> QED BY <1>1, <1>4, <2>1, <2>2 DEF OnePlace
<1>9. FilmCounted
  <2>1. Away(f_outputPool, f_held) = {} BY <1>1, <1>4 DEF Away
  <2> QED BY <1>1, <2>1, FS_EmptySet DEF FilmCounted
<1>10. /\ Hits(f_returned, {0}) = {} /\ Hits(f_ring, InputBack) = {} /\ Hits(f_ring, FilmAnswers) = {} /\ Hits(f_ring, Formats) = {}
  BY <1>5 DEF Hits
<1>11. Cardinality({}) = 0 BY FS_EmptySet
<1>12. InputsKept
  <2>1. Inputs + (0 - 0) + 0 + 0 = Inputs BY VideoAssumption
  <2> QED BY <1>1, <1>10, <1>11, <2>1 DEF InputsKept
<1>13. RoomLeft BY <1>1 DEF RoomLeft
<1>14. Cleared BY <1>1 DEF Cleared
<1>15. LayoutTold
  <2>1. \A b \in Outs : f_fill[b] = 0 BY <1>1
  <2>2. 0 \notin 1..Len(f_stream) BY <1>2
  <2> QED BY <1>1, <2>1, <2>2 DEF LayoutTold
<1>16. Asking BY <1>1, <1>10, <1>11 DEF Asking, One
<1>17. Pausing
  <2>1. \A k \in DOMAIN f_ring : f_ring[k].kind = "format" => f_ring[k].of = Wanted BY <1>5
  <2>2. /\ One(f_pending # 0) = 0 /\ One(f_refused) = 0 /\ One(f_paused) = 0
        /\ One(f_pc \in {"disable", "drain"} \/ (f_pc = "enable" /\ f_asked = "enable")) = 0
    BY <1>1 DEF One
  <2>3. Cardinality(Hits(f_ring, Formats)) = 0 BY <1>10, <1>11
  <2>4. /\ ~f_paused /\ f_pc = "out" /\ f_pending = 0 /\ f_layout = f_format /\ ~f_refused BY <1>1
  <2> HIDE DEF Wanted
  <2>5. 0 + 0 + 0 + 0 = 0 OBVIOUS
  <2> QED BY <2>1, <2>2, <2>3, <2>4, <2>5 DEF Pausing
<1>18. Enabled BY <1>1 DEF Enabled
<1>19. TooSmall BY <1>1 DEF TooSmall
<1> QED BY <1>3, <1>8, <1>9, <1>12, <1>13, <1>14, <1>15, <1>16, <1>17, <1>18, <1>19 DEF VideoInv

LEMMA VideoStep ==
  ASSUME VideoInv, [Video!Next]_fVars
  PROVE  VideoInv'
<1>1. CASE Video!Next
  <2>1. CASE Video!Feed \/ Video!Poll BY <2>1, VideoCaller
  <2>2. CASE \E f \in f_held : Video!Recycle(f) BY <2>2, VideoRecycle
  <2>3. CASE Video!Look \/ Video!DrainLook BY <2>3, VideoLook
  <2>4. CASE Video!TakesInput \/ Video!DrainInput BY <2>4, VideoTakesInput
  <2>5. CASE Video!TakesOutput \/ Video!DrainOutput BY <2>5, VideoTakesOutput
  <2>6. CASE Video!TakesFormat BY <2>6, VideoTakesFormat
  <2>7. CASE Video!Await BY <2>7, VideoAwaits
  <2>8. CASE Video!Configure BY <2>8, VideoConfigure
  <2>9. CASE Video!DrainTimesOut BY <2>9, VideoTimesOut
  <2>10. CASE Video!Parse \/ Video!Announce BY <2>10, VideoWrites
  <2>11. CASE \E b \in Outs : Video!Decode(b) BY <2>11, VideoDecodes
  <2>12. CASE Video!Move BY <2>12, VideoMove
  <2>13. CASE Video!Answer BY <2>13, VideoAnswer
  <2> QED
    BY <1>1, <2>1, <2>2, <2>3, <2>4, <2>5, <2>6, <2>7, <2>8, <2>9, <2>10, <2>11, <2>12, <2>13
    DEF Video!Next, Video!Hands, Video!Polls, Video!Decoder, Video!Firmware, Video!Outputs, Outs
<1>2. CASE UNCHANGED fVars
  <2>1. UNCHANGED <<f_stream, f_fed, f_last, f_inputPool, f_outputPool, f_held, f_pc, f_outputEnabled, f_inFlight, f_format,
                    f_changed, f_refused, f_late, f_returned, f_pending, f_ring, f_bulks, f_asked, f_layout, f_paused,
                    f_parsed, f_decoded, f_firm, f_fill>>
    BY <1>2 DEF fVars
  <2>2. FilmTyped' /\ OnePlace' BY <2>1 DEF VideoInv, FilmTyped, OnePlace
  <2>3. FilmCounted' /\ InputsKept' /\ RoomLeft' /\ Cleared' /\ LayoutTold'
    BY <2>1 DEF VideoInv, FilmCounted, InputsKept, RoomLeft, Cleared, LayoutTold
  <2>4. Asking' /\ Enabled' /\ TooSmall' BY <2>1 DEF VideoInv, Asking, Enabled, TooSmall
  <2>5. Pausing'
    <3>1. Wanted' = Wanted BY <2>1 DEF Wanted
    <3> QED BY <2>1, <3>1 DEF VideoInv, Pausing
  <2> QED BY <2>2, <2>3, <2>4, <2>5 DEF VideoInv
<1> QED BY <1>1, <1>2

LEMMA VideoSays ==
  ASSUME VideoInv
  PROVE  Video!TypeOK /\ Video!AwayIsCounted /\ Video!LayoutIsTold /\ Video!RefusedRightly
<1>0. FilmTyped BY DEF VideoInv
<1>1. /\ f_fed \in Nat /\ f_parsed \in Nat /\ f_parsed <= f_fed /\ f_decoded \in Nat /\ f_decoded <= f_parsed
      /\ Len(f_stream) \in Nat
  BY <1>0, LenProperties DEF FilmTyped
<1>2. f_inFlight \in 0..Cardinality(Outs)
  <2>1. Cardinality(Away(f_outputPool, f_held)) <= Cardinality(Outs) BY AwayCount, Outputs, FS_Subset
  <2>2. Cardinality(Away(f_outputPool, f_held)) \in Nat /\ Cardinality(Outs) \in Nat BY AwayCount, Outputs, FS_CardinalityType
  <2>3. f_inFlight \in Nat /\ f_inFlight <= Cardinality(Away(f_outputPool, f_held)) BY <1>0 DEF VideoInv, FilmCounted, FilmTyped
  <2> QED BY <2>1, <2>2, <2>3
<1>3. f_inputPool \in 0..Inputs
  <2> DEFINE a == Cardinality(Hits(f_returned, {0}))
             b == Cardinality(Hits(f_ring, InputBack))
             d == f_fed - f_parsed
  <2>1. f_inputPool + d + a + b = Inputs /\ f_inputPool \in Nat /\ a \in Nat /\ b \in Nat /\ d \in Nat BY InputsCounted
  <2> HIDE DEF a, b, d
  <2> QED BY <2>1, VideoAssumption
<1>4. Video!TypeOK
  <2>1. f_fed \in 0..(Len(f_stream) + 1) /\ f_fill \in [Outs -> 0..(Len(f_stream) + 1)] BY <1>0 DEF FilmTyped
  <2> QED BY <1>0, <1>1, <1>2, <1>3, <2>1, SameCount DEF Video!TypeOK, FilmTyped, Video!End, Video!Outputs, Video!Input, Outs
<1>5. Video!AwayIsCounted
  BY SameCount DEF Video!AwayIsCounted, VideoInv, FilmCounted, Away, HeldBufs, Video!Outputs, Outs
<1>6. Video!LayoutIsTold BY DEF Video!LayoutIsTold, VideoInv, LayoutTold
<1>7. Video!RefusedRightly BY DEF Video!RefusedRightly, VideoInv, TooSmall, Video!Outputs, Outs
<1> QED BY <1>4, <1>5, <1>6, <1>7

-----------------------------------------------------------------------------
(* The Bluetooth controller. *)

\* An answer that is not to the command waited for is to one given up.
Overdue(ops) == /\ t_late \subseteq t_gaveUp
                /\ \A k \in DOMAIN t_line : t_line[k].kind = "answer" => t_line[k].n = 1 \/ t_line[k].what \in t_gaveUp
\* Each kind of packet is about its own kind of thing.
About(conns, ops) == \A k \in DOMAIN t_line :
                       IF t_line[k].kind = "answer" THEN t_line[k].what \in ops ELSE t_line[k].what \in conns
BtInv(conns, ops) == /\ Bt(conns, ops)!TypeOK /\ About(conns, ops) /\ Overdue(ops)
                     /\ Bt(conns, ops)!BuffersAddUp /\ Bt(conns, ops)!AnswerIsOwn

\* So many of each of some things, one by one.
Units(S, f) == UNION {{s} \X (1..f[s]) : s \in S}

LEMMA UnitsAre ==
  ASSUME NEW S, NEW f
  PROVE  \A x : x \in Units(S, f) <=> \E s \in S : \E i \in 1..f[s] : x = <<s, i>>
BY DEF Units

LEMMA UnitsFinite ==
  ASSUME NEW S, IsFiniteSet(S), NEW f, NEW T \in Nat, \A s \in S : f[s] \in 0..T
  PROVE  IsFiniteSet(Units(S, f)) /\ Cardinality(Units(S, f)) \in Nat
<1>1. IsFiniteSet(1..T) BY FS_Interval
<1>2. IsFiniteSet(S \X (1..T)) BY <1>1, FS_Product
<1>3. Units(S, f) \subseteq S \X (1..T)
  <2> SUFFICES ASSUME NEW s \in S, NEW i \in 1..f[s] PROVE <<s, i>> \in S \X (1..T) BY UnitsAre
  <2>1. i \in 1..T BY SMT
  <2> QED BY <2>1
<1>4. IsFiniteSet(Units(S, f)) BY <1>2, <1>3, FS_Subset
<1> QED BY <1>4, FS_CardinalityType

LEMMA UnitsSame ==
  ASSUME NEW S, NEW f, NEW g, \A s \in S : f[s] = g[s]
  PROVE  Units(S, f) = Units(S, g)
<1>1. \A x : x \in Units(S, f) <=> x \in Units(S, g) BY UnitsAre
<1> QED BY <1>1

LEMMA UnitsSplit ==
  ASSUME NEW S, IsFiniteSet(S), NEW f, NEW T \in Nat, \A s \in S : f[s] \in 0..T, NEW a \in S
  PROVE  Cardinality(Units(S, f)) = Cardinality(Units(S \ {a}, f)) + f[a]
<1> DEFINE rest == Units(S \ {a}, f)
           own == {a} \X (1..f[a])
           n == f[a]
<1>1. IsFiniteSet(rest) /\ Cardinality(rest) \in Nat
  <2>1. IsFiniteSet(S \ {a}) BY FS_Subset
  <2> QED BY <2>1, UnitsFinite
<1>2. IsFiniteSet(own) /\ Cardinality(own) = n
  <2>1. n \in Nat BY DEF n
  <2> HIDE DEF n
  <2>2. IsFiniteSet(1..n) /\ Cardinality(1..n) = n BY <2>1, FS_Interval
  <2>3. IsFiniteSet({a}) /\ Cardinality({a}) = 1 BY FS_Singleton
  <2>4. IsFiniteSet({a} \X (1..n)) /\ Cardinality({a} \X (1..n)) = 1 * n BY <2>2, <2>3, FS_Product, ZenonT(30)
  <2> QED BY <2>1, <2>4 DEF n
<1>3. Units(S, f) = rest \cup own
  <2>1. \A x : x \in Units(S, f) <=> x \in rest \/ x \in own
    <3>1. \A x : x \in Units(S, f) <=> \E s \in S : \E i \in 1..f[s] : x = <<s, i>> BY UnitsAre
    <3>2. \A x : x \in rest <=> \E s \in S \ {a} : \E i \in 1..f[s] : x = <<s, i>> BY UnitsAre
    <3>3. \A x : x \in own <=> \E i \in 1..f[a] : x = <<a, i>> OBVIOUS
    <3> HIDE DEF rest, own
    <3> QED BY <3>1, <3>2, <3>3
  <2> HIDE DEF rest, own
  <2> QED BY <2>1
<1>4. rest \cap own = {}
  <2>1. \A x : x \in rest => \E s \in S \ {a} : \E i \in 1..f[s] : x = <<s, i>> BY UnitsAre
  <2> HIDE DEF rest
  <2> QED BY <2>1
<1> HIDE DEF rest, own
<1>5. Cardinality(rest \cup own) = Cardinality(rest) + Cardinality(own) - Cardinality(rest \cap own)
  BY <1>1, <1>2, FS_Union
<1>6. Cardinality(rest \cap own) = 0 BY <1>4, FS_EmptySet
<1> QED BY <1>1, <1>2, <1>3, <1>5, <1>6 DEF rest, n

\* Each thing one place further.
LEMMA UnitsShift ==
  ASSUME NEW n \in Nat, NEW f, NEW g, NEW T \in Nat, \A k \in 1..n : g[k] = f[k + 1] /\ g[k] \in 0..T
  PROVE  Cardinality(Units(1..n, g)) = Cardinality(Units(2..(n + 1), f))
<1> DEFINE A == Units(1..n, g)
           B == Units(2..(n + 1), f)
           h == [x \in A |-> <<x[1] + 1, x[2]>>]
<1>1. \A x \in A : x[1] \in 1..n /\ x[2] \in 1..g[x[1]] /\ x = <<x[1], x[2]>>
  BY UnitsAre
<1>2. \A x \in A : h[x] \in B
  <2> SUFFICES ASSUME NEW x \in A PROVE <<x[1] + 1, x[2]>> \in B OBVIOUS
  <2>1. x[1] + 1 \in 2..(n + 1) /\ x[2] \in 1..f[x[1] + 1] BY <1>1
  <2> QED BY <2>1, UnitsAre
<1>3. \A x, y \in A : h[x] = h[y] => x = y BY <1>1
<1>4. \A z \in B : \E x \in A : h[x] = z
  <2> SUFFICES ASSUME NEW z \in B PROVE \E x \in A : h[x] = z OBVIOUS
  <2>1. PICK k \in 2..(n + 1) : \E i \in 1..f[k] : z = <<k, i>> BY UnitsAre
  <2>2. PICK i \in 1..f[k] : z = <<k, i>> BY <2>1
  <2>3. k - 1 \in 1..n /\ (k - 1) + 1 = k OBVIOUS
  <2>4. i \in 1..g[k - 1] BY <2>3
  <2>5. <<k - 1, i>> \in A BY <2>3, <2>4, UnitsAre
  <2>6. h[<<k - 1, i>>] = <<k, i>> BY <2>3, <2>5
  <2> QED BY <2>2, <2>5, <2>6
<1>5. IsFiniteSet(A)
  <2>1. IsFiniteSet(1..n) BY FS_Interval
  <2> QED BY <2>1, UnitsFinite
<1> HIDE DEF A, B
<1>6. h \in [A -> B] /\ h \in Injection(A, B) /\ h \in Surjection(A, B)
  <2>1. h \in [A -> B] BY <1>2
  <2> HIDE DEF h
  <2> QED BY <1>3, <1>4, <2>1 DEF Injection, IsInjective, Surjection
<1> HIDE DEF h
<1>7. Cardinality(B) = Cardinality(A) BY <1>5, <1>6, FS_Surjection
<1> QED BY <1>7 DEF A, B

\* The buffers whose completion is in a queue of packets.
Tally(p) == IF p.kind = "completed" THEN p.n ELSE 0
Way(l) == Units(DOMAIN l, [k \in DOMAIN l |-> Tally(l[k])])

LEMMA WayAppended ==
  ASSUME NEW S, NEW T \in Nat, \A p \in S : Tally(p) \in 0..T, NEW s \in Seq(S), NEW p \in S
  PROVE  Cardinality(Way(Append(s, p))) = Cardinality(Way(s)) + Tally(p)
<1> DEFINE l == Append(s, p)
           f == [k \in DOMAIN l |-> Tally(l[k])]
           g == [k \in DOMAIN s |-> Tally(s[k])]
           n == Len(s)
<1>1. /\ l \in Seq(S) /\ n \in Nat /\ DOMAIN s = 1..n /\ DOMAIN l = 1..(n + 1)
      /\ (\A k \in 1..n : l[k] = s[k] /\ s[k] \in S) /\ l[n + 1] = p
  <2>1. s \in [1..n -> S] BY LenProperties
  <2> QED BY <2>1, Appended
<1> HIDE DEF l, n
<1>2. /\ \A k \in 1..(n + 1) : f[k] \in 0..T
      /\ n + 1 \in 1..(n + 1) /\ f[n + 1] = Tally(p)
      /\ (1..(n + 1)) \ {n + 1} = 1..n /\ \A k \in 1..n : f[k] = g[k]
  BY <1>1
<1>3. Way(l) = Units(1..(n + 1), f) /\ Way(s) = Units(1..n, g) BY <1>1 DEF Way
<1> HIDE DEF f, g
<1>4. IsFiniteSet(1..(n + 1)) BY <1>1, FS_Interval
<1>5. Cardinality(Units(1..(n + 1), f)) = Cardinality(Units((1..(n + 1)) \ {n + 1}, f)) + f[n + 1]
  <2> DEFINE D == 1..(n + 1)
  <2>1. IsFiniteSet(D) /\ (\A k \in D : f[k] \in 0..T) /\ n + 1 \in D BY <1>2, <1>4
  <2> HIDE DEF D
  <2>2. Cardinality(Units(D, f)) = Cardinality(Units(D \ {n + 1}, f)) + f[n + 1] BY <2>1, UnitsSplit
  <2> QED BY <2>2 DEF D
<1>6. Units(1..n, f) = Units(1..n, g) BY <1>2, UnitsSame
<1> QED BY <1>2, <1>3, <1>5, <1>6 DEF l

LEMMA WayShortened ==
  ASSUME NEW S, NEW T \in Nat, \A p \in S : Tally(p) \in 0..T, NEW s \in Seq(S), s # <<>>
  PROVE  Cardinality(Way(s)) = Cardinality(Way(Tail(s))) + Tally(Head(s))
<1> DEFINE l == Tail(s)
           f == [k \in DOMAIN s |-> Tally(s[k])]
           g == [k \in DOMAIN l |-> Tally(l[k])]
           n == Len(s) - 1
<1>1. /\ n \in Nat /\ DOMAIN s = 1..(n + 1) /\ DOMAIN l = 1..n
      /\ (\A k \in 1..n : l[k] = s[k + 1]) /\ Head(s) = s[1] /\ \A k \in 1..(n + 1) : s[k] \in S
  <2>1. s \in [1..Len(s) -> S] BY LenProperties
  <2> QED BY <2>1, Shortened
<1> HIDE DEF l, n
<1>2. /\ \A k \in 1..(n + 1) : f[k] \in 0..T
      /\ 1 \in 1..(n + 1) /\ f[1] = Tally(Head(s)) /\ (1..(n + 1)) \ {1} = 2..(n + 1)
      /\ \A k \in 1..n : g[k] = f[k + 1] /\ g[k] \in 0..T
  BY <1>1
<1>3. Way(s) = Units(1..(n + 1), f) /\ Way(l) = Units(1..n, g) BY <1>1 DEF Way
<1> HIDE DEF f, g
<1>4. IsFiniteSet(1..(n + 1)) BY <1>1, FS_Interval
<1>5. Cardinality(Units(1..(n + 1), f)) = Cardinality(Units((1..(n + 1)) \ {1}, f)) + f[1]
  <2> DEFINE D == 1..(n + 1)
  <2>1. IsFiniteSet(D) /\ (\A k \in D : f[k] \in 0..T) /\ 1 \in D BY <1>2, <1>4
  <2> HIDE DEF D
  <2>2. Cardinality(Units(D, f)) = Cardinality(Units(D \ {1}, f)) + f[1] BY <2>1, UnitsSplit
  <2> QED BY <2>2 DEF D
<1>6. Cardinality(Units(1..n, g)) = Cardinality(Units(2..(n + 1), f)) BY <1>1, <1>2, UnitsShift
<1> QED BY <1>2, <1>3, <1>5, <1>6 DEF l

LEMMA WayFinite ==
  ASSUME NEW S, NEW T \in Nat, \A p \in S : Tally(p) \in 0..T, NEW s \in Seq(S)
  PROVE  Cardinality(Way(s)) \in Nat
<1> DEFINE f == [k \in DOMAIN s |-> Tally(s[k])]
<1>1. Len(s) \in Nat /\ DOMAIN s = 1..Len(s) /\ \A k \in DOMAIN s : s[k] \in S
  <2>1. s \in [1..Len(s) -> S] BY LenProperties
  <2> QED BY <2>1, LenProperties
<1>2. \A k \in DOMAIN s : f[k] \in 0..T BY <1>1
<1>3. IsFiniteSet(DOMAIN s) BY <1>1, FS_Interval
<1> HIDE DEF f
<1> QED BY <1>2, <1>3, UnitsFinite DEF Way, f

USE BtAssumption

Packet(conns, ops) == [kind : {"answer", "completed", "up", "down"}, what : conns \cup ops, n : 0..Total]

\* A connection has another number of buffers in use.
LEMMA HeldChange ==
  ASSUME NEW conns, IsFiniteSet(conns), t_held \in [conns -> 0..Total], NEW h \in conns, NEW m \in 0..Total,
         t_held' = [t_held EXCEPT ![h] = m]
  PROVE  /\ t_held' \in [conns -> 0..Total]
         /\ Cardinality(Units(conns, t_held')) = Cardinality(Units(conns, t_held)) + m - t_held[h]
<1>1. t_held' \in [conns -> 0..Total] BY SMT
<1>2. /\ \A s \in conns : t_held[s] \in 0..Total /\ t_held'[s] \in 0..Total
      /\ t_held'[h] = m /\ t_held[h] \in Nat /\ m \in Nat
      /\ \A s \in conns \ {h} : t_held[s] = t_held'[s]
  BY SMT
<1>3. Cardinality(Units(conns, t_held)) = Cardinality(Units(conns \ {h}, t_held)) + t_held[h] BY <1>2, UnitsSplit
<1>4. Cardinality(Units(conns, t_held')) = Cardinality(Units(conns \ {h}, t_held')) + t_held'[h] BY <1>2, UnitsSplit
<1>5. Units(conns \ {h}, t_held) = Units(conns \ {h}, t_held') BY <1>2, UnitsSame
<1>6. IsFiniteSet(conns \ {h}) BY FS_Subset
<1>7. Cardinality(Units(conns \ {h}, t_held)) \in Nat BY <1>2, <1>6, UnitsFinite
<1> QED BY <1>1, <1>2, <1>3, <1>4, <1>5, <1>7

\* What the parts of the invariant say.
LEMMA BtParts ==
  ASSUME NEW conns, NEW ops, IsFiniteSet(conns), BtInv(conns, ops)
  PROVE  /\ t_line \in Seq(Packet(conns, ops)) /\ t_credits \in Nat /\ t_spilled \in Nat
         /\ t_held \in [conns -> 0..Total]
         /\ Cardinality(Units(conns, t_held)) \in Nat /\ Cardinality(Way(t_line)) \in Nat
         /\ t_credits + Cardinality(Units(conns, t_held)) + Cardinality(Way(t_line)) + t_spilled = Total
         /\ \A h \in conns : t_held[h] <= Cardinality(Units(conns, t_held))
         /\ \A p \in Packet(conns, ops) : Tally(p) \in 0..Total
<1>1. \A p \in Packet(conns, ops) : Tally(p) \in 0..Total BY DEF Packet, Tally
<1>2. /\ t_line \in Seq(Packet(conns, ops)) /\ t_credits \in Nat /\ t_spilled \in Nat
      /\ t_held \in [conns -> 0..Total]
  BY DEF BtInv, Bt!TypeOK, Packet
<1>3. Cardinality(Units(conns, t_held)) \in Nat BY <1>2, UnitsFinite
<1>4. Cardinality(Way(t_line)) \in Nat BY <1>1, <1>2, WayFinite
<1>5. Bt(conns, ops)!InUse = Units(conns, t_held) BY DEF Bt!InUse, Units
<1>6. Bt(conns, ops)!Returning = Way(t_line) BY DEF Bt!Returning, Bt!Completed, Way, Units, Tally
<1>7. t_credits + Cardinality(Units(conns, t_held)) + Cardinality(Way(t_line)) + t_spilled = Total
  BY <1>5, <1>6 DEF BtInv, Bt!BuffersAddUp, Bt!Cardinality, Cardinality
<1>8. \A h \in conns : t_held[h] <= Cardinality(Units(conns, t_held))
  <2> SUFFICES ASSUME NEW h \in conns PROVE t_held[h] <= Cardinality(Units(conns, t_held)) OBVIOUS
  <2>1. Cardinality(Units(conns, t_held)) = Cardinality(Units(conns \ {h}, t_held)) + t_held[h]
    BY <1>2, UnitsSplit
  <2>2. IsFiniteSet(conns \ {h}) BY FS_Subset
  <2>3. Cardinality(Units(conns \ {h}, t_held)) \in Nat BY <1>2, <2>2, UnitsFinite
  <2>4. t_held[h] \in Nat BY <1>2
  <2> QED BY <2>1, <2>3, <2>4
<1> QED BY <1>1, <1>2, <1>3, <1>4, <1>7, <1>8

LEMMA BtWhole ==
  ASSUME NEW conns, NEW ops, IsFiniteSet(conns),
         t_line' \in Seq(Packet(conns, ops)), t_credits' \in Nat, t_spilled' \in Nat,
         t_held' \in [conns -> 0..Total],
         t_credits' + Cardinality(Units(conns, t_held')) + Cardinality(Way(t_line')) + t_spilled' = Total,
         t_call' \in {Nothing, "poll"} \cup ops, t_asked' \in {Nothing} \cup ops,
         t_up' \subseteq conns, t_seen' \subseteq conns, t_late' \subseteq ops, t_gaveUp' \subseteq ops,
         t_answered' \in {Nothing} \cup [to : ops, of : ops, own : BOOLEAN], t_cut' \in BOOLEAN,
         About(conns, ops)', Overdue(ops)', Bt(conns, ops)!AnswerIsOwn'
  PROVE  BtInv(conns, ops)'
<1>1. Cardinality(Units(conns, t_held')) \in Nat BY UnitsFinite
<1>2. \A p \in Packet(conns, ops) : Tally(p) \in 0..Total BY DEF Packet, Tally
<1>3. Cardinality(Way(t_line')) \in Nat BY <1>2, WayFinite
<1>4. t_credits' \in 0..Total /\ t_spilled' \in 0..Total BY <1>1, <1>3
<1>5. Bt(conns, ops)!TypeOK' BY <1>4 DEF Bt!TypeOK, Packet
<1>6. Bt(conns, ops)!InUse' = Units(conns, t_held') BY DEF Bt!InUse, Units
<1>7. Bt(conns, ops)!Returning' = Way(t_line') BY DEF Bt!Returning, Bt!Completed, Way, Units, Tally
<1>8. Bt(conns, ops)!BuffersAddUp' BY <1>6, <1>7 DEF Bt!BuffersAddUp, Bt!Cardinality, Cardinality
<1> QED BY <1>5, <1>8 DEF BtInv

\* The line after a packet came, and after one was read.
LEMMA BtPut ==
  ASSUME NEW conns, NEW ops, IsFiniteSet(conns), BtInv(conns, ops), NEW p \in Packet(conns, ops),
         t_line' = Append(t_line, p), t_late' \subseteq t_gaveUp, t_gaveUp' = t_gaveUp,
         IF p.kind = "answer" THEN p.what \in ops /\ (p.n = 1 \/ p.what \in t_gaveUp) ELSE p.what \in conns
  PROVE  /\ t_line' \in Seq(Packet(conns, ops)) /\ About(conns, ops)' /\ Overdue(ops)'
         /\ Cardinality(Way(t_line')) = Cardinality(Way(t_line)) + Tally(p)
<1>1. t_line \in Seq(Packet(conns, ops)) /\ \A q \in Packet(conns, ops) : Tally(q) \in 0..Total BY BtParts
<1>2. t_line' \in Seq(Packet(conns, ops)) BY <1>1, Appended
<1>3. \A k \in DOMAIN t_line' : (k \in DOMAIN t_line /\ t_line'[k] = t_line[k]) \/ t_line'[k] = p
  BY <1>1, Appended
<1>4. About(conns, ops)' BY <1>3 DEF BtInv, About
<1>5. Overdue(ops)' BY <1>3 DEF BtInv, Overdue
<1>6. Cardinality(Way(t_line')) = Cardinality(Way(t_line)) + Tally(p) BY <1>1, WayAppended
<1> QED BY <1>2, <1>4, <1>5, <1>6

LEMMA BtTaken ==
  ASSUME NEW conns, NEW ops, IsFiniteSet(conns), BtInv(conns, ops), t_line # <<>>, t_line' = Tail(t_line),
         t_late' = t_late, t_gaveUp' = t_gaveUp
  PROVE  /\ t_line' \in Seq(Packet(conns, ops)) /\ About(conns, ops)' /\ Overdue(ops)'
         /\ Cardinality(Way(t_line)) = Cardinality(Way(t_line')) + Tally(Head(t_line))
         /\ Cardinality(Way(t_line')) \in Nat /\ Tally(Head(t_line)) \in Nat
         /\ Head(t_line) \in Packet(conns, ops)
         /\ IF Head(t_line).kind = "answer"
              THEN Head(t_line).what \in ops /\ (Head(t_line).n = 1 \/ Head(t_line).what \in t_gaveUp)
              ELSE Head(t_line).what \in conns
<1>1. t_line \in Seq(Packet(conns, ops)) /\ \A q \in Packet(conns, ops) : Tally(q) \in 0..Total BY BtParts
<1>2. t_line' \in Seq(Packet(conns, ops)) /\ Head(t_line) \in Packet(conns, ops) BY <1>1, Shortened
<1>3. /\ \A k \in DOMAIN t_line' : k + 1 \in DOMAIN t_line /\ t_line'[k] = t_line[k + 1]
      /\ 1 \in DOMAIN t_line /\ Head(t_line) = t_line[1]
  BY <1>1, Shortened
<1>4. About(conns, ops)' BY <1>3 DEF BtInv, About
<1>5. Overdue(ops)' BY <1>3 DEF BtInv, Overdue
<1>6. Cardinality(Way(t_line)) = Cardinality(Way(t_line')) + Tally(Head(t_line)) BY <1>1, WayShortened
<1>7. IF Head(t_line).kind = "answer"
        THEN Head(t_line).what \in ops /\ (Head(t_line).n = 1 \/ Head(t_line).what \in t_gaveUp)
        ELSE Head(t_line).what \in conns
  BY <1>3 DEF BtInv, About, Overdue
<1>8. Cardinality(Way(t_line')) \in Nat /\ Tally(Head(t_line)) \in Nat
  <2>1. Cardinality(Way(t_line')) \in Nat BY <1>1, <1>2, WayFinite
  <2>2. Tally(Head(t_line)) \in 0..Total BY <1>1, <1>2
  <2> QED BY <2>1, <2>2
<1> QED BY <1>2, <1>4, <1>5, <1>6, <1>7, <1>8

\* What the parts of the invariant say of the rest.
LEMMA BtRest ==
  ASSUME NEW conns, NEW ops, BtInv(conns, ops)
  PROVE  /\ t_call \in {Nothing, "poll"} \cup ops /\ t_asked \in {Nothing} \cup ops
         /\ t_up \subseteq conns /\ t_seen \subseteq conns /\ t_late \subseteq ops /\ t_gaveUp \subseteq ops
         /\ t_answered \in {Nothing} \cup [to : ops, of : ops, own : BOOLEAN] /\ t_cut \in BOOLEAN
         /\ About(conns, ops) /\ Overdue(ops) /\ Bt(conns, ops)!AnswerIsOwn
BY DEF BtInv, Bt!TypeOK

LEMMA BtInit == ASSUME NEW conns, NEW ops, IsFiniteSet(conns), Bt(conns, ops)!Init PROVE BtInv(conns, ops)
<1> USE DEF Bt!Init
<1>1. t_line \in Seq(Packet(conns, ops)) /\ DOMAIN t_line = {} /\ t_held \in [conns -> 0..Total] OBVIOUS
<1>2. Bt(conns, ops)!TypeOK
  <2>1. t_cut \in BOOLEAN BY Zenon
  <2>2. t_credits \in 0..Total /\ t_spilled \in 0..Total OBVIOUS
  <2> QED BY <1>1, <2>1, <2>2 DEF Bt!TypeOK, Packet
<1>3. About(conns, ops) /\ Overdue(ops) /\ Bt(conns, ops)!AnswerIsOwn
  BY <1>1 DEF About, Overdue, Bt!AnswerIsOwn
<1>4. Bt(conns, ops)!InUse = {} /\ Bt(conns, ops)!Returning = {}
  <2>1. Units(conns, t_held) = {}
    <3>1. \A x : x \notin Units(conns, t_held)
      <4>1. \A h \in conns : \A i \in 1..t_held[h] : FALSE OBVIOUS
      <4> QED BY <4>1, UnitsAre
    <3> QED BY <3>1
  <2>2. Bt(conns, ops)!InUse = Units(conns, t_held) BY DEF Bt!InUse, Units
  <2>3. Bt(conns, ops)!Returning = {} BY <1>1 DEF Bt!Returning
  <2> QED BY <2>1, <2>2, <2>3
<1>5. Bt(conns, ops)!BuffersAddUp
  <2>1. Cardinality({}) = 0 BY FS_EmptySet
  <2>2. t_credits = Total /\ t_spilled = 0 OBVIOUS
  <2> QED BY <1>4, <2>1, <2>2 DEF Bt!BuffersAddUp, Bt!Cardinality, Cardinality
<1> QED BY <1>2, <1>3, <1>5 DEF BtInv

LEMMA BtSend ==
  ASSUME NEW conns, NEW ops, IsFiniteSet(conns), BtInv(conns, ops), NEW h \in conns, Bt(conns, ops)!Send(h)
  PROVE  BtInv(conns, ops)'
<1>1. PICK n \in 1..MaxFragments :
        /\ n <= t_credits /\ t_credits' = t_credits - n
        /\ IF h \in t_up THEN t_held' = [t_held EXCEPT ![h] = @ + n] /\ t_spilled' = t_spilled
                          ELSE t_spilled' = t_spilled + n /\ t_held' = t_held
        /\ UNCHANGED <<t_call, t_seen, t_answered, t_line, t_up, t_late, t_asked, t_gaveUp, t_missed, t_cut>>
  BY DEF Bt!Send
<1>2. n \in Nat OBVIOUS
<1>3. /\ t_line \in Seq(Packet(conns, ops)) /\ t_credits \in Nat /\ t_spilled \in Nat
      /\ t_held \in [conns -> 0..Total]
      /\ Cardinality(Units(conns, t_held)) \in Nat /\ Cardinality(Way(t_line)) \in Nat
      /\ t_credits + Cardinality(Units(conns, t_held)) + Cardinality(Way(t_line)) + t_spilled = Total
      /\ t_held[h] <= Cardinality(Units(conns, t_held))
  BY BtParts
<1>4. t_credits' \in Nat /\ t_spilled' \in Nat BY <1>1, <1>2, <1>3
<1>5. /\ t_held' \in [conns -> 0..Total]
      /\ t_credits' + Cardinality(Units(conns, t_held')) + Cardinality(Way(t_line)) + t_spilled' = Total
  <2>1. CASE h \in t_up
    <3> DEFINE m == t_held[h] + n
    <3>1. m \in Nat /\ m <= Total /\ t_held[h] \in Nat BY <1>1, <1>2, <1>3
    <3>2. t_held' = [t_held EXCEPT ![h] = m] BY <1>1, <2>1
    <3>3. m = t_held[h] + n OBVIOUS
    <3> HIDE DEF m
    <3>4. m \in 0..Total BY <3>1
    <3>5. /\ t_held' \in [conns -> 0..Total]
          /\ Cardinality(Units(conns, t_held')) = Cardinality(Units(conns, t_held)) + m - t_held[h]
      BY <1>3, <3>2, <3>4, HeldChange
    <3>6. Cardinality(Units(conns, t_held')) = Cardinality(Units(conns, t_held)) + n
      BY <1>2, <1>3, <3>1, <3>3, <3>5
    <3>7. t_credits' = t_credits - n /\ t_spilled' = t_spilled BY <1>1, <2>1
    <3> QED BY <1>2, <1>3, <3>5, <3>6, <3>7
  <2>2. CASE h \notin t_up
    <3>1. t_credits' = t_credits - n /\ t_spilled' = t_spilled + n /\ t_held' = t_held BY <1>1, <2>2
    <3> QED BY <1>2, <1>3, <3>1
  <2> QED BY <2>1, <2>2
<1>6. Cardinality(Way(t_line')) = Cardinality(Way(t_line)) BY <1>1
<1>7. About(conns, ops)' /\ Overdue(ops)' /\ Bt(conns, ops)!AnswerIsOwn'
  BY <1>1, BtRest DEF About, Overdue, Bt!AnswerIsOwn
<1> QED BY <1>1, <1>3, <1>4, <1>5, <1>6, <1>7, BtRest, BtWhole

\* Steps that leave the line and the buffers alone.
LEMMA BtCalls ==
  ASSUME NEW conns, NEW ops, IsFiniteSet(conns), "poll" \notin ops \cup {Nothing}, BtInv(conns, ops),
         \/ \E op \in ops : Bt(conns, ops)!Command(op)
         \/ Bt(conns, ops)!Poll \/ Bt(conns, ops)!TimesOut \/ Bt(conns, ops)!TimesOutInside
  PROVE  BtInv(conns, ops)'
<1>1. /\ UNCHANGED <<t_credits, t_seen, t_answered, t_line, t_held, t_up, t_spilled, t_missed>>
      /\ t_call' \in {Nothing, "poll"} \cup ops
      /\ t_asked' \in {Nothing} \cup ops
      /\ \/ t_late' = t_late /\ t_gaveUp' = t_gaveUp
         \/ t_gaveUp' = t_gaveUp \cup ({t_call} \cap ops) /\ t_late' \in {t_late, t_late \cup ({t_call} \cap ops)}
      /\ t_cut' \in {t_cut, TRUE}
  <2>1. t_call \in {Nothing, "poll"} \cup ops /\ t_asked \in {Nothing} \cup ops BY BtRest
  <2>2. CASE \E op \in ops : Bt(conns, ops)!Command(op) BY <2>1, <2>2 DEF Bt!Command, Bt!history
  <2>3. CASE Bt(conns, ops)!Poll BY <2>1, <2>3 DEF Bt!Poll, Bt!controller, Bt!history
  <2>4. CASE Bt(conns, ops)!TimesOut
    <3>1. t_call = t_asked /\ t_call \in ops \cup {"poll"} => t_call \in ops BY <2>1
    <3> QED BY <2>1, <2>4, <3>1 DEF Bt!TimesOut
  <2>5. CASE Bt(conns, ops)!TimesOutInside BY <2>1, <2>5 DEF Bt!TimesOutInside, Bt!controller
  <2> QED BY <2>2, <2>3, <2>4, <2>5
<1>2. t_late' \subseteq ops /\ t_gaveUp' \subseteq ops /\ t_gaveUp \subseteq t_gaveUp' /\ t_late' \subseteq t_gaveUp'
  BY <1>1, BtRest DEF Overdue
<1>3. t_cut' \in BOOLEAN
  <2>1. t_cut \in BOOLEAN BY BtRest
  <2> QED BY <1>1, <2>1, Zenon
<1>4. About(conns, ops)' BY <1>1, BtRest DEF About
<1>5. Overdue(ops)' BY <1>1, <1>2, BtRest DEF Overdue
<1>6. Bt(conns, ops)!AnswerIsOwn' BY <1>1, <1>2, BtRest DEF Bt!AnswerIsOwn
<1>7. /\ t_line' \in Seq(Packet(conns, ops)) /\ t_credits' \in Nat /\ t_spilled' \in Nat
      /\ t_held' \in [conns -> 0..Total]
      /\ t_credits' + Cardinality(Units(conns, t_held')) + Cardinality(Way(t_line')) + t_spilled' = Total
  BY <1>1, BtParts
<1>8. /\ t_up' \subseteq conns /\ t_seen' \subseteq conns
      /\ t_answered' \in {Nothing} \cup [to : ops, of : ops, own : BOOLEAN]
  BY <1>1, BtRest
<1> QED BY <1>1, <1>2, <1>3, <1>4, <1>5, <1>6, <1>7, <1>8, BtWhole

\* A wait reads a packet.
LEMMA BtWaits ==
  ASSUME NEW conns, NEW ops, IsFiniteSet(conns), "poll" \notin ops \cup {Nothing}, BtInv(conns, ops),
         Bt(conns, ops)!Answered \/ Bt(conns, ops)!Skip
  PROVE  BtInv(conns, ops)'
<1>1. /\ t_line # <<>> /\ t_line' = Tail(t_line)
      /\ UNCHANGED <<t_credits, t_seen, t_held, t_up, t_late, t_asked, t_gaveUp, t_cut>>
      /\ t_call \in ops
      /\ \/ /\ Head(t_line).kind = "answer" /\ Head(t_line).what = t_call /\ t_call' = Nothing /\ t_spilled' = t_spilled
            /\ t_answered' = [to |-> t_call, of |-> Head(t_line).what, own |-> Head(t_line).n = 1]
         \/ /\ t_spilled' = t_spilled + Tally(Head(t_line))
            /\ t_call' = t_call /\ t_answered' = t_answered
  BY DEF Bt!Answered, Bt!Skip, Bt!Waiting, Bt!Front, Bt!Taken, Bt!Got, Bt!Completed, Tally, Bt!history, Bt!host
<1>2. /\ t_line' \in Seq(Packet(conns, ops)) /\ About(conns, ops)' /\ Overdue(ops)'
      /\ Cardinality(Way(t_line)) = Cardinality(Way(t_line')) + Tally(Head(t_line))
      /\ Cardinality(Way(t_line')) \in Nat /\ Tally(Head(t_line)) \in Nat
      /\ Head(t_line).kind = "answer" => Head(t_line).n = 1 \/ Head(t_line).what \in t_gaveUp
  BY <1>1, BtTaken
<1>3. t_spilled' \in Nat /\ t_credits' + Cardinality(Units(conns, t_held')) + Cardinality(Way(t_line')) + t_spilled' = Total
  <2>1. /\ t_credits \in Nat /\ t_spilled \in Nat /\ Cardinality(Units(conns, t_held)) \in Nat
        /\ t_credits + Cardinality(Units(conns, t_held)) + Cardinality(Way(t_line)) + t_spilled = Total
    BY BtParts
  <2>2. t_spilled' = t_spilled + Tally(Head(t_line))
    <3>1. Head(t_line).kind = "answer" => Tally(Head(t_line)) = 0 BY DEF Tally
    <3> QED BY <1>1, <2>1, <3>1
  <2>3. t_credits' = t_credits /\ Cardinality(Units(conns, t_held')) = Cardinality(Units(conns, t_held)) BY <1>1
  <2> DEFINE u == Cardinality(Units(conns, t_held))
             w == Cardinality(Way(t_line))
             x == Cardinality(Way(t_line'))
             c == Tally(Head(t_line))
  <2>4. /\ t_credits + u + w + t_spilled = Total /\ w = x + c /\ t_spilled' = t_spilled + c
        /\ u \in Nat /\ x \in Nat /\ c \in Nat /\ t_credits \in Nat /\ t_spilled \in Nat
    BY <1>2, <2>1, <2>2
  <2> HIDE DEF u, w, x, c
  <2>5. t_spilled' \in Nat /\ t_credits + u + x + t_spilled' = Total BY <2>4
  <2> QED BY <2>3, <2>5 DEF u, x
<1>4. /\ t_answered' \in {Nothing} \cup [to : ops, of : ops, own : BOOLEAN]
      /\ Bt(conns, ops)!AnswerIsOwn'
  <2>1. CASE t_answered' = t_answered BY <1>1, <2>1, BtRest DEF Bt!AnswerIsOwn
  <2>2. CASE /\ Head(t_line).kind = "answer" /\ Head(t_line).what = t_call
             /\ t_answered' = [to |-> t_call, of |-> Head(t_line).what, own |-> Head(t_line).n = 1]
    <3> DEFINE b == Head(t_line).n = 1
    <3>1. b \in BOOLEAN /\ (b \/ t_call \in t_gaveUp) BY <1>2, <2>2
    <3>2. t_answered' = [to |-> t_call, of |-> t_call, own |-> b] BY <2>2
    <3> HIDE DEF b
    <3>3. t_answered' \in [to : ops, of : ops, own : BOOLEAN] BY <1>1, <3>1, <3>2
    <3>4. Bt(conns, ops)!AnswerIsOwn' BY <1>1, <3>1, <3>2 DEF Bt!AnswerIsOwn
    <3> QED BY <3>3, <3>4
  <2> QED BY <1>1, <2>1, <2>2
<1>5. /\ t_call' \in {Nothing, "poll"} \cup ops /\ t_asked' \in {Nothing} \cup ops
      /\ t_up' \subseteq conns /\ t_seen' \subseteq conns /\ t_late' \subseteq ops /\ t_gaveUp' \subseteq ops
      /\ t_cut' \in BOOLEAN /\ t_credits' \in Nat /\ t_held' \in [conns -> 0..Total]
  BY <1>1, BtRest, BtParts
<1> QED BY <1>2, <1>3, <1>4, <1>5, BtWhole

\* poll reads a packet.
LEMMA BtPolls ==
  ASSUME NEW conns, NEW ops, IsFiniteSet(conns), "poll" \notin ops \cup {Nothing}, BtInv(conns, ops),
         \/ Bt(conns, ops)!Credit \/ Bt(conns, ops)!Connected \/ Bt(conns, ops)!Disconnected
         \/ Bt(conns, ops)!PassBy
  PROVE  BtInv(conns, ops)'
<1>1. /\ t_line # <<>> /\ t_line' = Tail(t_line)
      /\ UNCHANGED <<t_held, t_up, t_late, t_asked, t_gaveUp, t_cut, t_spilled, t_answered>>
      /\ t_call' \in {t_call, Nothing}
      /\ \/ Head(t_line).kind = "completed" /\ t_credits' = t_credits + Head(t_line).n
         \/ Head(t_line).kind # "completed" /\ t_credits' = t_credits
      /\ \/ t_seen' = t_seen
         \/ Head(t_line).kind # "answer" /\ t_seen' \in {t_seen \cup {Head(t_line).what}, t_seen \ {Head(t_line).what}}
  <2>1. CASE Bt(conns, ops)!Credit BY <2>1 DEF Bt!Credit, Bt!Front, Bt!Taken, Bt!history
  <2>2. CASE Bt(conns, ops)!Connected BY <2>2 DEF Bt!Connected, Bt!Front, Bt!Taken, Bt!history
  <2>3. CASE Bt(conns, ops)!Disconnected BY <2>3 DEF Bt!Disconnected, Bt!Front, Bt!Taken, Bt!history
  <2>4. CASE Bt(conns, ops)!PassBy BY <2>4 DEF Bt!PassBy, Bt!Front, Bt!Taken, Bt!history, Bt!host
  <2> QED BY <2>1, <2>2, <2>3, <2>4
<1>2. /\ t_line' \in Seq(Packet(conns, ops)) /\ About(conns, ops)' /\ Overdue(ops)'
      /\ Cardinality(Way(t_line)) = Cardinality(Way(t_line')) + Tally(Head(t_line))
      /\ Cardinality(Way(t_line')) \in Nat /\ Tally(Head(t_line)) \in Nat
      /\ Head(t_line).kind # "answer" => Head(t_line).what \in conns
  BY <1>1, BtTaken
<1>3. t_credits' \in Nat /\ t_credits' + Cardinality(Units(conns, t_held')) + Cardinality(Way(t_line')) + t_spilled' = Total
  <2>1. /\ t_credits \in Nat /\ t_spilled \in Nat /\ Cardinality(Units(conns, t_held)) \in Nat
        /\ t_credits + Cardinality(Units(conns, t_held)) + Cardinality(Way(t_line)) + t_spilled = Total
    BY BtParts
  <2>2. t_credits' = t_credits + Tally(Head(t_line)) BY <1>1, <2>1 DEF Tally
  <2>3. t_spilled' = t_spilled /\ Cardinality(Units(conns, t_held')) = Cardinality(Units(conns, t_held)) BY <1>1
  <2> DEFINE u == Cardinality(Units(conns, t_held))
             w == Cardinality(Way(t_line))
             x == Cardinality(Way(t_line'))
             c == Tally(Head(t_line))
  <2>4. /\ t_credits + u + w + t_spilled = Total /\ w = x + c /\ t_credits' = t_credits + c
        /\ u \in Nat /\ x \in Nat /\ c \in Nat /\ t_credits \in Nat /\ t_spilled \in Nat
    BY <1>2, <2>1, <2>2
  <2> HIDE DEF u, w, x, c
  <2>5. t_credits' \in Nat /\ t_credits' + u + x + t_spilled = Total BY <2>4
  <2> QED BY <2>3, <2>5 DEF u, x
<1>4. t_seen' \subseteq conns BY <1>1, <1>2, BtRest
<1>5. /\ t_call' \in {Nothing, "poll"} \cup ops /\ t_asked' \in {Nothing} \cup ops
      /\ t_up' \subseteq conns /\ t_late' \subseteq ops /\ t_gaveUp' \subseteq ops
      /\ t_cut' \in BOOLEAN /\ t_answered' \in {Nothing} \cup [to : ops, of : ops, own : BOOLEAN]
      /\ t_held' \in [conns -> 0..Total] /\ t_spilled' \in Nat
  BY <1>1, BtRest, BtParts
<1>6. Bt(conns, ops)!AnswerIsOwn' BY <1>1, BtRest DEF Bt!AnswerIsOwn
<1> QED BY <1>2, <1>3, <1>4, <1>5, <1>6, BtWhole

\* The controller puts a packet on the line.
LEMMA BtAnswers ==
  ASSUME NEW conns, NEW ops, IsFiniteSet(conns), BtInv(conns, ops),
         Bt(conns, ops)!Answer \/ Bt(conns, ops)!AnswerLate
  PROVE  BtInv(conns, ops)'
<1>1. PICK op \in ops, n \in {0, 1} :
        /\ t_line' = Append(t_line, [kind |-> "answer", what |-> op, n |-> n])
        /\ n = 1 \/ op \in t_gaveUp
        /\ UNCHANGED <<t_call, t_credits, t_seen, t_answered, t_held, t_up, t_gaveUp, t_spilled, t_missed, t_cut>>
        /\ t_asked' \in {t_asked, Nothing} /\ t_late' \subseteq t_late
  <2>1. CASE Bt(conns, ops)!Answer
    <3>1. t_asked \in ops BY <2>1, BtRest DEF Bt!Answer
    <3> QED BY <2>1, <3>1 DEF Bt!Answer, Bt!Put, Bt!Event, Bt!host, Bt!history
  <2>2. CASE Bt(conns, ops)!AnswerLate
    <3>1. PICK op \in t_late : Bt(conns, ops)!Put(Bt(conns, ops)!Event("answer", op, 0)) /\ t_late' = t_late \ {op}
      BY <2>2 DEF Bt!AnswerLate
    <3>2. op \in ops /\ op \in t_gaveUp BY BtRest DEF Overdue
    <3> QED BY <2>2, <3>1, <3>2 DEF Bt!AnswerLate, Bt!Put, Bt!Event, Bt!host, Bt!history
  <2> QED BY <2>1, <2>2
<1> DEFINE p == [kind |-> "answer", what |-> op, n |-> n]
<1>2. p \in Packet(conns, ops)
  <2>1. n \in 0..Total OBVIOUS
  <2> QED BY <2>1 DEF Packet
<1>3. p.kind = "answer" /\ p.what = op /\ p.n = n /\ Tally(p) = 0 BY DEF Tally
<1>4. t_line' = Append(t_line, p) BY <1>1
<1> HIDE DEF p
<1>5. t_late' \subseteq t_gaveUp BY <1>1, BtRest DEF Overdue
<1>6. /\ t_line' \in Seq(Packet(conns, ops)) /\ About(conns, ops)' /\ Overdue(ops)'
      /\ Cardinality(Way(t_line')) = Cardinality(Way(t_line)) + Tally(p)
  BY <1>1, <1>2, <1>3, <1>4, <1>5, BtPut
<1>7. /\ t_credits' \in Nat /\ t_spilled' \in Nat /\ t_held' \in [conns -> 0..Total]
      /\ t_credits' + Cardinality(Units(conns, t_held')) + Cardinality(Way(t_line')) + t_spilled' = Total
  BY <1>1, <1>3, <1>6, BtParts
<1>8. /\ t_call' \in {Nothing, "poll"} \cup ops /\ t_asked' \in {Nothing} \cup ops
      /\ t_up' \subseteq conns /\ t_seen' \subseteq conns /\ t_late' \subseteq ops /\ t_gaveUp' \subseteq ops
      /\ t_cut' \in BOOLEAN /\ t_answered' \in {Nothing} \cup [to : ops, of : ops, own : BOOLEAN]
  BY <1>1, BtRest
<1>9. Bt(conns, ops)!AnswerIsOwn' BY <1>1, BtRest DEF Bt!AnswerIsOwn
<1> QED BY <1>6, <1>7, <1>8, <1>9, BtWhole

LEMMA BtLinks ==
  ASSUME NEW conns, NEW ops, IsFiniteSet(conns), BtInv(conns, ops),
         Bt(conns, ops)!Completes \/ Bt(conns, ops)!LinkUp \/ Bt(conns, ops)!LinkDown
  PROVE  BtInv(conns, ops)'
<1>0. t_held \in [conns -> 0..Total] /\ t_spilled \in Nat BY BtParts
<1>1. PICK h \in conns, k \in {"completed", "up", "down"}, n \in 0..Total, m \in 0..Total :
        /\ t_line' = Append(t_line, [kind |-> k, what |-> h, n |-> n])
        /\ t_held' = [t_held EXCEPT ![h] = m]
        /\ UNCHANGED <<t_call, t_credits, t_seen, t_answered, t_asked, t_late, t_gaveUp, t_missed, t_cut>>
        /\ t_up' \subseteq t_up \cup {h}
        /\ t_spilled' \in Nat
        /\ m + (IF k = "completed" THEN n ELSE 0) + t_spilled' = t_held[h] + t_spilled
  <2>1. CASE Bt(conns, ops)!Completes
    <3>1. PICK h \in t_up : \E n \in 1..t_held[h] :
            t_held' = [t_held EXCEPT ![h] = @ - n] /\ Bt(conns, ops)!Put(Bt(conns, ops)!Event("completed", h, n))
      BY <2>1 DEF Bt!Completes
    <3>8. PICK n \in 1..t_held[h] :
            t_held' = [t_held EXCEPT ![h] = @ - n] /\ Bt(conns, ops)!Put(Bt(conns, ops)!Event("completed", h, n))
      BY <3>1
    <3>2. h \in conns BY BtRest
    <3> DEFINE m == t_held[h] - n
    <3>3. t_held[h] \in 0..Total BY <1>0, <3>2
    <3>4. n \in 0..Total /\ m \in 0..Total /\ m + n + t_spilled = t_held[h] + t_spilled BY <1>0, <3>3
    <3>5. t_held' = [t_held EXCEPT ![h] = m] BY <3>8
    <3>6. UNCHANGED <<t_call, t_credits, t_seen, t_answered, t_asked, t_late, t_gaveUp, t_missed, t_cut, t_up, t_spilled>>
      BY <2>1 DEF Bt!Completes, Bt!host, Bt!history
    <3>7. t_line' = Append(t_line, [kind |-> "completed", what |-> h, n |-> n]) BY <3>8 DEF Bt!Put, Bt!Event
    <3> HIDE DEF m
    <3>9. n \in 0..Total /\ m \in 0..Total BY <3>4
    <3> USE <3>9
    <3> WITNESS h \in conns
    <3> WITNESS "completed" \in {"completed", "up", "down"}
    <3> WITNESS n \in 0..Total
    <3> WITNESS m \in 0..Total
    <3> QED BY <1>0, <3>4, <3>5, <3>6, <3>7
  <2>2. CASE Bt(conns, ops)!LinkUp
    <3>1. PICK h \in conns \ (t_up \cup t_seen) : t_up' = t_up \cup {h} /\ Bt(conns, ops)!Put(Bt(conns, ops)!Event("up", h, 0))
      BY <2>2 DEF Bt!LinkUp
    <3>2. t_held[h] \in 0..Total /\ t_held = [t_held EXCEPT ![h] = t_held[h]] BY <1>0
    <3>3. UNCHANGED <<t_call, t_credits, t_seen, t_answered, t_asked, t_late, t_gaveUp, t_missed, t_cut, t_held, t_spilled>>
      BY <2>2 DEF Bt!LinkUp, Bt!host, Bt!history
    <3>4. t_line' = Append(t_line, [kind |-> "up", what |-> h, n |-> 0]) BY <3>1 DEF Bt!Put, Bt!Event
    <3>5. 0 \in 0..Total OBVIOUS
    <3>6. t_held[h] + 0 + t_spilled = t_held[h] + t_spilled BY <1>0, <3>2
    <3>7. t_up' = t_up \cup {h} BY <3>1
    <3>8. t_held[h] \in 0..Total BY <3>2
    <3> USE <3>8
    <3> WITNESS h \in conns
    <3> WITNESS "up" \in {"completed", "up", "down"}
    <3> WITNESS 0 \in 0..Total
    <3> WITNESS t_held[h] \in 0..Total
    <3> QED BY <1>0, <3>2, <3>3, <3>4, <3>6, <3>7
  <2>3. CASE Bt(conns, ops)!LinkDown
    <3>1. PICK h \in t_up : /\ t_up' = t_up \ {h} /\ Bt(conns, ops)!Put(Bt(conns, ops)!Event("down", h, 0))
                            /\ t_held' = [t_held EXCEPT ![h] = 0] /\ t_spilled' = t_spilled + t_held[h]
      BY <2>3 DEF Bt!LinkDown
    <3>2. h \in conns BY BtRest
    <3>3. t_held[h] \in 0..Total BY <1>0, <3>2
    <3>4. UNCHANGED <<t_call, t_credits, t_seen, t_answered, t_asked, t_late, t_gaveUp, t_missed, t_cut>>
      BY <2>3 DEF Bt!LinkDown, Bt!host
    <3>5. t_line' = Append(t_line, [kind |-> "down", what |-> h, n |-> 0]) BY <3>1 DEF Bt!Put, Bt!Event
    <3>6. 0 \in 0..Total OBVIOUS
    <3>7. t_spilled' \in Nat /\ 0 + 0 + t_spilled' = t_held[h] + t_spilled BY <1>0, <3>1, <3>3
    <3>8. t_up' \subseteq t_up \cup {h} /\ t_held' = [t_held EXCEPT ![h] = 0] BY <3>1
    <3> WITNESS h \in conns
    <3> WITNESS "down" \in {"completed", "up", "down"}
    <3> WITNESS 0 \in 0..Total
    <3> WITNESS 0 \in 0..Total
    <3> QED BY <3>4, <3>5, <3>7, <3>8
  <2> QED BY <2>1, <2>2, <2>3
<1> DEFINE p == [kind |-> k, what |-> h, n |-> n]
<1>2. p \in Packet(conns, ops) BY DEF Packet
<1>3. p.kind = k /\ p.kind # "answer" /\ p.what = h /\ p.n = n /\ Tally(p) = IF k = "completed" THEN n ELSE 0 BY DEF Tally
<1>4. t_line' = Append(t_line, p) BY <1>1
<1> HIDE DEF p
<1>5. t_late' \subseteq t_gaveUp BY <1>1, BtRest DEF Overdue
<1>6. /\ t_line' \in Seq(Packet(conns, ops)) /\ About(conns, ops)' /\ Overdue(ops)'
      /\ Cardinality(Way(t_line')) = Cardinality(Way(t_line)) + Tally(p)
  BY <1>1, <1>2, <1>3, <1>4, <1>5, BtPut
<1>7. /\ t_held' \in [conns -> 0..Total]
      /\ Cardinality(Units(conns, t_held')) = Cardinality(Units(conns, t_held)) + m - t_held[h]
  BY <1>0, <1>1, HeldChange
<1>8. t_credits' \in Nat /\ t_credits' + Cardinality(Units(conns, t_held')) + Cardinality(Way(t_line')) + t_spilled' = Total
  <2>1. /\ t_credits \in Nat /\ Cardinality(Units(conns, t_held)) \in Nat /\ Cardinality(Way(t_line)) \in Nat
        /\ t_credits + Cardinality(Units(conns, t_held)) + Cardinality(Way(t_line)) + t_spilled = Total
    BY BtParts
  <2>2. t_held[h] \in 0..Total BY <1>0
  <2>3. t_spilled' \in Nat /\ t_credits' = t_credits /\ m + Tally(p) + t_spilled' = t_held[h] + t_spilled BY <1>1, <1>3
  <2>4. Tally(p) \in Nat BY <1>3
  <2> DEFINE u == Cardinality(Units(conns, t_held))
             v == Cardinality(Units(conns, t_held'))
             w == Cardinality(Way(t_line))
             x == Cardinality(Way(t_line'))
             c == Tally(p)
             d == t_held[h]
  <2>5. /\ t_credits \in Nat /\ u \in Nat /\ w \in Nat /\ t_spilled \in Nat /\ t_spilled' \in Nat
        /\ d \in Nat /\ c \in Nat /\ m \in Nat
        /\ t_credits + u + w + t_spilled = Total /\ v = u + m - d /\ x = w + c
        /\ m + c + t_spilled' = d + t_spilled
    BY <1>0, <1>6, <1>7, <2>1, <2>2, <2>3, <2>4
  <2> HIDE DEF u, v, w, x, c, d
  <2>6. t_credits + v + x + t_spilled' = Total
    <3> DEFINE r == t_credits
               s == t_spilled
               z == t_spilled'
    <3>1. r \in Nat /\ s \in Nat /\ z \in Nat /\ r + u + w + s = Total /\ m + c + z = d + s BY <2>5
    <3> HIDE DEF r, s, z
    <3>2. r + (u + m - d) + (w + c) + z = Total BY <2>5, <3>1, SMTT(30)
    <3> QED BY <2>5, <3>2 DEF r, z
  <2> QED BY <2>1, <2>3, <2>6 DEF v, x
<1>9. t_up' \subseteq conns BY <1>1, BtRest
<1>10. /\ t_call' \in {Nothing, "poll"} \cup ops /\ t_asked' \in {Nothing} \cup ops
       /\ t_seen' \subseteq conns /\ t_late' \subseteq ops /\ t_gaveUp' \subseteq ops
       /\ t_cut' \in BOOLEAN /\ t_answered' \in {Nothing} \cup [to : ops, of : ops, own : BOOLEAN]
  BY <1>1, BtRest
<1>11. Bt(conns, ops)!AnswerIsOwn' BY <1>1, BtRest DEF Bt!AnswerIsOwn
<1>12. t_spilled' \in Nat BY <1>1
<1> QED BY <1>6, <1>7, <1>8, <1>9, <1>10, <1>11, <1>12, BtWhole

LEMMA BtStep ==
  ASSUME NEW conns, NEW ops, IsFiniteSet(conns), "poll" \notin ops \cup {Nothing}, BtInv(conns, ops),
         [Bt(conns, ops)!Next]_tVars
  PROVE  BtInv(conns, ops)'
<1>1. CASE UNCHANGED tVars BY <1>1 DEF tVars, BtInv, About, Overdue, Bt!TypeOK, Bt!BuffersAddUp, Bt!InUse, Bt!Returning,
                                 Bt!Completed, Bt!AnswerIsOwn, Bt!Cardinality
<1>2. CASE \E h \in conns : Bt(conns, ops)!Send(h) BY <1>2, BtSend
<1>3. CASE \/ \E op \in ops : Bt(conns, ops)!Command(op)
           \/ Bt(conns, ops)!Poll \/ Bt(conns, ops)!TimesOut \/ Bt(conns, ops)!TimesOutInside
  BY <1>3, BtCalls
<1>4. CASE Bt(conns, ops)!Answered \/ Bt(conns, ops)!Skip BY <1>4, BtWaits
<1>5. CASE \/ Bt(conns, ops)!Credit \/ Bt(conns, ops)!Connected \/ Bt(conns, ops)!Disconnected
           \/ Bt(conns, ops)!PassBy
  BY <1>5, BtPolls
<1>6. CASE Bt(conns, ops)!Answer \/ Bt(conns, ops)!AnswerLate BY <1>6, BtAnswers
<1>7. CASE Bt(conns, ops)!Completes \/ Bt(conns, ops)!LinkUp \/ Bt(conns, ops)!LinkDown BY <1>7, BtLinks
<1> QED BY <1>1, <1>2, <1>3, <1>4, <1>5, <1>6, <1>7 DEF Bt!Next, Bt!Receive, Bt!Controller

\* The last event under way of a link says whether the controller has it.
OfLink(p) == p.kind \in {"up", "down"}
LastSays == \A k \in DOMAIN t_line :
              OfLink(t_line[k]) /\ (\A j \in DOMAIN t_line : j > k /\ OfLink(t_line[j]) => t_line[j].what # t_line[k].what)
                => (t_line[k].kind = "up" <=> t_line[k].what \in t_up)
LinksInv(conns, ops) == LastSays /\ Bt(conns, ops)!LinksAgree

LEMMA LinksInit == ASSUME NEW conns, NEW ops, Bt(conns, ops)!Init PROVE LinksInv(conns, ops)
BY DEF Bt!Init, LinksInv, LastSays, Bt!LinksAgree

\* Nothing is said.
LEMMA LinksSame ==
  ASSUME NEW conns, NEW ops, LinksInv(conns, ops), t_line' = t_line, t_up' = t_up, t_seen' = t_seen, t_missed' = t_missed
  PROVE  LinksInv(conns, ops)'
BY DEF LinksInv, LastSays, Bt!LinksAgree

\* A packet is read: what the view becomes by it, or that it went unseen.
Told(p) == \/ t_seen' = t_seen /\ ~OfLink(p) /\ (t_missed' <=> t_missed)
           \/ t_seen' = t_seen /\ t_missed'
           \/ t_seen' = t_seen \cup {p.what} /\ p.kind = "up" /\ t_missed' = t_missed
           \/ t_seen' = t_seen \ {p.what} /\ p.kind = "down" /\ t_missed' = t_missed
LEMMA LinksRead ==
  ASSUME NEW conns, NEW ops, BtInv(conns, ops), LinksInv(conns, ops), t_line # <<>>, t_line' = Tail(t_line),
         t_up' = t_up, Told(Head(t_line))
  PROVE  LinksInv(conns, ops)'
<1> DEFINE n == Len(t_line)
<1>1. /\ n \in Nat \ {0} /\ DOMAIN t_line = 1..n /\ DOMAIN t_line' = 1..(n - 1)
      /\ (\A k \in 1..(n - 1) : t_line'[k] = t_line[k + 1]) /\ Head(t_line) = t_line[1]
  BY Shortened DEF BtInv, Bt!TypeOK
<1> HIDE DEF n
<1>2. LastSays'
  <2> SUFFICES ASSUME NEW k \in 1..(n - 1), OfLink(t_line'[k]),
                      \A j \in 1..(n - 1) : j > k /\ OfLink(t_line'[j]) => t_line'[j].what # t_line'[k].what
               PROVE  t_line'[k].kind = "up" <=> t_line'[k].what \in t_up
    BY <1>1 DEF LastSays
  <2>1. k + 1 \in 1..n /\ t_line'[k] = t_line[k + 1] BY <1>1
  <2>2. ASSUME NEW j \in 1..n, j > k + 1, OfLink(t_line[j]) PROVE t_line[j].what # t_line[k + 1].what
    <3>1. j - 1 \in 1..(n - 1) /\ j - 1 > k /\ (j - 1) + 1 = j BY <1>1, <2>2
    <3>2. t_line'[j - 1] = t_line[j] BY <1>1, <3>1
    <3> QED BY <2>1, <2>2, <3>1, <3>2
  <2> QED BY <1>1, <2>1, <2>2 DEF LinksInv, LastSays
<1>3. Bt(conns, ops)!LinksAgree'
  <2> SUFFICES ASSUME NEW h \in conns, ~t_missed', \A k \in 1..(n - 1) : OfLink(t_line'[k]) => t_line'[k].what # h
               PROVE  h \in t_seen' <=> h \in t_up
    BY <1>1 DEF Bt!LinksAgree, OfLink
  <2>1. ASSUME NEW k \in 1..n, k # 1, OfLink(t_line[k]) PROVE t_line[k].what # h
    <3>1. k - 1 \in 1..(n - 1) /\ (k - 1) + 1 = k BY <1>1, <2>1
    <3>2. t_line'[k - 1] = t_line[k] BY <1>1, <3>1
    <3> QED BY <2>1, <3>1, <3>2
  <2>2. CASE OfLink(t_line[1]) /\ t_line[1].what = h
    <3>1. 1 \in 1..n BY <1>1
    <3>2. t_line[1].kind = "up" <=> h \in t_up BY <1>1, <2>1, <2>2, <3>1 DEF LinksInv, LastSays
    <3>3. t_line[1].kind \in {"up", "down"} BY <2>2 DEF OfLink
    <3> QED BY <1>1, <2>2, <3>2, <3>3 DEF Told
  <2>3. CASE ~(OfLink(t_line[1]) /\ t_line[1].what = h)
    <3>1. \A k \in DOMAIN t_line : OfLink(t_line[k]) => t_line[k].what # h BY <1>1, <2>1, <2>3
    <3>2. ~t_missed BY DEF Told
    <3>3. h \in t_seen <=> h \in t_up BY <3>1, <3>2 DEF LinksInv, Bt!LinksAgree, OfLink
    <3>4. h \in t_seen' <=> h \in t_seen BY <1>1, <2>3 DEF Told, OfLink
    <3> QED BY <3>3, <3>4
  <2> QED BY <2>2, <2>3
<1> QED BY <1>2, <1>3 DEF LinksInv

\* A packet is put on the line: it says what becomes of a link, if of any.
Puts(h) == \E p \in [kind : {"answer", "completed", "up", "down"}, what : {h}, n : 0..Total] :
             /\ t_line' = Append(t_line, p)
             /\ \/ ~OfLink(p) /\ t_up' = t_up
                \/ p.kind = "up" /\ t_up' = t_up \cup {h}
                \/ p.kind = "down" /\ t_up' = t_up \ {h}
LEMMA LinksPut ==
  ASSUME NEW conns, NEW ops, BtInv(conns, ops), LinksInv(conns, ops), NEW h \in conns \cup ops, Puts(h),
         t_seen' = t_seen, t_missed' = t_missed
  PROVE  LinksInv(conns, ops)'
<1> DEFINE n == Len(t_line)
<1>1. PICK p \in [kind : {"answer", "completed", "up", "down"}, what : {h}, n : 0..Total] :
             /\ t_line' = Append(t_line, p)
             /\ \/ ~OfLink(p) /\ t_up' = t_up
                \/ p.kind = "up" /\ t_up' = t_up \cup {h}
                \/ p.kind = "down" /\ t_up' = t_up \ {h}
  BY DEF Puts
<1>2. /\ n \in Nat /\ DOMAIN t_line = 1..n /\ DOMAIN t_line' = 1..(n + 1)
      /\ (\A k \in 1..n : t_line'[k] = t_line[k]) /\ t_line'[n + 1] = p
  <2>1. t_line \in Seq([kind : {"answer", "completed", "up", "down"}, what : conns \cup ops, n : 0..Total])
    BY DEF BtInv, Bt!TypeOK
  <2>2. p \in [kind : {"answer", "completed", "up", "down"}, what : conns \cup ops, n : 0..Total] OBVIOUS
  <2> HIDE DEF n
  <2>3. Append(t_line, p)[Len(t_line) + 1] = p BY <2>1, <2>2, Appended
  <2> QED BY <1>1, <2>1, <2>2, <2>3, Appended DEF n
<1> HIDE DEF n
<1>3. \A k \in 1..n : k \in 1..(n + 1) /\ n + 1 > k BY <1>2
<1>4. LastSays'
  <2> SUFFICES ASSUME NEW k \in 1..(n + 1), OfLink(t_line'[k]),
                      \A j \in 1..(n + 1) : j > k /\ OfLink(t_line'[j]) => t_line'[j].what # t_line'[k].what
               PROVE  t_line'[k].kind = "up" <=> t_line'[k].what \in t_up'
    BY <1>2 DEF LastSays
  <2>1. CASE k = n + 1 BY <1>1, <1>2, <2>1 DEF OfLink
  <2>2. CASE k \in 1..n
    <3>1. \A j \in 1..n : j > k /\ OfLink(t_line[j]) => t_line[j].what # t_line[k].what BY <1>2, <1>3, <2>2
    <3>2. t_line[k].kind = "up" <=> t_line[k].what \in t_up BY <1>2, <2>2, <3>1 DEF LinksInv, LastSays
    <3>3. n + 1 \in 1..(n + 1) BY <1>2
    <3>4. OfLink(p) => p.what # t_line[k].what BY <1>2, <1>3, <2>2, <3>3
    <3>5. t_line[k].what \in t_up' <=> t_line[k].what \in t_up BY <1>1, <3>4 DEF OfLink
    <3> QED BY <1>2, <2>2, <3>2, <3>5
  <2> QED BY <1>2, <2>1, <2>2
<1>5. Bt(conns, ops)!LinksAgree'
  <2> SUFFICES ASSUME NEW g \in conns, ~t_missed, \A k \in 1..(n + 1) : OfLink(t_line'[k]) => t_line'[k].what # g
               PROVE  g \in t_seen <=> g \in t_up'
    BY <1>2 DEF Bt!LinksAgree, OfLink
  <2>1. \A k \in DOMAIN t_line : OfLink(t_line[k]) => t_line[k].what # g BY <1>2, <1>3
  <2>2. g \in t_seen <=> g \in t_up BY <2>1 DEF LinksInv, Bt!LinksAgree, OfLink
  <2>3. n + 1 \in 1..(n + 1) BY <1>2
  <2>4. OfLink(p) => p.what # g BY <1>2, <2>3
  <2>5. g \in t_up' <=> g \in t_up BY <1>1, <2>4 DEF OfLink
  <2> QED BY <2>2, <2>5
<1> QED BY <1>4, <1>5 DEF LinksInv

LEMMA LinksStep ==
  ASSUME NEW conns, NEW ops, BtInv(conns, ops), LinksInv(conns, ops), [Bt(conns, ops)!Next]_tVars
  PROVE  LinksInv(conns, ops)'
<1>1. CASE UNCHANGED tVars BY <1>1, LinksSame DEF tVars
<1>2. CASE \E h \in conns : Bt(conns, ops)!Send(h) BY <1>2, LinksSame DEF Bt!Send
<1>3. CASE \/ \E op \in ops : Bt(conns, ops)!Command(op)
           \/ Bt(conns, ops)!Poll \/ Bt(conns, ops)!TimesOut \/ Bt(conns, ops)!TimesOutInside
  BY <1>3, LinksSame DEF Bt!Command, Bt!Poll, Bt!TimesOut, Bt!TimesOutInside, Bt!controller, Bt!history
<1>4. CASE Bt(conns, ops)!Receive
  <2>1. t_line # <<>> /\ t_line' = Tail(t_line) /\ t_up' = t_up
    BY <1>4 DEF Bt!Receive, Bt!Answered, Bt!Skip, Bt!Credit, Bt!Connected, Bt!Disconnected, Bt!PassBy, Bt!Front, Bt!Taken
  <2>2. Told(Head(t_line))
    <3>1. CASE Bt(conns, ops)!Skip
      <4>1. t_seen' = t_seen /\ t_missed' = (t_missed \/ Head(t_line).kind \in {"up", "down"}) BY <3>1 DEF Bt!Skip, Bt!host
      <4>2. CASE OfLink(Head(t_line)) BY <4>1, <4>2 DEF Told, OfLink
      <4>3. CASE ~OfLink(Head(t_line))
        <5>1. t_missed' = (t_missed \/ FALSE) BY <4>1, <4>3 DEF OfLink
        <5> QED BY <4>1, <4>3, <5>1 DEF Told
      <4> QED BY <4>2, <4>3
    <3>2. CASE Bt(conns, ops)!Answered \/ Bt(conns, ops)!Credit \/ Bt(conns, ops)!PassBy
      BY <3>2 DEF Bt!Answered, Bt!Credit, Bt!PassBy, Bt!Front, Bt!host, Bt!history, Told, OfLink
    <3>3. CASE Bt(conns, ops)!Connected \/ Bt(conns, ops)!Disconnected
      BY <3>3 DEF Bt!Connected, Bt!Disconnected, Bt!Front, Bt!history, Told
    <3> QED BY <1>4, <3>1, <3>2, <3>3 DEF Bt!Receive
  <2> QED BY <2>1, <2>2, LinksRead
<1>5. CASE Bt(conns, ops)!Controller
  <2>1. t_seen' = t_seen /\ t_missed' = t_missed
    BY <1>5 DEF Bt!Controller, Bt!Answer, Bt!AnswerLate, Bt!Completes, Bt!LinkUp, Bt!LinkDown, Bt!host, Bt!history
  <2>2. \E h \in conns \cup ops : Puts(h)
    <3>1. CASE Bt(conns, ops)!Answer \/ Bt(conns, ops)!AnswerLate
      <4>1. PICK op \in ops, n \in {0, 1} : t_line' = Append(t_line, Bt(conns, ops)!Event("answer", op, n)) /\ t_up' = t_up
        BY <3>1 DEF Bt!Answer, Bt!AnswerLate, Bt!Put, BtInv, Bt!TypeOK
      <4>2. n \in 0..Total BY BtAssumption
      <4> QED BY <4>1, <4>2 DEF Bt!Event, Puts, OfLink
    <3>2. CASE Bt(conns, ops)!Completes
      <4>1. PICK h \in conns : \E n \in 1..t_held[h] : t_line' = Append(t_line, Bt(conns, ops)!Event("completed", h, n)) /\ t_up' = t_up
        BY <3>2 DEF Bt!Completes, Bt!Put, BtInv, Bt!TypeOK
      <4>2. PICK n \in 1..t_held[h] : t_line' = Append(t_line, Bt(conns, ops)!Event("completed", h, n)) /\ t_up' = t_up
        BY <4>1
      <4>3. n \in 0..Total BY BtAssumption DEF BtInv, Bt!TypeOK
      <4> QED BY <4>2, <4>3 DEF Bt!Event, Puts, OfLink
    <3>3. CASE Bt(conns, ops)!LinkUp
      <4>1. PICK h \in conns : t_line' = Append(t_line, Bt(conns, ops)!Event("up", h, 0)) /\ t_up' = t_up \cup {h}
        BY <3>3 DEF Bt!LinkUp, Bt!Put
      <4> QED BY <4>1, BtAssumption DEF Bt!Event, Puts
    <3>4. CASE Bt(conns, ops)!LinkDown
      <4>1. PICK h \in conns : t_line' = Append(t_line, Bt(conns, ops)!Event("down", h, 0)) /\ t_up' = t_up \ {h}
        BY <3>4 DEF Bt!LinkDown, Bt!Put, BtInv, Bt!TypeOK
      <4> QED BY <4>1, BtAssumption DEF Bt!Event, Puts
    <3> QED BY <1>5, <3>1, <3>2, <3>3, <3>4 DEF Bt!Controller
  <2> QED BY <2>1, <2>2, LinksPut
<1> QED BY <1>1, <1>2, <1>3, <1>4, <1>5 DEF Bt!Next

HIDE BtAssumption

-----------------------------------------------------------------------------
(* Pairing. *)

\* At most one message of some kinds, and none.
Few(s, kinds) == \A j, k \in DOMAIN s : s[j].type \in kinds /\ s[k].type \in kinds => j = k
Empty(s, kinds) == \A j \in DOMAIN s : s[j].type \notin kinds

\* What is answered, what answers it, and the two halves of a bond.
Asks == {"Request", "Confirm", "Random", "KeyRequest"}
Replies == {"Response", "Confirm", "Random", "Failed"}
Halves == {"Ltk", "Ident"}

\* The two ends' states.
PeripheralState == [state : {"Idle", "WaitConfirm", "WaitRandom", "WaitLtk"}, prnd : Pair!Numbers,
                    mconfirm : Pair!Numbers, stk : Pair!Numbers \X Pair!Numbers, bond : Pair!Numbers,
                    distributed : BOOLEAN]
CentralState == [state : {"Idle", "WaitResponse", "WaitConfirm", "WaitRandom", "WaitEncryption"},
                 mrand : Pair!Numbers, sconfirm : Pair!Numbers, stk : Pair!Numbers \X Pair!Numbers,
                 ltk : Pair!Numbers, ident : Pair!Numbers, haveBond : BOOLEAN]
PairTypes == Pair!TypeOK /\ p_r \in PeripheralState /\ p_i \in CentralState

\* One message of an exchange is under way, and none once it has come to nothing.
InTurn == p_up =>
  /\ Few(p_toR, Asks) /\ Few(p_toI, Replies)
  /\ Empty(p_toR, Asks) \/ Empty(p_toI, Replies)
  /\ p_i.state = "Idle" /\ p_secret = Pair!NoKey => Empty(p_toR, Asks) /\ Empty(p_toI, Replies)

\* A link is up from an exchange not begun to its end, and the key in use is the link's.
OnLink == /\ p_up => Empty(p_toR, {"Down"}) /\ Empty(p_toI, {"Down"})
          /\ p_up /\ p_began = 0 => /\ p_toR = <<>> /\ p_toI = <<>> /\ p_i.state = "Idle"
                                    /\ p_r.stk = Pair!NoKey /\ p_secret = Pair!NoKey
          /\ ~p_up => p_secret = Pair!NoKey
          /\ \A k \in DOMAIN p_toR : p_toR[k].type = "Down" => k = Len(p_toR)

\* The random that the central reveals is the one it drew, and the key of the peripheral is of it.
Revealed == /\ p_i.state \in {"WaitConfirm", "WaitRandom"} => p_i.mrand # 0
            /\ p_up => /\ \A k \in DOMAIN p_toR : p_toR[k].type = "Random" => p_toR[k].value = p_i.mrand
                       /\ \A k \in DOMAIN p_toI :
                            p_toI[k].type = "Random" => p_r.stk = <<p_toI[k].value, p_i.mrand>>

\* The key asked for is the one the central encrypts with.
Asked(v, secret, stk, bond, cut) ==
  /\ secret # Pair!NoKey
  /\ v = 0 => secret = stk
  /\ v # 0 => stk = Pair!NoKey /\ (bond = v /\ ~cut => secret = Pair!Ltk(v))
KeyAsked == p_up => \A k \in DOMAIN p_toR :
                      p_toR[k].type = "KeyRequest" => Asked(p_toR[k].value, p_secret, p_r.stk, p_r.bond, p_cut)

\* The halves of one bond at a time are under way, the key first, and it is the last one drawn.
Halved ==
  /\ p_i.haveBond => p_i.ltk # 0 /\ p_i.ident # 0
  /\ p_i.ident <= p_draws
  /\ \A k \in DOMAIN p_toI : p_toI[k].type \in Halves =>
       /\ p_toI[k].value \in 1..p_draws
       /\ p_cut \/ p_toI[k].value = p_r.bond
       /\ p_r.distributed \/ (p_toR = <<>> /\ ~p_up)
  /\ \A k \in DOMAIN p_toI : p_toI[k].type = "Ltk" => p_toI[k].value # p_i.ident
  /\ \A k \in DOMAIN p_toI : p_toI[k].type = "Ident" =>
       IF k = 1 THEN p_i.ltk = p_toI[k].value ELSE p_toI[k - 1] = Pair!Msg("Ltk", p_toI[k].value)
  /\ Few(p_toI, {"Ltk"})
  /\ \A j, k \in DOMAIN p_toI : p_toI[j].type = "Ident" /\ p_toI[k].type = "Ltk" => k < j

PairInv == PairTypes /\ InTurn /\ OnLink /\ Revealed /\ KeyAsked /\ Halved /\ Pair!KeysAgree /\ Pair!BondsAgree

LEMMA TwoAppended ==
  ASSUME NEW S, NEW s \in Seq(S), NEW a \in S, NEW b \in S
  PROVE  /\ Len(s) \in Nat /\ DOMAIN s = 1..Len(s)
         /\ s \o <<a, b>> \in Seq(S) /\ DOMAIN (s \o <<a, b>>) = 1..(Len(s) + 2)
         /\ \A k \in 1..Len(s) : (s \o <<a, b>>)[k] = s[k]
         /\ (s \o <<a, b>>)[Len(s) + 1] = a /\ (s \o <<a, b>>)[Len(s) + 2] = b
<1> DEFINE p == <<a, b>>
<1>1. p \in Seq(S) /\ Len(p) = 2 /\ p[1] = a /\ p[2] = b OBVIOUS
<1> HIDE DEF p
<1>2. Len(s) \in Nat /\ DOMAIN s = 1..Len(s) BY LenProperties
<1>3. s \o p \in Seq(S) /\ Len(s \o p) = Len(s) + 2
  <2>1. s \o p \in Seq(S) BY <1>1, ConcatProperties
  <2>2. Len(s \o p) = Len(s) + Len(p) BY <1>1, ConcatProperties
  <2> QED BY <1>1, <2>1, <2>2
<1>4. \A k \in 1..(Len(s) + 2) : (s \o p)[k] = IF k <= Len(s) THEN s[k] ELSE p[k - Len(s)]
  BY <1>1, <1>2, ConcatProperties, SMTT(30)
<1>5. DOMAIN (s \o p) = 1..(Len(s) + 2) BY <1>3, LenProperties
<1> DEFINE n == Len(s)
<1>6. n \in Nat BY <1>2
<1> HIDE DEF n
<1>7. (n + 1) - n = 1 /\ (n + 2) - n = 2 /\ ~(n + 1 <= n) /\ ~(n + 2 <= n) /\ n + 1 \in 1..(n + 2) /\ n + 2 \in 1..(n + 2)
      /\ \A k \in 1..n : k \in 1..(n + 2) /\ k <= n
  BY <1>6
<1>8. (s \o p)[n + 1] = p[1] /\ (s \o p)[n + 2] = p[2] /\ \A k \in 1..n : (s \o p)[k] = s[k]
  BY <1>4, <1>7 DEF n
<1> QED BY <1>1, <1>2, <1>3, <1>5, <1>8 DEF p, n

USE PairAssumption

LEMMA TailKeeps ==
  ASSUME NEW s \in Seq(Pair!Message), s # <<>>, NEW K
  PROVE  /\ Few(s, K) => Few(Tail(s), K)
         /\ Empty(s, K) => Empty(Tail(s), K) /\ Head(s).type \notin K
         /\ Few(s, K) /\ Head(s).type \in K => Empty(Tail(s), K)
<1>1. /\ Len(s) \in Nat /\ DOMAIN s = 1..Len(s) /\ DOMAIN Tail(s) = 1..(Len(s) - 1)
      /\ \A k \in 1..(Len(s) - 1) : Tail(s)[k] = s[k + 1]
      /\ Head(s) = s[1] /\ 1 \in DOMAIN s
  BY Shortened
<1>2. \A k \in DOMAIN Tail(s) : k + 1 \in DOMAIN s /\ Tail(s)[k] = s[k + 1] /\ k + 1 # 1 /\ k \in Int BY <1>1
<1>3. Few(s, K) => Few(Tail(s), K)
  <2> SUFFICES ASSUME Few(s, K), NEW j \in DOMAIN Tail(s), NEW k \in DOMAIN Tail(s),
                      Tail(s)[j].type \in K, Tail(s)[k].type \in K
               PROVE  j = k
    BY DEF Few
  <2>1. j + 1 = k + 1 BY <1>2 DEF Few
  <2> QED BY <1>2, <2>1
<1>4. Empty(s, K) => Empty(Tail(s), K) /\ Head(s).type \notin K BY <1>1, <1>2 DEF Empty
<1>5. Few(s, K) /\ Head(s).type \in K => Empty(Tail(s), K)
  <2> SUFFICES ASSUME Few(s, K), Head(s).type \in K, NEW k \in DOMAIN Tail(s), Tail(s)[k].type \in K
               PROVE  FALSE
    BY DEF Empty
  <2>1. k + 1 = 1 BY <1>1, <1>2 DEF Few
  <2> QED BY <1>2, <2>1
<1> QED BY <1>3, <1>4, <1>5

LEMMA AppendKeeps ==
  ASSUME NEW s \in Seq(Pair!Message), NEW m \in Pair!Message, NEW K
  PROVE  /\ Empty(s, K) => Few(Append(s, m), K)
         /\ Empty(s, K) /\ m.type \notin K => Empty(Append(s, m), K)
         /\ Few(s, K) /\ m.type \notin K => Few(Append(s, m), K)
<1>1. /\ Len(s) \in Nat /\ DOMAIN s = 1..Len(s) /\ DOMAIN Append(s, m) = 1..(Len(s) + 1)
      /\ \A k \in 1..Len(s) : Append(s, m)[k] = s[k]
      /\ Append(s, m)[Len(s) + 1] = m
  BY Appended
<1>2. \A k \in DOMAIN Append(s, m) :
        (k \in DOMAIN s /\ Append(s, m)[k] = s[k]) \/ (k = Len(s) + 1 /\ Append(s, m)[k] = m)
  BY <1>1
<1>3. Empty(s, K) => Few(Append(s, m), K) BY <1>2 DEF Empty, Few
<1>4. Empty(s, K) /\ m.type \notin K => Empty(Append(s, m), K) BY <1>2 DEF Empty
<1>5. Few(s, K) /\ m.type \notin K => Few(Append(s, m), K) BY <1>2 DEF Few
<1> QED BY <1>3, <1>4, <1>5

\* An item of the queue after one was put at its end.
LEMMA InAppended ==
  ASSUME NEW s \in Seq(Pair!Message), NEW m \in Pair!Message, NEW k \in DOMAIN Append(s, m)
  PROVE  (k \in DOMAIN s /\ Append(s, m)[k] = s[k]) \/ (k = Len(s) + 1 /\ Append(s, m)[k] = m)
BY Appended

LEMMA PairInit == Pair!Init => PairInv
<1> SUFFICES ASSUME Pair!Init PROVE PairInv OBVIOUS
<1> USE DEF Pair!Init, Pair!NoKey, Pair!Zero, Pair!Numbers
<1>1. p_toR \in Seq(Pair!Message) /\ p_toI \in Seq(Pair!Message) /\ DOMAIN p_toR = {} /\ DOMAIN p_toI = {}
  OBVIOUS
<1>2. {p_up, p_sealed, p_cut, p_clash} \subseteq BOOLEAN BY Zenon
<1>3. 0 \in 0..Draws /\ <<0, 0>> \in (0..Draws) \X (0..Draws) OBVIOUS
<1>4. PairTypes
  <2>1. p_r \in PeripheralState BY <1>3 DEF PeripheralState
  <2>2. p_i \in CentralState BY <1>3 DEF CentralState
  <2>3. Pair!TypeOK
    <3>1. p_secret \in Pair!Numbers \X Pair!Numbers /\ p_began \in 0..Pairings
          /\ p_draws \in Pair!Numbers /\ p_saved \in Pair!Numbers
      BY <1>3
    <3> QED BY <1>1, <1>2, <2>1, <2>2, <3>1 DEF Pair!TypeOK
  <2> QED BY <2>1, <2>2, <2>3 DEF PairTypes
<1>5. InTurn /\ OnLink /\ Revealed /\ KeyAsked BY DEF InTurn, OnLink, Revealed, KeyAsked
<1>6. Halved BY <1>1 DEF Halved, Few
<1> QED BY <1>4, <1>5, <1>6 DEF PairInv, Pair!KeysAgree, Pair!BondsAgree

\* The halves of a bond that are still under way, after a step that none was sent or taken in.
LEMMA HalvesStay ==
  ASSUME PairInv, PairTypes', p_draws <= p_draws',
         p_i'.ltk = p_i.ltk, p_i'.ident = p_i.ident, p_i'.haveBond = p_i.haveBond,
         p_cut' \/ (p_cut' = p_cut /\ p_r'.bond = p_r.bond),
         p_r'.distributed \/ (p_toR' = <<>> /\ ~p_up') \/ Empty(p_toI', Halves),
         \A k \in DOMAIN p_toI' : p_toI'[k].type \in Halves =>
           \A j \in 1..k : j \in DOMAIN p_toI /\ p_toI'[j] = p_toI[j]
  PROVE  Halved'
<1>0. p_toI' \in Seq(Pair!Message) /\ p_draws \in Int /\ p_draws' \in Int /\ p_i.ident \in Int
  BY DEF PairInv, PairTypes, CentralState, Pair!TypeOK, Pair!Numbers
<1>1. \A k \in DOMAIN p_toI' : k \in 1..k /\ (k # 1 => k - 1 \in 1..k)
  BY <1>0, LenProperties
<1>2. \A k \in DOMAIN p_toI' : p_toI'[k].type \in Halves => k \in DOMAIN p_toI /\ p_toI'[k] = p_toI[k]
  BY <1>1
<1>3. \A k \in DOMAIN p_toI' : p_toI'[k].type \in Halves =>
        /\ p_toI'[k].value \in 1..p_draws'
        /\ p_cut' \/ p_toI'[k].value = p_r'.bond
        /\ p_r'.distributed \/ (p_toR' = <<>> /\ ~p_up')
  <2> SUFFICES ASSUME NEW k \in DOMAIN p_toI', p_toI'[k].type \in Halves
               PROVE  /\ p_toI'[k].value \in 1..p_draws'
                      /\ p_cut' \/ p_toI'[k].value = p_r'.bond
                      /\ p_r'.distributed \/ (p_toR' = <<>> /\ ~p_up')
    OBVIOUS
  <2>1. k \in DOMAIN p_toI /\ p_toI'[k] = p_toI[k] BY <1>2
  <2>2. p_toI[k].value \in 1..p_draws /\ (p_cut \/ p_toI[k].value = p_r.bond) BY <2>1 DEF PairInv, Halved
  <2>3. p_toI'[k].value \in 1..p_draws' BY <1>0, <2>1, <2>2
  <2> QED BY <2>1, <2>2, <2>3 DEF Empty
<1>4. \A k \in DOMAIN p_toI' : p_toI'[k].type = "Ltk" => p_toI'[k].value # p_i'.ident
  BY <1>2 DEF PairInv, Halved, Halves
<1>5. ASSUME NEW k \in DOMAIN p_toI', p_toI'[k].type = "Ident"
      PROVE  IF k = 1 THEN p_i'.ltk = p_toI'[k].value ELSE p_toI'[k - 1] = Pair!Msg("Ltk", p_toI'[k].value)
  <2>1. k \in DOMAIN p_toI /\ p_toI'[k] = p_toI[k] BY <1>2, <1>5 DEF Halves
  <2>2. IF k = 1 THEN p_i.ltk = p_toI[k].value ELSE p_toI[k - 1] = Pair!Msg("Ltk", p_toI[k].value)
    BY <1>5, <2>1 DEF PairInv, Halved
  <2>3. k # 1 => p_toI'[k - 1] = p_toI[k - 1] BY <1>1, <1>5 DEF Halves
  <2> QED BY <2>1, <2>2, <2>3
<1>6. Few(p_toI', {"Ltk"}) BY <1>2 DEF PairInv, Halved, Few, Halves
<1>7. \A j, k \in DOMAIN p_toI' : p_toI'[j].type = "Ident" /\ p_toI'[k].type = "Ltk" => k < j
  BY <1>2 DEF PairInv, Halved, Halves
<1>8. (p_i'.haveBond => p_i'.ltk # 0 /\ p_i'.ident # 0) /\ p_i'.ident <= p_draws'
  BY <1>0 DEF PairInv, Halved
<1> QED BY <1>3, <1>4, <1>5, <1>6, <1>7, <1>8 DEF Halved, Pair!Msg

\* The same after a message that is no half of a bond was put behind them, or nothing.
LEMMA HalvesAdded ==
  ASSUME PairInv, PairTypes', p_draws' = p_draws, p_i' = p_i, p_cut' = p_cut, p_r' = p_r, p_toR # <<>>,
         NEW m \in Pair!Message, m.type \notin Halves, p_toI' = p_toI \/ p_toI' = Append(p_toI, m)
  PROVE  Halved'
<1>0. p_toI \in Seq(Pair!Message) /\ p_draws \in Int BY DEF PairInv, PairTypes, Pair!TypeOK, Pair!Numbers
<1>1. /\ DOMAIN p_toI = 1..Len(p_toI) /\ DOMAIN Append(p_toI, m) = 1..(Len(p_toI) + 1) /\ Len(p_toI) \in Nat
      /\ \A k \in 1..Len(p_toI) : Append(p_toI, m)[k] = p_toI[k]
      /\ Append(p_toI, m)[Len(p_toI) + 1] = m
  BY <1>0, Appended
<1>2. \A k \in DOMAIN p_toI' : p_toI'[k].type \in Halves =>
        \A j \in 1..k : j \in DOMAIN p_toI /\ p_toI'[j] = p_toI[j]
  <2>1. CASE p_toI' = p_toI BY <1>1, <2>1
  <2>2. CASE p_toI' = Append(p_toI, m) BY <1>1, <2>2
  <2> QED BY <2>1, <2>2
<1>3. \A k \in DOMAIN p_toI' : k \in 1..k BY <1>1
<1>4. p_r.distributed \/ Empty(p_toI', Halves) BY <1>2, <1>3 DEF PairInv, Halved, Empty
<1> QED BY <1>0, <1>2, <1>4, HalvesStay

\* What the peripheral does with a message of the exchange.
Exchanged ==
  /\ p_toR # <<>> /\ p_toR' = Tail(p_toR) /\ Head(p_toR).type \in {"Request", "Confirm", "Random", "Failed"}
  /\ \/ p_toI' = p_toI
     \/ /\ p_up /\ Head(p_toR).type \in Asks
        /\ \E m \in Pair!Message :
             /\ p_toI' = Append(p_toI, m) /\ m.type \in Replies
             /\ m.type = "Random" => Head(p_toR).type = "Random" /\ p_r'.stk = <<m.value, Head(p_toR).value>>
  /\ Head(p_toR).type # "Random" => p_r'.stk = p_r.stk
  /\ p_r'.bond = p_r.bond /\ p_r'.distributed = p_r.distributed
  /\ p_draws' \in Pair!Numbers /\ p_draws <= p_draws'
  /\ UNCHANGED <<p_up, p_began, p_i, p_secret, p_sealed, p_saved, p_cut, p_clash>>

LEMMA PairExchanged == PairInv /\ Exchanged /\ PairTypes' => PairInv'
<1> SUFFICES ASSUME PairInv, Exchanged, PairTypes' PROVE PairInv' OBVIOUS
<1>0. p_toR \in Seq(Pair!Message) /\ p_toI \in Seq(Pair!Message) /\ p_draws \in Int /\ p_draws' \in Int
  BY DEF PairInv, PairTypes, Pair!TypeOK, Pair!Numbers
<1>1. /\ p_toR # <<>> /\ p_toR' = Tail(p_toR) /\ Head(p_toR).type \in {"Request", "Confirm", "Random", "Failed"}
      /\ Head(p_toR).type # "Random" => p_r'.stk = p_r.stk
      /\ p_r'.bond = p_r.bond /\ p_r'.distributed = p_r.distributed /\ p_draws <= p_draws'
      /\ UNCHANGED <<p_up, p_began, p_i, p_secret, p_sealed, p_saved, p_cut, p_clash>>
  BY DEF Exchanged
<1>2. /\ DOMAIN p_toR = 1..Len(p_toR) /\ DOMAIN p_toR' = 1..(Len(p_toR) - 1) /\ Len(p_toR) \in Nat
      /\ \A k \in DOMAIN p_toR' : k + 1 \in DOMAIN p_toR /\ p_toR'[k] = p_toR[k + 1]
      /\ Head(p_toR) = p_toR[1] /\ 1 \in DOMAIN p_toR
  BY <1>0, <1>1, Shortened
<1>3. p_toI' = p_toI \/ \E m \in Pair!Message :
        /\ p_up /\ Head(p_toR).type \in Asks
        /\ p_toI' = Append(p_toI, m) /\ m.type \in Replies
        /\ m.type = "Random" => Head(p_toR).type = "Random" /\ p_r'.stk = <<m.value, Head(p_toR).value>>
  BY DEF Exchanged
<1>4. p_up /\ Head(p_toR).type \in Asks =>
        /\ Empty(p_toI, Replies) /\ Empty(p_toR', Asks) /\ ~(p_i.state = "Idle" /\ p_secret = Pair!NoKey)
  BY <1>0, <1>1, TailKeeps DEF PairInv, InTurn
<1>5. \A k \in DOMAIN p_toI' : \/ k \in DOMAIN p_toI /\ p_toI'[k] = p_toI[k]
                               \/ /\ p_toI'[k].type \in Replies /\ p_up /\ Head(p_toR).type \in Asks
                                  /\ p_toI'[k].type = "Random" =>
                                       /\ Head(p_toR).type = "Random"
                                       /\ p_r'.stk = <<p_toI'[k].value, Head(p_toR).value>>
  BY <1>0, <1>3, InAppended
<1>6. InTurn'
  <2> SUFFICES ASSUME p_up PROVE InTurn' BY <1>1 DEF InTurn
  <2>1. CASE Head(p_toR).type \in Asks
    <3>1. Few(p_toI', Replies) /\ Empty(p_toR', Asks)
      <4>1. CASE p_toI' = p_toI BY <1>4, <2>1, <4>1 DEF PairInv, InTurn
      <4>2. CASE p_toI' # p_toI BY <1>0, <1>3, <1>4, <2>1, <4>2, AppendKeeps
      <4> QED BY <4>1, <4>2
    <3>2. Few(p_toR', Asks) BY <3>1 DEF Few, Empty
    <3> QED BY <1>1, <1>4, <2>1, <3>1, <3>2 DEF InTurn
  <2>2. CASE Head(p_toR).type \notin Asks
    <3>1. p_toI' = p_toI BY <1>3, <2>2
    <3>2. Few(p_toR', Asks) /\ (Empty(p_toR, Asks) => Empty(p_toR', Asks))
      BY <1>0, <1>1, TailKeeps DEF PairInv, InTurn
    <3> QED BY <1>1, <3>1, <3>2 DEF PairInv, InTurn
  <2> QED BY <2>1, <2>2
<1>7. OnLink'
  <2>1. p_up => Empty(p_toR', {"Down"}) BY <1>0, <1>1, TailKeeps DEF PairInv, OnLink
  <2>2. p_up => Empty(p_toI', {"Down"}) BY <1>5 DEF PairInv, OnLink, Empty, Replies
  <2>3. \A k \in DOMAIN p_toR' : p_toR'[k].type = "Down" => k = Len(p_toR')
    BY <1>0, <1>1, <1>2, Shortened DEF PairInv, OnLink
  <2> QED BY <1>1, <2>1, <2>2, <2>3 DEF PairInv, OnLink
<1>8. Revealed'
  <2>1. p_up => \A k \in DOMAIN p_toR' : p_toR'[k].type = "Random" => p_toR'[k].value = p_i.mrand
    BY <1>2 DEF PairInv, Revealed
  <2>2. ASSUME p_up, NEW k \in DOMAIN p_toI', p_toI'[k].type = "Random"
        PROVE  p_r'.stk = <<p_toI'[k].value, p_i.mrand>>
    <3>1. CASE Head(p_toR).type = "Random"
      <4>1. ~(k \in DOMAIN p_toI /\ p_toI'[k] = p_toI[k])
        BY <1>4, <2>2, <3>1 DEF Empty, Asks, Replies
      <4>2. Head(p_toR).value = p_i.mrand BY <1>2, <2>2, <3>1 DEF PairInv, Revealed
      <4> QED BY <1>5, <2>2, <4>1, <4>2
    <3>2. CASE Head(p_toR).type # "Random"
      <4>1. k \in DOMAIN p_toI /\ p_toI'[k] = p_toI[k] BY <1>5, <2>2, <3>2
      <4> QED BY <1>1, <2>2, <3>2, <4>1 DEF PairInv, Revealed
    <3> QED BY <3>1, <3>2
  <2> QED BY <1>1, <2>1, <2>2 DEF PairInv, Revealed
<1>9. KeyAsked'
  <2> SUFFICES ASSUME p_up, NEW k \in DOMAIN p_toR', p_toR'[k].type = "KeyRequest"
               PROVE  Asked(p_toR'[k].value, p_secret', p_r'.stk, p_r'.bond, p_cut')
    BY <1>1 DEF KeyAsked
  <2>1. Head(p_toR).type \notin Asks BY <1>4 DEF Empty, Asks
  <2>2. Asked(p_toR[k + 1].value, p_secret, p_r.stk, p_r.bond, p_cut) BY <1>2 DEF PairInv, KeyAsked
  <2>3. p_r'.stk = p_r.stk BY <1>1, <2>1 DEF Asks
  <2> QED BY <1>1, <1>2, <2>2, <2>3 DEF Asked, Pair!Ltk
<1>10. Halved'
  <2>1. \A k \in DOMAIN p_toI : k \in DOMAIN p_toI' /\ p_toI'[k] = p_toI[k]
    <3>1. CASE p_toI' = p_toI BY <3>1
    <3>2. CASE p_toI' # p_toI
      <4>1. PICK m \in Pair!Message : p_toI' = Append(p_toI, m) BY <1>3, <3>2
      <4>2. /\ DOMAIN p_toI = 1..Len(p_toI) /\ DOMAIN Append(p_toI, m) = 1..(Len(p_toI) + 1) /\ Len(p_toI) \in Nat
            /\ \A k \in 1..Len(p_toI) : Append(p_toI, m)[k] = p_toI[k]
        BY <1>0, Appended
      <4> QED BY <4>1, <4>2
    <3> QED BY <3>1, <3>2
  <2>2. \A k \in DOMAIN p_toI' : p_toI'[k].type \in Halves => k \in DOMAIN p_toI /\ p_toI'[k] = p_toI[k]
    BY <1>5 DEF Halves, Replies
  <2>3. \A k \in DOMAIN p_toI' : p_toI'[k].type \in Halves =>
          \A j \in 1..k : j \in DOMAIN p_toI /\ p_toI'[j] = p_toI[j]
    <3>1. DOMAIN p_toI = 1..Len(p_toI) /\ Len(p_toI) \in Nat BY <1>0, LenProperties
    <3> QED BY <2>1, <2>2, <3>1
  <2>4. p_r'.distributed \/ (p_toR' = <<>> /\ ~p_up') \/ Empty(p_toI', Halves)
    BY <1>1, <2>2 DEF PairInv, Halved, Empty
  <2> QED BY <1>1, <2>3, <2>4, HalvesStay
<1>11. Pair!KeysAgree' /\ Pair!BondsAgree' BY <1>1 DEF PairInv, Pair!KeysAgree, Pair!BondsAgree
<1> QED BY <1>6, <1>7, <1>8, <1>9, <1>10, <1>11 DEF PairInv

\* What the central does with a message that is no half of a bond.
Followed ==
  /\ p_toI # <<>> /\ p_toI' = Tail(p_toI) /\ Head(p_toI).type \notin Halves
  /\ \/ p_toR' = p_toR /\ p_secret' = p_secret
     \/ /\ p_up /\ Head(p_toI).type \in Replies
        /\ \E m \in Pair!Message :
             /\ p_toR' = Append(p_toR, m) /\ m.type \in {"Failed", "Confirm", "Random", "KeyRequest"}
             /\ m.type \in Asks => p_i'.state # "Idle"
             /\ m.type = "Random" => m.value = p_i'.mrand
             /\ IF m.type = "KeyRequest"
                  THEN /\ m.value = 0 /\ Head(p_toI).type = "Random" /\ p_i.state = "WaitRandom"
                       /\ p_i'.mrand = p_i.mrand /\ p_secret' = <<Head(p_toI).value, p_i.mrand>>
                  ELSE p_secret' = p_secret
  /\ p_i'.mrand = p_i.mrand \/ Head(p_toI).type \in Replies
  /\ p_i'.state = "Idle" => p_i.state = "Idle" \/ Head(p_toI).type \in Replies \cup {"Down"}
  /\ p_i'.state \in {"WaitConfirm", "WaitRandom"} => p_i'.mrand # 0
  /\ p_i'.ltk = p_i.ltk /\ p_i'.ident = p_i.ident /\ p_i'.haveBond = p_i.haveBond
  /\ p_draws' \in Pair!Numbers /\ p_draws <= p_draws'
  /\ UNCHANGED <<p_up, p_began, p_r, p_sealed, p_saved, p_cut, p_clash>>

LEMMA PairFollowed == PairInv /\ Followed /\ PairTypes' => PairInv'
<1> SUFFICES ASSUME PairInv, Followed, PairTypes' PROVE PairInv' OBVIOUS
<1>0. p_toR \in Seq(Pair!Message) /\ p_toI \in Seq(Pair!Message) /\ p_draws \in Int /\ p_draws' \in Int
  BY DEF PairInv, PairTypes, Pair!TypeOK, Pair!Numbers
<1>1. /\ p_toI # <<>> /\ p_toI' = Tail(p_toI) /\ Head(p_toI).type \notin Halves
      /\ p_i'.mrand = p_i.mrand \/ Head(p_toI).type \in Replies
      /\ p_i'.state = "Idle" => p_i.state = "Idle" \/ Head(p_toI).type \in Replies \cup {"Down"}
      /\ p_i'.state \in {"WaitConfirm", "WaitRandom"} => p_i'.mrand # 0
      /\ p_i'.ltk = p_i.ltk /\ p_i'.ident = p_i.ident /\ p_i'.haveBond = p_i.haveBond
      /\ p_draws <= p_draws'
      /\ UNCHANGED <<p_up, p_began, p_r, p_sealed, p_saved, p_cut, p_clash>>
  BY DEF Followed
<1>2. /\ DOMAIN p_toI = 1..Len(p_toI) /\ DOMAIN p_toI' = 1..(Len(p_toI) - 1) /\ Len(p_toI) \in Nat
      /\ \A k \in DOMAIN p_toI' : k + 1 \in DOMAIN p_toI /\ p_toI'[k] = p_toI[k + 1]
      /\ Head(p_toI) = p_toI[1] /\ 1 \in DOMAIN p_toI
  BY <1>0, <1>1, Shortened
<1>3. (p_toR' = p_toR /\ p_secret' = p_secret) \/ \E m \in Pair!Message :
        /\ p_up /\ Head(p_toI).type \in Replies
        /\ p_toR' = Append(p_toR, m) /\ m.type \in {"Failed", "Confirm", "Random", "KeyRequest"}
        /\ m.type \in Asks => p_i'.state # "Idle"
        /\ m.type = "Random" => m.value = p_i'.mrand
        /\ IF m.type = "KeyRequest"
             THEN /\ m.value = 0 /\ Head(p_toI).type = "Random" /\ p_i.state = "WaitRandom"
                  /\ p_i'.mrand = p_i.mrand /\ p_secret' = <<Head(p_toI).value, p_i.mrand>>
             ELSE p_secret' = p_secret
  BY DEF Followed
<1>4. p_up /\ Head(p_toI).type \in Replies =>
        Empty(p_toR, Asks) /\ Empty(p_toI', Replies) /\ ~(p_i.state = "Idle" /\ p_secret = Pair!NoKey)
  BY <1>0, <1>1, TailKeeps DEF PairInv, InTurn
<1>5. \A k \in DOMAIN p_toR' :
        \/ k \in DOMAIN p_toR /\ p_toR'[k] = p_toR[k]
        \/ /\ p_toR'[k].type \in {"Failed", "Confirm", "Random", "KeyRequest"}
           /\ p_up /\ Head(p_toI).type \in Replies
           /\ p_toR'[k].type = "Random" => p_toR'[k].value = p_i'.mrand
           /\ p_toR'[k].type = "KeyRequest" =>
                /\ p_toR'[k].value = 0 /\ Head(p_toI).type = "Random" /\ p_i.state = "WaitRandom"
                /\ p_secret' = <<Head(p_toI).value, p_i.mrand>>
  <2>1. CASE p_toR' = p_toR BY <2>1
  <2>2. CASE p_toR' # p_toR
    <3>1. PICK m \in Pair!Message :
        /\ p_up /\ Head(p_toI).type \in Replies
        /\ p_toR' = Append(p_toR, m) /\ m.type \in {"Failed", "Confirm", "Random", "KeyRequest"}
        /\ m.type = "Random" => m.value = p_i'.mrand
        /\ m.type = "KeyRequest" =>
             /\ m.value = 0 /\ Head(p_toI).type = "Random" /\ p_i.state = "WaitRandom"
             /\ p_secret' = <<Head(p_toI).value, p_i.mrand>>
      BY <1>3, <2>2
    <3> QED BY <1>0, <3>1, InAppended
  <2> QED BY <2>1, <2>2
<1>6. InTurn'
  <2> SUFFICES ASSUME p_up PROVE InTurn' BY <1>1 DEF InTurn
  <2>1. CASE Head(p_toI).type \in Replies
    <3>1. Empty(p_toI', Replies) /\ Empty(p_toR, Asks) BY <1>4, <2>1
    <3>2. Few(p_toI', Replies) BY <3>1 DEF Few, Empty
    <3>3. Few(p_toR', Asks) /\ (p_i'.state = "Idle" => Empty(p_toR', Asks))
      <4>1. CASE p_toR' = p_toR BY <3>1, <4>1 DEF Few, Empty
      <4>2. CASE p_toR' # p_toR BY <1>0, <1>3, <3>1, <4>2, AppendKeeps
      <4> QED BY <4>1, <4>2
    <3> QED BY <1>1, <3>1, <3>2, <3>3 DEF InTurn
  <2>2. CASE Head(p_toI).type \notin Replies
    <3>1. p_toR' = p_toR /\ p_secret' = p_secret BY <1>3, <2>2
    <3>2. Few(p_toI', Replies) /\ (Empty(p_toI, Replies) => Empty(p_toI', Replies))
      BY <1>0, <1>1, TailKeeps DEF PairInv, InTurn
    <3>3. p_i'.state = "Idle" => p_i.state = "Idle"
      BY <1>1, <1>2, <2>2 DEF PairInv, OnLink, Empty
    <3> QED BY <1>1, <3>1, <3>2, <3>3 DEF PairInv, InTurn
  <2> QED BY <2>1, <2>2
<1>7. OnLink'
  <2>1. p_up => Empty(p_toI', {"Down"}) BY <1>0, <1>1, TailKeeps DEF PairInv, OnLink
  <2>2. p_up => Empty(p_toR', {"Down"}) BY <1>5 DEF PairInv, OnLink, Empty
  <2>3. ~p_up => p_secret' = p_secret BY <1>3
  <2>4. \A k \in DOMAIN p_toR' : p_toR'[k].type = "Down" => k = Len(p_toR')
    <3>1. CASE p_toR' = p_toR BY <3>1 DEF PairInv, OnLink
    <3>2. CASE p_toR' # p_toR BY <1>1, <1>3, <2>2, <3>2 DEF Empty
    <3> QED BY <3>1, <3>2
  <2> QED BY <1>1, <2>1, <2>2, <2>3, <2>4 DEF PairInv, OnLink
<1>8. Revealed'
  <2>1. ASSUME p_up, NEW k \in DOMAIN p_toR', p_toR'[k].type = "Random" PROVE p_toR'[k].value = p_i'.mrand
    <3>1. CASE k \in DOMAIN p_toR /\ p_toR'[k] = p_toR[k]
      <4>1. Head(p_toI).type \notin Replies BY <1>4, <2>1, <3>1 DEF Empty, Asks
      <4> QED BY <1>1, <2>1, <3>1, <4>1 DEF PairInv, Revealed
    <3>2. CASE ~(k \in DOMAIN p_toR /\ p_toR'[k] = p_toR[k]) BY <1>5, <2>1, <3>2
    <3> QED BY <3>1, <3>2
  <2>2. ASSUME p_up, NEW k \in DOMAIN p_toI', p_toI'[k].type = "Random"
        PROVE  p_r'.stk = <<p_toI'[k].value, p_i'.mrand>>
    <3>1. Head(p_toI).type \notin Replies BY <1>4, <2>2 DEF Empty, Replies
    <3> QED BY <1>1, <1>2, <2>2, <3>1 DEF PairInv, Revealed
  <2> QED BY <1>1, <2>1, <2>2 DEF PairInv, Revealed
<1>9. KeyAsked'
  <2> SUFFICES ASSUME p_up, NEW k \in DOMAIN p_toR', p_toR'[k].type = "KeyRequest"
               PROVE  Asked(p_toR'[k].value, p_secret', p_r'.stk, p_r'.bond, p_cut')
    BY <1>1 DEF KeyAsked
  <2>1. CASE k \in DOMAIN p_toR /\ p_toR'[k] = p_toR[k]
    <3>1. Head(p_toI).type \notin Replies BY <1>4, <2>1 DEF Empty, Asks
    <3>2. p_secret' = p_secret BY <1>3, <3>1
    <3>3. Asked(p_toR[k].value, p_secret, p_r.stk, p_r.bond, p_cut) BY <2>1 DEF PairInv, KeyAsked
    <3> QED BY <1>1, <2>1, <3>2, <3>3 DEF Asked, Pair!Ltk
  <2>2. CASE ~(k \in DOMAIN p_toR /\ p_toR'[k] = p_toR[k])
    <3>1. /\ p_toR'[k].value = 0 /\ Head(p_toI).type = "Random" /\ p_i.state = "WaitRandom"
          /\ p_secret' = <<Head(p_toI).value, p_i.mrand>>
      BY <1>5, <2>2
    <3>2. p_r.stk = <<Head(p_toI).value, p_i.mrand>> /\ p_i.mrand # 0
      BY <1>2, <3>1 DEF PairInv, Revealed
    <3> QED BY <1>1, <3>1, <3>2 DEF Asked, Pair!NoKey, Pair!Zero
  <2> QED BY <2>1, <2>2
<1>10. Halved'
  <2>1. \A k \in DOMAIN p_toI' : p_toI'[k].type \in Halves =>
          /\ p_toI'[k].value \in 1..p_draws'
          /\ p_cut' \/ p_toI'[k].value = p_r'.bond
          /\ p_r'.distributed \/ (p_toR' = <<>> /\ ~p_up')
    BY <1>0, <1>1, <1>2, <1>3 DEF PairInv, Halved
  <2>2. \A k \in DOMAIN p_toI' : p_toI'[k].type = "Ltk" => p_toI'[k].value # p_i'.ident
    BY <1>1, <1>2 DEF PairInv, Halved
  <2>3. ASSUME NEW k \in DOMAIN p_toI', p_toI'[k].type = "Ident"
        PROVE  IF k = 1 THEN p_i'.ltk = p_toI'[k].value ELSE p_toI'[k - 1] = Pair!Msg("Ltk", p_toI'[k].value)
    <3>1. k + 1 \in DOMAIN p_toI /\ p_toI'[k] = p_toI[k + 1] /\ k + 1 # 1 /\ k \in 1..Len(p_toI) BY <1>2
    <3>2. p_toI[(k + 1) - 1] = Pair!Msg("Ltk", p_toI[k + 1].value)
      BY <2>3, <3>1 DEF PairInv, Halved
    <3>3. (k + 1) - 1 = k BY <3>1
    <3>4. k # 1 BY <1>1, <1>2, <3>2, <3>3 DEF Halves, Pair!Msg
    <3>5. k - 1 \in DOMAIN p_toI' /\ p_toI'[k - 1] = p_toI[k] BY <1>2, <3>1, <3>4
    <3> QED BY <3>1, <3>2, <3>3, <3>4, <3>5
  <2>4. Few(p_toI', {"Ltk"}) BY <1>0, <1>1, TailKeeps DEF PairInv, Halved
  <2>5. ASSUME NEW j \in DOMAIN p_toI', NEW k \in DOMAIN p_toI', p_toI'[j].type = "Ident", p_toI'[k].type = "Ltk"
        PROVE  k < j
    <3>1. k + 1 < j + 1 BY <1>2, <2>5 DEF PairInv, Halved
    <3> QED BY <1>2, <3>1
  <2>6. (p_i'.haveBond => p_i'.ltk # 0 /\ p_i'.ident # 0) /\ p_i'.ident <= p_draws'
    <3>1. p_i.ident \in Int BY DEF PairInv, PairTypes, CentralState, Pair!Numbers
    <3> QED BY <1>0, <1>1, <3>1 DEF PairInv, Halved
  <2> QED BY <2>1, <2>2, <2>3, <2>4, <2>5, <2>6 DEF Halved, Pair!Msg
<1>11. Pair!KeysAgree' /\ Pair!BondsAgree' BY <1>1 DEF PairInv, Pair!KeysAgree, Pair!BondsAgree
<1> QED BY <1>6, <1>7, <1>8, <1>9, <1>10, <1>11 DEF PairInv

\* The messages are of the right types, and so is what is drawn.
LEMMA Messages ==
  ASSUME PairTypes
  PROVE  /\ p_toR \in Seq(Pair!Message) /\ p_toI \in Seq(Pair!Message)
         /\ p_toR # <<>> => Head(p_toR) \in Pair!Message /\ Tail(p_toR) \in Seq(Pair!Message)
         /\ p_toI # <<>> => Head(p_toI) \in Pair!Message /\ Tail(p_toI) \in Seq(Pair!Message)
         /\ p_draws \in Int /\ p_draws \in Nat /\ 0 \in Pair!Numbers
         /\ p_draws < Draws => p_draws + 1 \in Pair!Numbers
         /\ \A t \in Pair!Kinds, v \in Pair!Numbers : Pair!Msg(t, v) \in Pair!Message
<1>1. p_toR \in Seq(Pair!Message) /\ p_toI \in Seq(Pair!Message) /\ p_draws \in 0..Draws
  BY DEF PairTypes, Pair!TypeOK, Pair!Numbers
<1>2. p_toR # <<>> => Head(p_toR) \in Pair!Message /\ Tail(p_toR) \in Seq(Pair!Message) BY <1>1, Shortened
<1>3. p_toI # <<>> => Head(p_toI) \in Pair!Message /\ Tail(p_toI) \in Seq(Pair!Message) BY <1>1, Shortened
<1>4. \A t \in Pair!Kinds, v \in Pair!Numbers : Pair!Msg(t, v) \in Pair!Message
  BY DEF Pair!Msg, Pair!Message
<1>5. p_draws \in Int /\ p_draws \in Nat /\ 0 \in 0..Draws /\ (p_draws < Draws => p_draws + 1 \in 0..Draws) BY <1>1
<1> QED BY <1>1, <1>2, <1>3, <1>4, <1>5 DEF Pair!Numbers

\* A message's kind and number, and the queue it is put in.
LEMMA MessageParts ==
  ASSUME NEW m \in Pair!Message
  PROVE  m.type \in Pair!Kinds /\ m.value \in Pair!Numbers
BY DEF Pair!Message

LEMMA Queued ==
  ASSUME NEW s \in Seq(Pair!Message), NEW t \in Pair!Kinds, NEW v \in Pair!Numbers
  PROVE  Append(s, Pair!Msg(t, v)) \in Seq(Pair!Message)
<1>1. Pair!Msg(t, v) \in Pair!Message BY DEF Pair!Msg, Pair!Message
<1> QED BY <1>1, AppendProperties

\* Each state after one of its steps.
LEMMA PairPeripheralTypes ==
  ASSUME NEW q \in PeripheralState, NEW n \in Pair!Numbers, NEW k \in Pair!Numbers \X Pair!Numbers
  PROVE  /\ [q EXCEPT !.prnd = n] \in PeripheralState
         /\ [q EXCEPT !.prnd = n, !.state = "WaitConfirm"] \in PeripheralState
         /\ [q EXCEPT !.mconfirm = n] \in PeripheralState
         /\ [q EXCEPT !.mconfirm = n, !.state = "WaitRandom"] \in PeripheralState
         /\ [q EXCEPT !.state = "Idle"] \in PeripheralState
         /\ [q EXCEPT !.stk = k, !.state = "WaitLtk"] \in PeripheralState
         /\ [q EXCEPT !.bond = n, !.distributed = TRUE] \in PeripheralState
         /\ [state |-> "Idle", prnd |-> q.prnd, mconfirm |-> q.mconfirm, stk |-> k, bond |-> n,
             distributed |-> FALSE] \in PeripheralState
BY DEF PeripheralState

LEMMA PairCentralTypes ==
  ASSUME NEW q \in CentralState, NEW n \in Pair!Numbers, NEW k \in Pair!Numbers \X Pair!Numbers
  PROVE  /\ [q EXCEPT !.state = "Idle"] \in CentralState
         /\ [q EXCEPT !.state = "Idle", !.stk = k] \in CentralState
         /\ [q EXCEPT !.state = "WaitResponse"] \in CentralState
         /\ [q EXCEPT !.mrand = n, !.state = "WaitConfirm"] \in CentralState
         /\ [q EXCEPT !.sconfirm = n, !.state = "WaitRandom"] \in CentralState
         /\ [q EXCEPT !.stk = k, !.state = "WaitEncryption"] \in CentralState
         /\ [q EXCEPT !.ltk = n] \in CentralState
         /\ [q EXCEPT !.ident = n, !.haveBond = TRUE] \in CentralState
BY DEF CentralState

\* The types of what a step of the peripheral leaves alone, and of the central.
LEMMA PeripheralKeepsTypes ==
  ASSUME PairTypes, Pair!NextR, Pair!FromR, p_toI' \in Seq(Pair!Message), p_r' \in PeripheralState,
         p_draws' \in Pair!Numbers
  PROVE  PairTypes'
<1>1. p_toR' \in Seq(Pair!Message) BY Messages DEF Pair!NextR
<1>2. p_r'.state \in {"Idle", "WaitConfirm", "WaitRandom", "WaitLtk"} BY DEF PeripheralState
<1> QED BY <1>1, <1>2 DEF PairTypes, Pair!TypeOK, Pair!FromR

LEMMA CentralKeepsTypes ==
  ASSUME PairTypes, Pair!NextI, Pair!FromI, p_toR' \in Seq(Pair!Message), p_i' \in CentralState,
         p_draws' \in Pair!Numbers, p_secret' \in Pair!Numbers \X Pair!Numbers
  PROVE  PairTypes'
<1>1. p_toI' \in Seq(Pair!Message) BY Messages DEF Pair!NextI
<1>2. p_i'.state \in {"Idle", "WaitResponse", "WaitConfirm", "WaitRandom", "WaitEncryption"} BY DEF CentralState
<1> QED BY <1>1, <1>2 DEF PairTypes, Pair!TypeOK, Pair!FromI

\* What an end sends, or nothing: the other's inbox after it.
LEMMA PairSent ==
  ASSUME PairTypes, NEW t \in Pair!Kinds, NEW v \in Pair!Numbers
  PROVE  /\ Pair!ToI(Pair!Msg(t, v)) =>
              /\ p_toI' \in Seq(Pair!Message)
              /\ IF p_up THEN p_toI' = Append(p_toI, Pair!Msg(t, v)) ELSE p_toI' = p_toI
         /\ Pair!ToR(Pair!Msg(t, v)) =>
              /\ p_toR' \in Seq(Pair!Message)
              /\ IF p_up THEN p_toR' = Append(p_toR, Pair!Msg(t, v)) ELSE p_toR' = p_toR
         /\ Pair!Msg(t, v) \in Pair!Message /\ Pair!Msg(t, v).type = t /\ Pair!Msg(t, v).value = v
<1>1. Append(p_toI, Pair!Msg(t, v)) \in Seq(Pair!Message) /\ Append(p_toR, Pair!Msg(t, v)) \in Seq(Pair!Message)
  BY Messages, Queued
<1>2. Pair!Msg(t, v) \in Pair!Message /\ Pair!Msg(t, v).type = t /\ Pair!Msg(t, v).value = v
  BY Messages DEF Pair!Msg
<1> QED BY <1>1, <1>2, Messages DEF Pair!ToI, Pair!ToR

\* The kinds of a message and the parts of the peripheral's state, for the steps below.
LEMMA PeripheralParts ==
  ASSUME PairTypes
  PROVE  /\ p_r.prnd \in Pair!Numbers /\ p_r.mconfirm \in Pair!Numbers /\ p_r.bond \in Pair!Numbers
         /\ p_r.stk \in Pair!Numbers \X Pair!Numbers /\ p_i.mrand \in Pair!Numbers
         /\ p_i.ltk \in Pair!Numbers /\ p_i.ident \in Pair!Numbers
         /\ p_secret \in Pair!Numbers \X Pair!Numbers /\ Pair!NoKey \in Pair!Numbers \X Pair!Numbers
         /\ p_draws \in Pair!Numbers /\ p_saved \in Pair!Numbers
<1>1. Pair!NoKey \in Pair!Numbers \X Pair!Numbers BY Messages DEF Pair!NoKey, Pair!Zero
<1> QED BY <1>1 DEF PairTypes, Pair!TypeOK, PeripheralState, CentralState

LEMMA PairOnRequest == PairInv /\ Pair!OnRequest => PairInv'
<1> SUFFICES ASSUME PairInv, Pair!OnRequest PROVE PairInv' OBVIOUS
<1>0. PairTypes BY DEF PairInv
<1>1. /\ Pair!NextR /\ Head(p_toR).type = "Request" /\ p_draws < Draws /\ p_draws' = p_draws + 1
      /\ p_r' = [p_r EXCEPT !.prnd = p_draws + 1, !.state = "WaitConfirm"]
      /\ Pair!ToI(Pair!Msg("Response", 0)) /\ Pair!FromR
  BY DEF Pair!OnRequest, Pair!Draw, Pair!Fresh, Pair!Zero
<1>2. p_draws + 1 \in Pair!Numbers /\ p_draws \in Int /\ "Response" \in Pair!Kinds /\ 0 \in Pair!Numbers
  BY <1>0, <1>1, Messages DEF Pair!Kinds
<1>3. p_toI' \in Seq(Pair!Message) BY <1>0, <1>1, <1>2, PairSent
<1>4. p_r' \in PeripheralState BY <1>0, <1>1, <1>2, PeripheralParts, PairPeripheralTypes DEF PairTypes
<1>5. PairTypes' BY <1>0, <1>1, <1>2, <1>3, <1>4, PeripheralKeepsTypes
<1>6. p_toI' = p_toI \/ (p_up /\ p_toI' = Append(p_toI, Pair!Msg("Response", 0)))
  BY <1>0, <1>1, <1>2, PairSent
<1>7. Pair!Msg("Response", 0) \in Pair!Message /\ Pair!Msg("Response", 0).type = "Response"
  BY <1>0, <1>2, PairSent
<1>8. p_r'.stk = p_r.stk /\ p_r'.bond = p_r.bond /\ p_r'.distributed = p_r.distributed
  BY <1>0, <1>1 DEF PairTypes, PeripheralState
<1>9. Exchanged BY <1>1, <1>2, <1>6, <1>7, <1>8 DEF Exchanged, Asks, Replies, Pair!NextR, Pair!FromR
<1> QED BY <1>5, <1>9, PairExchanged

LEMMA PairRefusesR == PairInv /\ Pair!RefusesR => PairInv'
<1> SUFFICES ASSUME PairInv, Pair!RefusesR PROVE PairInv' OBVIOUS
<1>0. PairTypes BY DEF PairInv
<1>1. /\ Pair!NextR /\ Head(p_toR).type \in {"Confirm", "Random"} /\ p_draws' = p_draws /\ p_r' = p_r
      /\ Pair!ToI(Pair!Msg("Failed", 0)) /\ Pair!FromR
  BY DEF Pair!RefusesR, Pair!Refused, Pair!Zero
<1>2. p_draws \in Pair!Numbers /\ p_draws \in Int /\ "Failed" \in Pair!Kinds /\ 0 \in Pair!Numbers
  BY <1>0, Messages, PeripheralParts DEF Pair!Kinds
<1>3. p_toI' \in Seq(Pair!Message) BY <1>0, <1>1, <1>2, PairSent
<1>4. PairTypes' BY <1>0, <1>1, <1>2, <1>3, PeripheralKeepsTypes DEF PairTypes
<1>5. p_toI' = p_toI \/ (p_up /\ p_toI' = Append(p_toI, Pair!Msg("Failed", 0)))
  BY <1>0, <1>1, <1>2, PairSent
<1>6. Pair!Msg("Failed", 0) \in Pair!Message /\ Pair!Msg("Failed", 0).type = "Failed" BY <1>0, <1>2, PairSent
<1>7. Exchanged BY <1>1, <1>2, <1>5, <1>6 DEF Exchanged, Asks, Replies, Pair!NextR, Pair!FromR
<1> QED BY <1>4, <1>7, PairExchanged

LEMMA PairOnConfirmR == PairInv /\ Pair!OnConfirmR => PairInv'
<1> SUFFICES ASSUME PairInv, Pair!OnConfirmR PROVE PairInv' OBVIOUS
<1>0. PairTypes BY DEF PairInv
<1>1. /\ Pair!NextR /\ Head(p_toR).type = "Confirm" /\ p_draws' = p_draws
      /\ p_r' = [p_r EXCEPT !.mconfirm = Head(p_toR).value, !.state = "WaitRandom"]
      /\ Pair!ToI(Pair!Msg("Confirm", p_r.prnd)) /\ Pair!FromR
  BY DEF Pair!OnConfirmR
<1>2. /\ p_draws \in Pair!Numbers /\ p_draws \in Int /\ "Confirm" \in Pair!Kinds /\ p_r.prnd \in Pair!Numbers
      /\ Head(p_toR).value \in Pair!Numbers
  BY <1>0, <1>1, Messages, PeripheralParts, MessageParts DEF Pair!Kinds, Pair!NextR
<1>3. p_toI' \in Seq(Pair!Message) BY <1>0, <1>1, <1>2, PairSent
<1>4. p_r' \in PeripheralState BY <1>0, <1>1, <1>2, PeripheralParts, PairPeripheralTypes DEF PairTypes
<1>5. PairTypes' BY <1>0, <1>1, <1>2, <1>3, <1>4, PeripheralKeepsTypes
<1>6. p_toI' = p_toI \/ (p_up /\ p_toI' = Append(p_toI, Pair!Msg("Confirm", p_r.prnd)))
  BY <1>0, <1>1, <1>2, PairSent
<1>7. /\ Pair!Msg("Confirm", p_r.prnd) \in Pair!Message
      /\ Pair!Msg("Confirm", p_r.prnd).type = "Confirm"
  BY <1>0, <1>2, PairSent
<1>8. p_r'.stk = p_r.stk /\ p_r'.bond = p_r.bond /\ p_r'.distributed = p_r.distributed
  BY <1>0, <1>1 DEF PairTypes, PeripheralState
<1>9. Exchanged BY <1>1, <1>2, <1>6, <1>7, <1>8 DEF Exchanged, Asks, Replies, Pair!NextR, Pair!FromR
<1> QED BY <1>5, <1>9, PairExchanged

LEMMA PairOnRandomR == PairInv /\ Pair!OnRandomR => PairInv'
<1> SUFFICES ASSUME PairInv, Pair!OnRandomR PROVE PairInv' OBVIOUS
<1>0. PairTypes BY DEF PairInv
<1>1. Pair!NextR /\ Head(p_toR).type = "Random" /\ p_draws' = p_draws /\ Pair!FromR
  BY DEF Pair!OnRandomR
<1>2. /\ p_draws \in Pair!Numbers /\ p_draws \in Int /\ {"Failed", "Random"} \subseteq Pair!Kinds
      /\ p_r.prnd \in Pair!Numbers /\ Head(p_toR).value \in Pair!Numbers /\ 0 \in Pair!Numbers
      /\ <<p_r.prnd, Head(p_toR).value>> \in Pair!Numbers \X Pair!Numbers
  BY <1>0, <1>1, Messages, PeripheralParts, MessageParts DEF Pair!Kinds, Pair!NextR
<1>3. CASE Head(p_toR).value # p_r.mconfirm
  <2>1. p_r' = [p_r EXCEPT !.state = "Idle"] /\ Pair!ToI(Pair!Msg("Failed", 0))
    BY <1>3 DEF Pair!OnRandomR, Pair!Zero
  <2>2. p_toI' \in Seq(Pair!Message) BY <1>0, <1>2, <2>1, PairSent
  <2>3. p_r' \in PeripheralState BY <1>0, <1>2, <2>1, PeripheralParts, PairPeripheralTypes DEF PairTypes
  <2>4. PairTypes' BY <1>0, <1>1, <1>2, <2>2, <2>3, PeripheralKeepsTypes
  <2>5. p_toI' = p_toI \/ (p_up /\ p_toI' = Append(p_toI, Pair!Msg("Failed", 0)))
    BY <1>0, <1>2, <2>1, PairSent
  <2>6. Pair!Msg("Failed", 0) \in Pair!Message /\ Pair!Msg("Failed", 0).type = "Failed" BY <1>0, <1>2, PairSent
  <2>7. p_r'.bond = p_r.bond /\ p_r'.distributed = p_r.distributed
    BY <1>0, <2>1 DEF PairTypes, PeripheralState
  <2>8. Exchanged BY <1>1, <1>2, <2>5, <2>6, <2>7 DEF Exchanged, Asks, Replies, Pair!NextR, Pair!FromR
  <2> QED BY <2>4, <2>8, PairExchanged
<1>4. CASE Head(p_toR).value = p_r.mconfirm
  <2>1. /\ p_r' = [p_r EXCEPT !.stk = <<p_r.prnd, Head(p_toR).value>>, !.state = "WaitLtk"]
        /\ Pair!ToI(Pair!Msg("Random", p_r.prnd))
    BY <1>4 DEF Pair!OnRandomR
  <2>2. p_toI' \in Seq(Pair!Message) BY <1>0, <1>2, <2>1, PairSent
  <2>3. p_r' \in PeripheralState BY <1>0, <1>2, <2>1, PeripheralParts, PairPeripheralTypes DEF PairTypes
  <2>4. PairTypes' BY <1>0, <1>1, <1>2, <2>2, <2>3, PeripheralKeepsTypes
  <2>5. p_toI' = p_toI \/ (p_up /\ p_toI' = Append(p_toI, Pair!Msg("Random", p_r.prnd)))
    BY <1>0, <1>2, <2>1, PairSent
  <2>6. /\ Pair!Msg("Random", p_r.prnd) \in Pair!Message /\ Pair!Msg("Random", p_r.prnd).type = "Random"
        /\ Pair!Msg("Random", p_r.prnd).value = p_r.prnd
    BY <1>0, <1>2, PairSent, ZenonT(30)
  <2>7. /\ p_r'.stk = <<p_r.prnd, Head(p_toR).value>> /\ p_r'.bond = p_r.bond
        /\ p_r'.distributed = p_r.distributed
    BY <1>0, <2>1 DEF PairTypes, PeripheralState
  <2>8. Exchanged BY <1>1, <1>2, <2>5, <2>6, <2>7 DEF Exchanged, Asks, Replies, Pair!NextR, Pair!FromR
  <2> QED BY <2>4, <2>8, PairExchanged
<1> QED BY <1>3, <1>4

LEMMA PairOnFailedR == PairInv /\ Pair!OnFailedR => PairInv'
<1> SUFFICES ASSUME PairInv, Pair!OnFailedR PROVE PairInv' OBVIOUS
<1>0. PairTypes BY DEF PairInv
<1>1. /\ Pair!NextR /\ Head(p_toR).type = "Failed" /\ p_draws' = p_draws /\ p_toI' = p_toI
      /\ p_r' = [p_r EXCEPT !.state = "Idle"] /\ Pair!FromR
  BY DEF Pair!OnFailedR
<1>2. p_draws \in Pair!Numbers /\ p_draws \in Int /\ p_toI \in Seq(Pair!Message)
  BY <1>0, Messages, PeripheralParts
<1>3. p_r' \in PeripheralState BY <1>0, <1>1, <1>2, PeripheralParts, PairPeripheralTypes DEF PairTypes
<1>4. PairTypes' BY <1>0, <1>1, <1>2, <1>3, PeripheralKeepsTypes
<1>5. p_r'.stk = p_r.stk /\ p_r'.bond = p_r.bond /\ p_r'.distributed = p_r.distributed
  BY <1>0, <1>1 DEF PairTypes, PeripheralState
<1>6. Exchanged BY <1>1, <1>2, <1>5 DEF Exchanged, Pair!NextR, Pair!FromR
<1> QED BY <1>4, <1>6, PairExchanged

LEMMA PairStumbles == PairInv /\ Pair!Stumbles => PairInv'
<1> SUFFICES ASSUME PairInv, Pair!Stumbles PROVE PairInv' OBVIOUS
<1>0. PairTypes BY DEF PairInv
<1>1. /\ Pair!NextR /\ Pair!FromR /\ p_toI' = p_toI /\ Head(p_toR).type \in {"Request", "Confirm"}
      /\ \/ p_draws < Draws /\ p_draws' = p_draws + 1 /\ p_r' = [p_r EXCEPT !.prnd = p_draws + 1]
         \/ p_r' = [p_r EXCEPT !.mconfirm = Head(p_toR).value] /\ p_draws' = p_draws
  BY DEF Pair!Stumbles, Pair!Draw, Pair!Fresh
<1>2. /\ p_draws \in Pair!Numbers /\ p_draws \in Int /\ p_toI \in Seq(Pair!Message)
      /\ Head(p_toR).value \in Pair!Numbers /\ (p_draws < Draws => p_draws + 1 \in Pair!Numbers)
  BY <1>0, <1>1, Messages, PeripheralParts, MessageParts DEF Pair!NextR
<1>3. p_r' \in PeripheralState /\ p_draws' \in Pair!Numbers
  <2>1. CASE p_draws < Draws /\ p_draws' = p_draws + 1 /\ p_r' = [p_r EXCEPT !.prnd = p_draws + 1]
    <3>1. p_draws + 1 \in Pair!Numbers BY <1>2, <2>1
    <3>2. p_r' \in PeripheralState BY <1>0, <2>1, <3>1, PeripheralParts, PairPeripheralTypes, ZenonT(30) DEF PairTypes
    <3> QED BY <2>1, <3>1, <3>2
  <2>2. CASE p_r' = [p_r EXCEPT !.mconfirm = Head(p_toR).value] /\ p_draws' = p_draws
    <3>1. p_r' \in PeripheralState BY <1>0, <1>2, <2>2, PeripheralParts, PairPeripheralTypes, ZenonT(30) DEF PairTypes
    <3> QED BY <1>2, <2>2, <3>1
  <2> QED BY <1>1, <2>1, <2>2
<1>4. PairTypes' BY <1>0, <1>1, <1>2, <1>3, PeripheralKeepsTypes
<1>5. p_r'.stk = p_r.stk /\ p_r'.bond = p_r.bond /\ p_r'.distributed = p_r.distributed
  BY <1>0, <1>1 DEF PairTypes, PeripheralState
<1>6. p_draws <= p_draws' BY <1>1, <1>2
<1>7. Exchanged BY <1>1, <1>2, <1>3, <1>5, <1>6 DEF Exchanged, Pair!NextR, Pair!FromR
<1> QED BY <1>4, <1>7, PairExchanged

\* The central gives an exchange up.
LEMMA PairFails ==
  ASSUME PairInv, Pair!NextI, Pair!FromI, Head(p_toI).type \in {"Response", "Confirm", "Random"},
         p_i' = [p_i EXCEPT !.state = "Idle"], Pair!ToR(Pair!Msg("Failed", 0)),
         p_draws' = p_draws, p_secret' = p_secret
  PROVE  PairInv'
<1>0. PairTypes BY DEF PairInv
<1>1. p_draws \in Nat /\ p_draws \in Pair!Numbers /\ "Failed" \in Pair!Kinds /\ 0 \in Pair!Numbers
  BY <1>0, Messages, PeripheralParts DEF Pair!Kinds
<1>2. p_toR' \in Seq(Pair!Message) BY <1>0, <1>1, PairSent
<1>3. p_i' \in CentralState BY <1>0, PeripheralParts, PairCentralTypes DEF PairTypes
<1>4. PairTypes' BY <1>0, <1>1, <1>2, <1>3, PeripheralParts, CentralKeepsTypes
<1>5. p_toR' = p_toR \/ (p_up /\ p_toR' = Append(p_toR, Pair!Msg("Failed", 0))) BY <1>0, <1>1, PairSent
<1>6. Pair!Msg("Failed", 0) \in Pair!Message /\ Pair!Msg("Failed", 0).type = "Failed" BY <1>0, <1>1, PairSent
<1>7. /\ p_i'.mrand = p_i.mrand /\ p_i'.state = "Idle"
      /\ p_i'.ltk = p_i.ltk /\ p_i'.ident = p_i.ident /\ p_i'.haveBond = p_i.haveBond
  BY <1>0 DEF PairTypes, CentralState
<1>8. Followed BY <1>1, <1>5, <1>6, <1>7 DEF Followed, Replies, Asks, Halves, Pair!NextI, Pair!FromI
<1> QED BY <1>4, <1>8, PairFollowed

LEMMA PairRefusesI == PairInv /\ Pair!RefusesI => PairInv'
<1> SUFFICES ASSUME PairInv, Pair!RefusesI PROVE PairInv' OBVIOUS
<1>0. PairTypes BY DEF PairInv
<1>1. /\ Pair!NextI /\ Head(p_toI).type \in {"Response", "Confirm", "Random"} /\ Pair!FromI
      /\ p_i' = [p_i EXCEPT !.state = "Idle"] /\ Pair!ToR(Pair!Msg("Failed", 0))
      /\ p_draws' = p_draws /\ p_secret' = p_secret
  BY DEF Pair!RefusesI, Pair!Unawaited, Pair!Fails, Pair!Zero
<1> QED BY <1>0, <1>1, PairFails

LEMMA PairOnResponse == PairInv /\ Pair!OnResponse => PairInv'
<1> SUFFICES ASSUME PairInv, Pair!OnResponse PROVE PairInv' OBVIOUS
<1>0. PairTypes BY DEF PairInv
<1>1. /\ Pair!NextI /\ Head(p_toI).type = "Response" /\ p_draws < Draws /\ p_draws' = p_draws + 1
      /\ p_i' = [p_i EXCEPT !.mrand = p_draws + 1, !.state = "WaitConfirm"]
      /\ Pair!ToR(Pair!Msg("Confirm", p_draws + 1)) /\ p_secret' = p_secret /\ Pair!FromI
  BY DEF Pair!OnResponse, Pair!Draw, Pair!Fresh
<1>2. p_draws + 1 \in Pair!Numbers /\ p_draws \in Nat /\ "Confirm" \in Pair!Kinds
  BY <1>0, <1>1, Messages, PeripheralParts DEF Pair!Kinds
<1>3. p_toR' \in Seq(Pair!Message) BY <1>0, <1>1, <1>2, PairSent
<1>4. p_i' \in CentralState BY <1>0, <1>1, <1>2, PeripheralParts, PairCentralTypes DEF PairTypes
<1>5. PairTypes' BY <1>0, <1>1, <1>2, <1>3, <1>4, PeripheralParts, CentralKeepsTypes
<1>6. p_toR' = p_toR \/ (p_up /\ p_toR' = Append(p_toR, Pair!Msg("Confirm", p_draws + 1)))
  BY <1>0, <1>1, <1>2, PairSent
<1>7. /\ Pair!Msg("Confirm", p_draws + 1) \in Pair!Message
      /\ Pair!Msg("Confirm", p_draws + 1).type = "Confirm"
  BY <1>0, <1>2, PairSent
<1>8. /\ p_i'.mrand = p_draws + 1 /\ p_i'.state = "WaitConfirm"
      /\ p_i'.ltk = p_i.ltk /\ p_i'.ident = p_i.ident /\ p_i'.haveBond = p_i.haveBond
  BY <1>0, <1>1 DEF PairTypes, CentralState
<1>9. p_draws + 1 # 0 /\ p_draws <= p_draws + 1 BY <1>2
<1>10. Followed
  BY <1>1, <1>2, <1>6, <1>7, <1>8, <1>9 DEF Followed, Replies, Halves, Pair!NextI, Pair!FromI
<1> QED BY <1>5, <1>10, PairFollowed

LEMMA PairOnConfirmI == PairInv /\ Pair!OnConfirmI => PairInv'
<1> SUFFICES ASSUME PairInv, Pair!OnConfirmI PROVE PairInv' OBVIOUS
<1>0. PairTypes BY DEF PairInv
<1>1. /\ Pair!NextI /\ Head(p_toI).type = "Confirm" /\ p_i.state = "WaitConfirm" /\ p_draws' = p_draws
      /\ p_i' = [p_i EXCEPT !.sconfirm = Head(p_toI).value, !.state = "WaitRandom"]
      /\ Pair!ToR(Pair!Msg("Random", p_i.mrand)) /\ p_secret' = p_secret /\ Pair!FromI
  BY DEF Pair!OnConfirmI
<1>2. /\ p_draws \in Nat /\ p_draws \in Pair!Numbers /\ "Random" \in Pair!Kinds
      /\ p_i.mrand \in Pair!Numbers /\ Head(p_toI).value \in Pair!Numbers
  BY <1>0, <1>1, Messages, PeripheralParts, MessageParts DEF Pair!Kinds, Pair!NextI
<1>3. p_toR' \in Seq(Pair!Message) BY <1>0, <1>1, <1>2, PairSent
<1>4. p_i' \in CentralState BY <1>0, <1>1, <1>2, PeripheralParts, PairCentralTypes DEF PairTypes
<1>5. PairTypes' BY <1>0, <1>1, <1>2, <1>3, <1>4, PeripheralParts, CentralKeepsTypes
<1>6. p_toR' = p_toR \/ (p_up /\ p_toR' = Append(p_toR, Pair!Msg("Random", p_i.mrand)))
  BY <1>0, <1>1, <1>2, PairSent
<1>7. /\ Pair!Msg("Random", p_i.mrand) \in Pair!Message /\ Pair!Msg("Random", p_i.mrand).type = "Random"
      /\ Pair!Msg("Random", p_i.mrand).value = p_i.mrand
  BY <1>0, <1>2, PairSent
<1>8. /\ p_i'.mrand = p_i.mrand /\ p_i'.state = "WaitRandom"
      /\ p_i'.ltk = p_i.ltk /\ p_i'.ident = p_i.ident /\ p_i'.haveBond = p_i.haveBond
  BY <1>0, <1>1 DEF PairTypes, CentralState
<1>9. p_i.mrand # 0 BY <1>1 DEF PairInv, Revealed
<1>10. Followed
  BY <1>1, <1>2, <1>6, <1>7, <1>8, <1>9 DEF Followed, Replies, Halves, Pair!NextI, Pair!FromI
<1> QED BY <1>5, <1>10, PairFollowed

LEMMA PairOnRandomI == PairInv /\ Pair!OnRandomI => PairInv'
<1> SUFFICES ASSUME PairInv, Pair!OnRandomI PROVE PairInv' OBVIOUS
<1>0. PairTypes BY DEF PairInv
<1>1. Pair!NextI /\ Head(p_toI).type = "Random" /\ p_i.state = "WaitRandom" /\ Pair!FromI
  BY DEF Pair!OnRandomI
<1>2. CASE Head(p_toI).value # p_i.sconfirm
  <2>1. /\ p_i' = [p_i EXCEPT !.state = "Idle"] /\ Pair!ToR(Pair!Msg("Failed", 0))
        /\ p_draws' = p_draws /\ p_secret' = p_secret
    BY <1>2 DEF Pair!OnRandomI, Pair!Fails, Pair!Zero
  <2> QED BY <1>0, <1>1, <2>1, PairFails
<1>3. CASE Head(p_toI).value = p_i.sconfirm
  <2>1. /\ p_i' = [p_i EXCEPT !.stk = <<Head(p_toI).value, p_i.mrand>>, !.state = "WaitEncryption"]
        /\ Pair!ToR(Pair!Msg("KeyRequest", 0)) /\ p_draws' = p_draws
        /\ p_secret' = (IF p_up THEN <<Head(p_toI).value, p_i.mrand>> ELSE p_secret)
    BY <1>3 DEF Pair!OnRandomI, Pair!Zero
  <2>2. /\ p_draws \in Nat /\ p_draws \in Pair!Numbers /\ "KeyRequest" \in Pair!Kinds /\ 0 \in Pair!Numbers
        /\ <<Head(p_toI).value, p_i.mrand>> \in Pair!Numbers \X Pair!Numbers
        /\ p_secret \in Pair!Numbers \X Pair!Numbers
    BY <1>0, <1>1, Messages, PeripheralParts, MessageParts DEF Pair!Kinds, Pair!NextI
  <2>3. p_toR' \in Seq(Pair!Message) BY <1>0, <2>1, <2>2, PairSent
  <2>4. p_i' \in CentralState BY <1>0, <2>1, <2>2, PeripheralParts, PairCentralTypes DEF PairTypes
  <2>5. PairTypes' BY <1>0, <1>1, <2>1, <2>2, <2>3, <2>4, CentralKeepsTypes
  <2>6. \/ p_toR' = p_toR /\ p_secret' = p_secret
        \/ /\ p_up /\ p_toR' = Append(p_toR, Pair!Msg("KeyRequest", 0))
           /\ p_secret' = <<Head(p_toI).value, p_i.mrand>>
    BY <1>0, <2>1, <2>2, PairSent
  <2>7. /\ Pair!Msg("KeyRequest", 0) \in Pair!Message /\ Pair!Msg("KeyRequest", 0).type = "KeyRequest"
        /\ Pair!Msg("KeyRequest", 0).value = 0
    BY <1>0, <2>2, PairSent
  <2>8. /\ p_i'.mrand = p_i.mrand /\ p_i'.state = "WaitEncryption"
        /\ p_i'.ltk = p_i.ltk /\ p_i'.ident = p_i.ident /\ p_i'.haveBond = p_i.haveBond
    BY <1>0, <2>1 DEF PairTypes, CentralState
  <2>9. Followed
    BY <1>1, <2>1, <2>2, <2>6, <2>7, <2>8 DEF Followed, Replies, Halves, Pair!NextI, Pair!FromI
  <2> QED BY <2>5, <2>9, PairFollowed
<1> QED BY <1>2, <1>3

\* An event that sends nothing: what it leaves of the central's state.
LEMMA PairQuiet ==
  ASSUME PairInv, Pair!NextI, Pair!FromI, p_toR' = p_toR, p_draws' = p_draws, p_secret' = p_secret,
         \/ Head(p_toI).type = "Failed" /\ p_i' = [p_i EXCEPT !.state = "Idle"]
         \/ Head(p_toI).type = "Down" /\ p_i' = [p_i EXCEPT !.state = "Idle", !.stk = Pair!NoKey]
         \/ Head(p_toI).type \in {"Sealed", "Plain"} /\ p_i' = p_i
  PROVE  PairInv'
<1>0. PairTypes BY DEF PairInv
<1>1. p_draws \in Nat /\ p_draws \in Pair!Numbers /\ p_toR \in Seq(Pair!Message)
  BY <1>0, Messages, PeripheralParts
<1>2. p_i' \in CentralState BY <1>0, PeripheralParts, PairCentralTypes DEF PairTypes
<1>3. PairTypes' BY <1>0, <1>1, <1>2, PeripheralParts, CentralKeepsTypes
<1>4. /\ p_i'.mrand = p_i.mrand /\ p_i'.ltk = p_i.ltk /\ p_i'.ident = p_i.ident
      /\ p_i'.haveBond = p_i.haveBond
      /\ p_i'.state = "Idle" \/ (p_i'.state = p_i.state /\ Head(p_toI).type \in {"Sealed", "Plain"})
  BY <1>0 DEF PairTypes, CentralState
<1>5. p_i.state \in {"WaitConfirm", "WaitRandom"} => p_i.mrand # 0 BY DEF PairInv, Revealed
<1>6. Head(p_toI).type \in {"Failed", "Down", "Sealed", "Plain"} OBVIOUS
<1>7. p_i'.state = "Idle" => p_i.state = "Idle" \/ Head(p_toI).type \in {"Failed", "Down"}
  OBVIOUS
<1>8. Followed BY <1>1, <1>4, <1>5, <1>6, <1>7 DEF Followed, Replies, Halves, Pair!NextI, Pair!FromI
<1> QED BY <1>3, <1>8, PairFollowed

LEMMA PairQuietly == PairInv /\ (Pair!OnFailedI \/ Pair!OnDownI \/ Pair!OnChangeI) => PairInv'
<1> SUFFICES ASSUME PairInv, Pair!OnFailedI \/ Pair!OnDownI \/ Pair!OnChangeI PROVE PairInv' OBVIOUS
<1>1. /\ Pair!NextI /\ Pair!FromI /\ p_toR' = p_toR /\ p_draws' = p_draws /\ p_secret' = p_secret
      /\ \/ Head(p_toI).type = "Failed" /\ p_i' = [p_i EXCEPT !.state = "Idle"]
         \/ Head(p_toI).type = "Down" /\ p_i' = [p_i EXCEPT !.state = "Idle", !.stk = Pair!NoKey]
         \/ Head(p_toI).type \in {"Sealed", "Plain"} /\ p_i' = p_i
  BY DEF Pair!OnFailedI, Pair!OnDownI, Pair!OnChangeI, Pair!CleanI
<1> QED BY <1>1, PairQuiet

\* A half of the bond is stored: what the queue was before, and what it is now.
LEMMA PairHalf ==
  ASSUME PairInv, Pair!NextI, Pair!FromI, Head(p_toI).type \in Halves,
         p_toR' = p_toR, p_draws' = p_draws, p_secret' = p_secret, p_i' \in CentralState,
         p_i'.state = p_i.state, p_i'.mrand = p_i.mrand
  PROVE  PairTypes' /\ InTurn' /\ OnLink' /\ Revealed' /\ KeyAsked' /\ Pair!KeysAgree'
<1>0. PairTypes /\ p_toI \in Seq(Pair!Message) /\ p_toR \in Seq(Pair!Message) BY Messages DEF PairInv
<1>1. PairTypes' BY <1>0, PeripheralParts, CentralKeepsTypes
<1>2. /\ p_toI # <<>> /\ p_toI' = Tail(p_toI)
      /\ UNCHANGED <<p_up, p_began, p_r, p_cut, p_clash>>
  BY DEF Pair!NextI, Pair!FromI
<1>3. \A k \in DOMAIN p_toI' : k + 1 \in DOMAIN p_toI /\ p_toI'[k] = p_toI[k + 1]
  BY <1>0, <1>2, Shortened
<1>4. InTurn'
  <2> SUFFICES ASSUME p_up PROVE InTurn' BY <1>2 DEF InTurn
  <2>1. Few(p_toI', Replies) /\ (Empty(p_toI, Replies) => Empty(p_toI', Replies))
    BY <1>0, <1>2, TailKeeps DEF PairInv, InTurn
  <2> QED BY <1>2, <2>1 DEF PairInv, InTurn
<1>5. OnLink'
  <2>1. p_up => Empty(p_toI', {"Down"}) BY <1>0, <1>2, TailKeeps DEF PairInv, OnLink
  <2> QED BY <1>2, <2>1 DEF PairInv, OnLink
<1>6. Revealed' BY <1>2, <1>3 DEF PairInv, Revealed
<1>7. KeyAsked' BY <1>2 DEF PairInv, KeyAsked
<1>8. Pair!KeysAgree' BY <1>2 DEF PairInv, Pair!KeysAgree
<1> QED BY <1>1, <1>4, <1>5, <1>6, <1>7, <1>8

LEMMA PairOnLtk == PairInv /\ Pair!OnLtk => PairInv'
<1> SUFFICES ASSUME PairInv, Pair!OnLtk PROVE PairInv' OBVIOUS
<1>0. PairTypes /\ p_toI \in Seq(Pair!Message) BY Messages DEF PairInv
<1>1. /\ Pair!NextI /\ Pair!FromI /\ Head(p_toI).type = "Ltk" /\ p_i' = [p_i EXCEPT !.ltk = Head(p_toI).value]
      /\ p_toR' = p_toR /\ p_draws' = p_draws /\ p_secret' = p_secret
  BY DEF Pair!OnLtk
<1>2. Head(p_toI).value \in Pair!Numbers BY <1>0, <1>1, Messages, MessageParts DEF Pair!NextI
<1>3. /\ p_i' \in CentralState /\ p_i'.state = p_i.state /\ p_i'.mrand = p_i.mrand
      /\ p_i'.ltk = Head(p_toI).value /\ p_i'.ident = p_i.ident /\ p_i'.haveBond = p_i.haveBond
  <2>1. p_i' \in CentralState BY <1>0, <1>1, <1>2, PeripheralParts, PairCentralTypes DEF PairTypes
  <2>2. /\ p_i'.state = p_i.state /\ p_i'.mrand = p_i.mrand
        /\ p_i'.ltk = Head(p_toI).value /\ p_i'.ident = p_i.ident /\ p_i'.haveBond = p_i.haveBond
    BY <1>0, <1>1 DEF PairTypes, CentralState
  <2> QED BY <2>1, <2>2
<1>4. PairTypes' /\ InTurn' /\ OnLink' /\ Revealed' /\ KeyAsked' /\ Pair!KeysAgree'
  BY <1>1, <1>3, PairHalf DEF Halves
<1>5. /\ p_toI # <<>> /\ p_toI' = Tail(p_toI)
      /\ UNCHANGED <<p_up, p_r, p_cut>>
  BY <1>1 DEF Pair!NextI, Pair!FromI
<1>6. /\ DOMAIN p_toI = 1..Len(p_toI) /\ DOMAIN p_toI' = 1..(Len(p_toI) - 1) /\ Len(p_toI) \in Nat
      /\ \A k \in DOMAIN p_toI' : k + 1 \in DOMAIN p_toI /\ p_toI'[k] = p_toI[k + 1]
      /\ Head(p_toI) = p_toI[1] /\ 1 \in DOMAIN p_toI
  BY <1>0, <1>5, Shortened
<1>7. Head(p_toI).value \in 1..p_draws /\ (p_cut \/ Head(p_toI).value = p_r.bond) /\ Head(p_toI).value # p_i.ident
  BY <1>1, <1>6 DEF PairInv, Halved, Halves
<1>8. Halved'
  <2>1. \A k \in DOMAIN p_toI' : p_toI'[k].type \in Halves =>
          /\ p_toI'[k].value \in 1..p_draws'
          /\ p_cut' \/ p_toI'[k].value = p_r'.bond
          /\ p_r'.distributed \/ (p_toR' = <<>> /\ ~p_up')
    BY <1>1, <1>5, <1>6 DEF PairInv, Halved
  <2>2. \A k \in DOMAIN p_toI' : p_toI'[k].type = "Ltk" => p_toI'[k].value # p_i'.ident
    BY <1>3, <1>6 DEF PairInv, Halved
  <2>3. ASSUME NEW k \in DOMAIN p_toI', p_toI'[k].type = "Ident"
        PROVE  IF k = 1 THEN p_i'.ltk = p_toI'[k].value ELSE p_toI'[k - 1] = Pair!Msg("Ltk", p_toI'[k].value)
    <3>1. k + 1 \in DOMAIN p_toI /\ p_toI'[k] = p_toI[k + 1] /\ k + 1 # 1 /\ k \in 1..Len(p_toI) BY <1>6
    <3>2. p_toI[(k + 1) - 1] = Pair!Msg("Ltk", p_toI[k + 1].value) BY <2>3, <3>1 DEF PairInv, Halved
    <3>3. (k + 1) - 1 = k BY <3>1
    <3>4. CASE k = 1 BY <1>3, <1>6, <3>1, <3>2, <3>3, <3>4 DEF Pair!Msg
    <3>5. CASE k # 1
      <4>1. k - 1 \in DOMAIN p_toI' /\ p_toI'[k - 1] = p_toI[k]
        <5>1. k - 1 \in DOMAIN p_toI' /\ (k - 1) + 1 = k BY <1>6, <3>1, <3>5
        <5> QED BY <1>6, <5>1
      <4> QED BY <3>1, <3>2, <3>3, <3>5, <4>1
    <3> QED BY <3>4, <3>5
  <2>4. Few(p_toI', {"Ltk"}) BY <1>0, <1>5, TailKeeps DEF PairInv, Halved
  <2>5. ASSUME NEW j \in DOMAIN p_toI', NEW k \in DOMAIN p_toI', p_toI'[j].type = "Ident", p_toI'[k].type = "Ltk"
        PROVE  k < j
    <3>1. k + 1 < j + 1 BY <1>6, <2>5 DEF PairInv, Halved
    <3> QED BY <1>6, <3>1
  <2>6. (p_i'.haveBond => p_i'.ltk # 0 /\ p_i'.ident # 0) /\ p_i'.ident <= p_draws'
    BY <1>1, <1>3, <1>7 DEF PairInv, Halved
  <2> QED BY <2>1, <2>2, <2>3, <2>4, <2>5, <2>6 DEF Halved, Pair!Msg
<1>9. Pair!BondsAgree' BY <1>3, <1>5, <1>7 DEF Pair!BondsAgree
<1> QED BY <1>4, <1>8, <1>9 DEF PairInv

LEMMA PairOnIdent == PairInv /\ Pair!OnIdent => PairInv'
<1> SUFFICES ASSUME PairInv, Pair!OnIdent PROVE PairInv' OBVIOUS
<1>0. PairTypes /\ p_toI \in Seq(Pair!Message) /\ p_draws \in Int BY Messages DEF PairInv
<1>1. /\ Pair!NextI /\ Pair!FromI /\ Head(p_toI).type = "Ident"
      /\ p_i' = [p_i EXCEPT !.ident = Head(p_toI).value, !.haveBond = TRUE]
      /\ p_toR' = p_toR /\ p_draws' = p_draws /\ p_secret' = p_secret
  BY DEF Pair!OnIdent
<1>2. Head(p_toI).value \in Pair!Numbers BY <1>0, <1>1, Messages, MessageParts DEF Pair!NextI
<1>3. /\ p_i' \in CentralState /\ p_i'.state = p_i.state /\ p_i'.mrand = p_i.mrand
      /\ p_i'.ltk = p_i.ltk /\ p_i'.ident = Head(p_toI).value
  <2>1. p_i' \in CentralState BY <1>0, <1>1, <1>2, PeripheralParts, PairCentralTypes DEF PairTypes
  <2>2. /\ p_i'.state = p_i.state /\ p_i'.mrand = p_i.mrand
        /\ p_i'.ltk = p_i.ltk /\ p_i'.ident = Head(p_toI).value
    BY <1>0, <1>1 DEF PairTypes, CentralState
  <2> QED BY <2>1, <2>2
<1>4. PairTypes' /\ InTurn' /\ OnLink' /\ Revealed' /\ KeyAsked' /\ Pair!KeysAgree'
  BY <1>1, <1>3, PairHalf DEF Halves
<1>5. /\ p_toI # <<>> /\ p_toI' = Tail(p_toI)
      /\ UNCHANGED <<p_up, p_r, p_cut>>
  BY <1>1 DEF Pair!NextI, Pair!FromI
<1>6. /\ DOMAIN p_toI = 1..Len(p_toI) /\ DOMAIN p_toI' = 1..(Len(p_toI) - 1) /\ Len(p_toI) \in Nat
      /\ \A k \in DOMAIN p_toI' : k + 1 \in DOMAIN p_toI /\ p_toI'[k] = p_toI[k + 1] /\ k + 1 > 1
      /\ Head(p_toI) = p_toI[1] /\ 1 \in DOMAIN p_toI
  BY <1>0, <1>5, Shortened
<1>7. Head(p_toI).value \in 1..p_draws /\ p_i.ltk = Head(p_toI).value
  BY <1>1, <1>6 DEF PairInv, Halved, Halves
<1>8. Halved'
  <2>1. \A k \in DOMAIN p_toI' : p_toI'[k].type \in Halves =>
          /\ p_toI'[k].value \in 1..p_draws'
          /\ p_cut' \/ p_toI'[k].value = p_r'.bond
          /\ p_r'.distributed \/ (p_toR' = <<>> /\ ~p_up')
    BY <1>1, <1>5, <1>6 DEF PairInv, Halved
  <2>2. ASSUME NEW k \in DOMAIN p_toI', p_toI'[k].type = "Ltk" PROVE FALSE
    <3>1. k + 1 < 1 BY <1>1, <1>6, <2>2 DEF PairInv, Halved
    <3> QED BY <1>6, <3>1
  <2>3. ASSUME NEW k \in DOMAIN p_toI', p_toI'[k].type = "Ident" PROVE FALSE
    <3>1. k + 1 \in DOMAIN p_toI /\ p_toI'[k] = p_toI[k + 1] /\ k + 1 # 1 /\ k \in 1..Len(p_toI) BY <1>6
    <3>2. p_toI[(k + 1) - 1] = Pair!Msg("Ltk", p_toI[k + 1].value) BY <2>3, <3>1 DEF PairInv, Halved
    <3>3. (k + 1) - 1 = k BY <3>1
    <3>4. p_toI[k].type = "Ltk" /\ k \in DOMAIN p_toI BY <1>6, <3>1, <3>2, <3>3 DEF Pair!Msg
    <3>5. k < 1 BY <1>1, <1>6, <3>4 DEF PairInv, Halved
    <3> QED BY <3>1, <3>5
  <2>4. Few(p_toI', {"Ltk"}) BY <2>2 DEF Few
  <2>5. p_i'.ltk # 0 /\ p_i'.ident # 0 /\ p_i'.ident <= p_draws'
    BY <1>0, <1>1, <1>3, <1>7
  <2> QED BY <2>1, <2>2, <2>3, <2>4, <2>5 DEF Halved
<1>9. Pair!BondsAgree' BY <1>3, <1>7 DEF Pair!BondsAgree
<1> QED BY <1>4, <1>8, <1>9 DEF PairInv

\* A queue that a dropped link ends: what of it had been carried, then the end of the link.
LEMMA CutQueue ==
  ASSUME NEW s \in Seq(Pair!Message), NEW n \in 0..Len(s)
  PROVE  LET t == Append(SubSeq(s, 1, n), Pair!Msg("Down", 0)) IN
         /\ t \in Seq(Pair!Message) /\ t # <<>> /\ Len(t) = n + 1
         /\ \A k \in DOMAIN t : IF k = n + 1 THEN t[k] = Pair!Msg("Down", 0)
                                ELSE \A j \in 1..k : j \in DOMAIN s /\ t[j] = s[j]
<1> DEFINE p == SubSeq(s, 1, n)
<1>0. Len(s) \in Nat /\ DOMAIN s = 1..Len(s) /\ n \in Nat BY LenProperties
<1>1. p \in Seq(Pair!Message) /\ Len(p) = n /\ \A k \in 1..n : p[k] = s[k]
  BY <1>0, SubSeqProperties
<1>2. Pair!Msg("Down", 0) \in Pair!Message BY DEF Pair!Msg, Pair!Message, Pair!Kinds, Pair!Numbers
<1> HIDE DEF p
<1> DEFINE t == Append(p, Pair!Msg("Down", 0))
<1>3. /\ t \in Seq(Pair!Message) /\ Len(t) = n + 1 /\ DOMAIN t = 1..(n + 1)
      /\ \A k \in 1..n : t[k] = p[k]
      /\ t[n + 1] = Pair!Msg("Down", 0)
  BY <1>1, <1>2, Appended
<1> HIDE DEF t
<1>4. t # <<>> BY <1>0, <1>3, EmptySeq
<1>5. \A k \in DOMAIN t : IF k = n + 1 THEN t[k] = Pair!Msg("Down", 0)
                         ELSE \A j \in 1..k : j \in DOMAIN s /\ t[j] = s[j]
  BY <1>0, <1>1, <1>3
<1> QED BY <1>3, <1>4, <1>5 DEF t, p

\* A link that is down carries nothing, and nothing of the central changes but the link.
LEMMA PairDown ==
  ASSUME PairInv, PairTypes', ~p_up', p_secret' = Pair!NoKey, p_i' = p_i, Halved',
         \A k \in DOMAIN p_toR' : p_toR'[k].type = "Down" => k = Len(p_toR'),
         p_clash' => p_cut', p_cut' \/ (p_cut' = p_cut /\ p_r'.bond = p_r.bond)
  PROVE  PairInv'
<1>1. InTurn' /\ OnLink' /\ Revealed' /\ KeyAsked' BY DEF PairInv, InTurn, OnLink, Revealed, KeyAsked
<1>2. Pair!KeysAgree' /\ Pair!BondsAgree' BY DEF PairInv, Pair!KeysAgree, Pair!BondsAgree
<1> QED BY <1>1, <1>2 DEF PairInv

LEMMA PairConnect == PairInv /\ Pair!Connect => PairInv'
<1> SUFFICES ASSUME PairInv, Pair!Connect PROVE PairInv' OBVIOUS
<1>0. PairTypes BY DEF PairInv
<1>1. /\ ~p_up /\ p_toR = <<>> /\ p_toI = <<>> /\ p_up' = TRUE /\ p_began' = 0
      /\ p_r' = [state |-> "Idle", prnd |-> p_r.prnd, mconfirm |-> p_r.mconfirm, stk |-> Pair!NoKey,
                bond |-> p_r.bond, distributed |-> FALSE]
      /\ p_i' = [p_i EXCEPT !.state = "Idle", !.stk = Pair!NoKey]
      /\ UNCHANGED <<p_toR, p_toI, p_draws, p_secret, p_sealed, p_saved, p_cut, p_clash>>
  BY DEF Pair!Connect, Pair!CleanR, Pair!CleanI
<1>2. p_r' \in PeripheralState BY <1>0, <1>1, PeripheralParts, PairPeripheralTypes DEF PairTypes
<1>3. p_i' \in CentralState BY <1>0, <1>1, PeripheralParts, PairCentralTypes DEF PairTypes
<1>4. PairTypes'
  <2>1. p_began' \in 0..Pairings BY <1>1
  <2>2. p_up' \in BOOLEAN BY <1>1, Zenon
  <2> QED BY <1>0, <1>1, <1>2, <1>3, <2>1, <2>2 DEF PairTypes, Pair!TypeOK, PeripheralState, CentralState
<1>5. /\ p_r'.stk = Pair!NoKey /\ p_r'.bond = p_r.bond /\ p_i'.state = "Idle" /\ p_i'.mrand = p_i.mrand
      /\ p_i'.ltk = p_i.ltk /\ p_i'.ident = p_i.ident /\ p_i'.haveBond = p_i.haveBond
  BY <1>0, <1>1 DEF PairTypes, CentralState
<1>6. DOMAIN p_toR' = {} /\ DOMAIN p_toI' = {} /\ p_toR' = <<>> /\ p_toI' = <<>> BY <1>1
<1>7. p_secret' = Pair!NoKey BY <1>1 DEF PairInv, OnLink
<1>8. InTurn' /\ OnLink' /\ Revealed' /\ KeyAsked'
  BY <1>1, <1>5, <1>6, <1>7 DEF InTurn, OnLink, Revealed, KeyAsked, Few, Empty
<1>9. Halved'
  <2>1. p_draws <= p_draws' /\ Empty(p_toI', Halves) BY <1>0, <1>1, <1>6, Messages DEF Empty
  <2> QED BY <1>1, <1>4, <1>5, <1>6, <2>1, HalvesStay
<1>10. Pair!KeysAgree' /\ Pair!BondsAgree' BY <1>1, <1>5 DEF PairInv, Pair!KeysAgree, Pair!BondsAgree
<1> QED BY <1>4, <1>8, <1>9, <1>10 DEF PairInv

LEMMA PairDrop == PairInv /\ Pair!Drop => PairInv'
<1> SUFFICES ASSUME PairInv, Pair!Drop PROVE PairInv' OBVIOUS
<1>0. PairTypes /\ p_toI \in Seq(Pair!Message) /\ p_toR \in Seq(Pair!Message) /\ p_draws \in Int
  BY Messages DEF PairInv
<1>1. PICK kept \in 0..Len(p_toR), got \in 0..Len(p_toI) :
        /\ p_up /\ p_toR' = Append(SubSeq(p_toR, 1, kept), Pair!Msg("Down", 0))
        /\ p_toI' = Append(SubSeq(p_toI, 1, got), Pair!Msg("Down", 0))
        /\ p_up' = FALSE /\ p_sealed' = FALSE /\ p_secret' = Pair!NoKey
        /\ UNCHANGED <<p_began, p_r, p_i, p_draws, p_saved, p_cut, p_clash>>
  BY DEF Pair!Drop, Pair!Cut, Pair!Zero
<1>2. /\ p_toR' \in Seq(Pair!Message) /\ p_toI' \in Seq(Pair!Message) /\ Len(p_toR') = kept + 1
      /\ \A k \in DOMAIN p_toR' : IF k = kept + 1 THEN p_toR'[k] = Pair!Msg("Down", 0)
                                  ELSE \A j \in 1..k : j \in DOMAIN p_toR /\ p_toR'[j] = p_toR[j]
      /\ \A k \in DOMAIN p_toI' : IF k = got + 1 THEN p_toI'[k] = Pair!Msg("Down", 0)
                                  ELSE \A j \in 1..k : j \in DOMAIN p_toI /\ p_toI'[j] = p_toI[j]
  BY <1>0, <1>1, CutQueue
<1>3. PairTypes'
  <2>1. {p_up', p_sealed'} \subseteq BOOLEAN BY <1>1, Zenon
  <2> QED BY <1>0, <1>1, <1>2, <2>1, PeripheralParts DEF PairTypes, Pair!TypeOK
<1>4. Pair!Msg("Down", 0).type \notin Halves BY DEF Pair!Msg, Halves
<1>5. \A k \in DOMAIN p_toI' : k \in 1..k BY <1>2, LenProperties
<1>6. \A k \in DOMAIN p_toI' : p_toI'[k].type \in Halves =>
        \A j \in 1..k : j \in DOMAIN p_toI /\ p_toI'[j] = p_toI[j]
  BY <1>2, <1>4
<1>7. p_r.distributed \/ Empty(p_toI', Halves) BY <1>1, <1>5, <1>6 DEF PairInv, Halved, Empty
<1>8. Halved' BY <1>0, <1>1, <1>3, <1>6, <1>7, HalvesStay
<1>9. \A k \in DOMAIN p_toR' : p_toR'[k].type = "Down" => k = Len(p_toR')
  <2> SUFFICES ASSUME NEW k \in DOMAIN p_toR', p_toR'[k].type = "Down", k # kept + 1 PROVE FALSE BY <1>2
  <2>1. k \in 1..k BY <1>2, LenProperties
  <2>2. k \in DOMAIN p_toR /\ p_toR[k].type = "Down" BY <1>2, <2>1
  <2> QED BY <1>1, <2>2 DEF PairInv, OnLink, Empty
<1> QED BY <1>1, <1>3, <1>8, <1>9, PairDown DEF PairInv, Pair!KeysAgree

LEMMA PairPowerCycle == PairInv /\ Pair!PowerCycle => PairInv'
<1> SUFFICES ASSUME PairInv, Pair!PowerCycle PROVE PairInv' OBVIOUS
<1>0. PairTypes /\ p_toI \in Seq(Pair!Message) /\ p_toR \in Seq(Pair!Message) /\ p_draws \in Int
  BY Messages DEF PairInv
<1>1. /\ p_toR' = <<>> /\ p_cut' = (p_cut \/ p_saved # p_r.bond)
      /\ p_r' = [state |-> "Idle", prnd |-> p_r.prnd, mconfirm |-> p_r.mconfirm, stk |-> Pair!NoKey,
                bond |-> p_saved, distributed |-> FALSE]
      /\ p_up' = FALSE /\ p_sealed' = FALSE /\ p_secret' = Pair!NoKey
      /\ UNCHANGED <<p_began, p_i, p_draws, p_saved, p_clash>>
  BY DEF Pair!PowerCycle, Pair!CleanR
<1>2. \/ p_toI' = p_toI
      \/ \E got \in 0..Len(p_toI) : p_toI' = Append(SubSeq(p_toI, 1, got), Pair!Msg("Down", 0))
  BY DEF Pair!PowerCycle, Pair!Zero
<1>3. /\ p_toI' \in Seq(Pair!Message)
      /\ \A k \in DOMAIN p_toI' : p_toI'[k].type \in Halves =>
           \A j \in 1..k : j \in DOMAIN p_toI /\ p_toI'[j] = p_toI[j]
  <2>1. CASE p_toI' = p_toI BY <1>0, <2>1, LenProperties
  <2>2. CASE p_toI' # p_toI
    <3>1. PICK got \in 0..Len(p_toI) : p_toI' = Append(SubSeq(p_toI, 1, got), Pair!Msg("Down", 0))
      BY <1>2, <2>2
    <3>2. Pair!Msg("Down", 0).type \notin Halves BY DEF Pair!Msg, Halves
    <3> QED BY <1>0, <3>1, <3>2, CutQueue
  <2> QED BY <2>1, <2>2
<1>4. p_r' \in PeripheralState /\ p_r'.bond = p_saved
  BY <1>0, <1>1, PeripheralParts, PairPeripheralTypes DEF PairTypes
<1>5. PairTypes'
  <2>1. {p_up', p_sealed', p_cut'} \subseteq BOOLEAN BY <1>1, Zenon
  <2>2. p_toR' \in Seq(Pair!Message) BY <1>1
  <2> QED BY <1>0, <1>1, <1>3, <1>4, <2>1, <2>2, PeripheralParts DEF PairTypes, Pair!TypeOK, PeripheralState
<1>6. (p_cut' \/ (p_cut' = p_cut /\ p_r'.bond = p_r.bond)) /\ (p_cut => p_cut')
  <2>1. CASE p_cut' BY <2>1
  <2>2. CASE ~p_cut'
    <3>1. ~p_cut /\ p_saved = p_r.bond BY <1>1, <2>2
    <3>2. {p_cut, p_cut'} \subseteq BOOLEAN BY <1>0, <1>5 DEF PairTypes, Pair!TypeOK
    <3> QED BY <1>4, <2>2, <3>1, <3>2
  <2> QED BY <2>1, <2>2
<1>7. Halved' BY <1>0, <1>1, <1>3, <1>5, <1>6, HalvesStay
<1>8. \A k \in DOMAIN p_toR' : p_toR'[k].type = "Down" => k = Len(p_toR') BY <1>1
<1>9. p_clash' => p_cut' BY <1>1, <1>6 DEF PairInv, Pair!KeysAgree
<1> QED BY <1>1, <1>5, <1>6, <1>7, <1>8, <1>9, PairDown

LEMMA PairOnDownR == PairInv /\ Pair!OnDownR => PairInv'
<1> SUFFICES ASSUME PairInv, Pair!OnDownR PROVE PairInv' OBVIOUS
<1>0. PairTypes /\ p_toI \in Seq(Pair!Message) /\ p_toR \in Seq(Pair!Message) /\ p_draws \in Int
  BY Messages DEF PairInv
<1>1. /\ Pair!NextR /\ Pair!FromR /\ Head(p_toR).type = "Down" /\ p_toI' = p_toI /\ p_draws' = p_draws
      /\ p_r' = [state |-> "Idle", prnd |-> p_r.prnd, mconfirm |-> p_r.mconfirm, stk |-> Pair!NoKey,
                bond |-> p_r.bond, distributed |-> FALSE]
  BY DEF Pair!OnDownR, Pair!CleanR
<1>2. /\ p_toR # <<>> /\ p_toR' = Tail(p_toR)
      /\ UNCHANGED <<p_up, p_began, p_i, p_secret, p_sealed, p_saved, p_cut, p_clash>>
  BY <1>1 DEF Pair!NextR, Pair!FromR
<1>3. p_r' \in PeripheralState /\ p_r'.bond = p_r.bond
  BY <1>0, <1>1, PeripheralParts, PairPeripheralTypes DEF PairTypes
<1>4. PairTypes' BY <1>0, <1>1, <1>3, PeripheralParts, PeripheralKeepsTypes
<1>5. /\ Len(p_toR) \in Nat /\ Head(p_toR) = p_toR[1] /\ 1 \in DOMAIN p_toR
      /\ Tail(p_toR) \in Seq(Pair!Message) /\ Len(Tail(p_toR)) = Len(p_toR) - 1
  BY <1>0, <1>2, Shortened
<1>6. ~p_up /\ 1 = Len(p_toR) BY <1>1, <1>5 DEF PairInv, OnLink, Empty
<1>7. p_toR' = <<>> BY <1>2, <1>5, <1>6, EmptySeq
<1>8. p_secret' = Pair!NoKey BY <1>2, <1>6 DEF PairInv, OnLink
<1>9. \A k \in DOMAIN p_toI' : \A j \in 1..k : j \in DOMAIN p_toI /\ p_toI'[j] = p_toI[j]
  BY <1>0, <1>1, LenProperties
<1>10. Halved' BY <1>0, <1>1, <1>2, <1>3, <1>4, <1>6, <1>7, <1>9, HalvesStay
<1>11. \A k \in DOMAIN p_toR' : p_toR'[k].type = "Down" => k = Len(p_toR') BY <1>7
<1> QED BY <1>2, <1>3, <1>4, <1>6, <1>8, <1>10, <1>11, PairDown DEF PairInv, Pair!KeysAgree

LEMMA PairAnswersNone == PairInv /\ Pair!AnswersNone => PairInv'
<1> SUFFICES ASSUME PairInv, Pair!AnswersNone PROVE PairInv' OBVIOUS
<1>0. PairTypes /\ p_toI \in Seq(Pair!Message) /\ p_toR \in Seq(Pair!Message) /\ p_draws \in Int
  BY Messages DEF PairInv
<1>1. /\ p_toR # <<>> /\ p_toR' = Tail(p_toR) /\ Head(p_toR).type = "KeyRequest"
      /\ Pair!ToI(Pair!Msg("Plain", 0)) /\ p_secret' = Pair!NoKey
      /\ UNCHANGED <<p_up, p_sealed, p_clash, p_began, p_r, p_i, p_draws, p_saved, p_cut>>
  BY DEF Pair!AnswersNone, Pair!KeyRequested, Pair!NextR, Pair!FromKey, Pair!Zero
<1>2. "Plain" \in Pair!Kinds /\ 0 \in Pair!Numbers BY <1>0, Messages DEF Pair!Kinds
<1>3. /\ p_toI' \in Seq(Pair!Message)
      /\ IF p_up THEN p_toI' = Append(p_toI, Pair!Msg("Plain", 0)) ELSE p_toI' = p_toI
      /\ Pair!Msg("Plain", 0) \in Pair!Message /\ Pair!Msg("Plain", 0).type = "Plain"
  BY <1>0, <1>1, <1>2, PairSent
<1>4. PairTypes'
  <2>1. p_toR' \in Seq(Pair!Message) BY <1>0, <1>1, Messages
  <2> QED BY <1>0, <1>1, <1>3, <2>1, PeripheralParts DEF PairTypes, Pair!TypeOK
<1>5. Halved' BY <1>0, <1>1, <1>3, <1>4, HalvesAdded DEF Halves
<1>6. /\ Len(p_toR) \in Nat /\ Head(p_toR) = p_toR[1] /\ 1 \in DOMAIN p_toR
      /\ \A k \in DOMAIN p_toR' : k + 1 \in DOMAIN p_toR /\ p_toR'[k] = p_toR[k + 1]
      /\ \A k \in DOMAIN p_toR' : k + 1 = Len(p_toR) => k = Len(p_toR')
  BY <1>0, <1>1, Shortened
<1>7. \A k \in DOMAIN p_toR' : p_toR'[k].type = "Down" => k = Len(p_toR') BY <1>6 DEF PairInv, OnLink
<1>8. CASE ~p_up BY <1>1, <1>4, <1>5, <1>7, <1>8, PairDown DEF PairInv, Pair!KeysAgree
<1>9. CASE p_up
  <2>1. Empty(p_toI, Replies) /\ Empty(p_toR', Asks) /\ Empty(p_toR', {"Down"})
    BY <1>0, <1>1, <1>9, TailKeeps DEF PairInv, InTurn, OnLink, Asks
  <2>2. Empty(p_toI', Replies) /\ Empty(p_toI', {"Down"})
    BY <1>0, <1>3, <1>9, <2>1, AppendKeeps DEF PairInv, OnLink, Replies
  <2>3. p_began # 0 BY <1>1, <1>9 DEF PairInv, OnLink
  <2>4. InTurn' BY <2>1, <2>2 DEF InTurn, Few, Empty
  <2>5. OnLink' BY <1>1, <1>7, <2>1, <2>2, <2>3 DEF PairInv, OnLink
  <2>6. Revealed' /\ KeyAsked' BY <1>1, <2>1, <2>2 DEF PairInv, Revealed, KeyAsked, Empty, Asks, Replies
  <2>7. Pair!KeysAgree' /\ Pair!BondsAgree' BY <1>1 DEF PairInv, Pair!KeysAgree, Pair!BondsAgree
  <2> QED BY <1>4, <1>5, <2>4, <2>5, <2>6, <2>7 DEF PairInv
<1> QED BY <1>8, <1>9

\* The answer to a request that came over a link that is up is the key of the other end.
LEMMA PairAnswer ==
  ASSUME PairInv, p_toR # <<>>, Head(p_toR).type = "KeyRequest", p_up, Pair!Answer # Pair!NoKey, ~p_cut
  PROVE  Pair!Answer = p_secret
<1>1. 1 \in DOMAIN p_toR /\ Head(p_toR) = p_toR[1] BY Shortened, Messages DEF PairInv
<1>2. Asked(Head(p_toR).value, p_secret, p_r.stk, p_r.bond, p_cut) BY <1>1 DEF PairInv, KeyAsked
<1> QED BY <1>2 DEF Asked, Pair!Answer, Pair!LongTermKey, Pair!Zero

LEMMA PairAnswersKey == PairInv /\ Pair!AnswersKey => PairInv'
<1> SUFFICES ASSUME PairInv, Pair!AnswersKey PROVE PairInv' OBVIOUS
<1>0. PairTypes /\ p_toI \in Seq(Pair!Message) /\ p_toR \in Seq(Pair!Message) /\ p_draws \in Int
      /\ Tail(p_toR) \in Seq(Pair!Message)
  BY Messages DEF PairInv, Pair!AnswersKey
<1>1. /\ p_toR # <<>> /\ Head(p_toR).type = "KeyRequest" /\ Pair!Answer # Pair!NoKey
      /\ UNCHANGED <<p_began, p_r, p_i, p_draws, p_saved, p_cut>>
  BY DEF Pair!AnswersKey, Pair!FromKey
<1>2. {"Sealed", "Down"} \subseteq Pair!Kinds /\ 0 \in Pair!Numbers BY <1>0, Messages DEF Pair!Kinds
<1>3. /\ Len(p_toR) \in Nat /\ Head(p_toR) = p_toR[1] /\ 1 \in DOMAIN p_toR
      /\ \A k \in DOMAIN Tail(p_toR) : k + 1 \in DOMAIN p_toR /\ Tail(p_toR)[k] = p_toR[k + 1]
      /\ \A k \in DOMAIN Tail(p_toR) : k + 1 = Len(p_toR) => k = Len(Tail(p_toR))
  BY <1>0, <1>1, Shortened
<1>4. CASE ~p_up
  <2>1. p_toR' = Tail(p_toR) /\ UNCHANGED <<p_up, p_toI, p_secret, p_sealed, p_clash>>
    BY <1>4 DEF Pair!AnswersKey
  <2>2. PairTypes' BY <1>0, <1>1, <2>1 DEF PairTypes, Pair!TypeOK
  <2>3. "Sealed" \in Pair!Kinds /\ Pair!Msg("Sealed", 0) \in Pair!Message /\ Pair!Msg("Sealed", 0).type = "Sealed"
    BY <1>0, <1>2, PairSent
  <2>4. Halved' BY <1>0, <1>1, <2>1, <2>2, <2>3, HalvesAdded DEF Halves
  <2>5. \A k \in DOMAIN p_toR' : p_toR'[k].type = "Down" => k = Len(p_toR') BY <1>3, <2>1 DEF PairInv, OnLink
  <2> QED BY <1>1, <1>4, <2>1, <2>2, <2>4, <2>5, PairDown DEF PairInv, Pair!KeysAgree, OnLink
<1>5. CASE p_up /\ Pair!Answer = p_secret
  <2>1. /\ p_toR' = Append(Tail(p_toR), Pair!Msg("Sealed", 0)) /\ Pair!ToI(Pair!Msg("Sealed", 0))
        /\ p_sealed' = TRUE /\ UNCHANGED <<p_up, p_secret, p_clash>>
    BY <1>5 DEF Pair!AnswersKey, Pair!Zero
  <2>2. /\ p_toI' \in Seq(Pair!Message) /\ p_toI' = Append(p_toI, Pair!Msg("Sealed", 0))
        /\ Pair!Msg("Sealed", 0) \in Pair!Message /\ Pair!Msg("Sealed", 0).type = "Sealed"
    BY <1>0, <1>2, <1>5, <2>1, PairSent
  <2>3. PairTypes'
    <3>1. p_toR' \in Seq(Pair!Message) BY <1>0, <1>2, <2>1, Queued
    <3>2. p_sealed' \in BOOLEAN BY <2>1, Zenon
    <3> QED BY <1>0, <1>1, <2>1, <2>2, <3>1, <3>2 DEF PairTypes, Pair!TypeOK
  <2>4. Halved' BY <1>0, <1>1, <2>2, <2>3, HalvesAdded DEF Halves
  <2>5. Empty(p_toI, Replies) /\ Empty(Tail(p_toR), Asks) /\ Empty(Tail(p_toR), {"Down"})
    BY <1>0, <1>1, <1>5, TailKeeps DEF PairInv, InTurn, OnLink, Asks
  <2>6. Empty(p_toI', Replies) /\ Empty(p_toI', {"Down"})
    BY <1>0, <1>5, <2>2, <2>5, AppendKeeps DEF PairInv, OnLink, Replies
  <2>7. Empty(p_toR', Asks) /\ Empty(p_toR', {"Down"})
    BY <1>0, <2>1, <2>2, <2>5, AppendKeeps DEF Asks
  <2>8. p_began # 0 BY <1>1, <1>5 DEF PairInv, OnLink
  <2>9. InTurn' BY <2>6, <2>7 DEF InTurn, Few, Empty
  <2>10. OnLink' BY <1>1, <1>5, <2>1, <2>6, <2>7, <2>8 DEF OnLink, Empty
  <2>11. Revealed' /\ KeyAsked'
    BY <1>1, <2>6, <2>7 DEF PairInv, Revealed, KeyAsked, Empty, Asks, Replies
  <2>12. Pair!KeysAgree' /\ Pair!BondsAgree' BY <1>1, <2>1 DEF PairInv, Pair!KeysAgree, Pair!BondsAgree
  <2> QED BY <2>3, <2>4, <2>9, <2>10, <2>11, <2>12 DEF PairInv
<1>6. CASE p_up /\ Pair!Answer # p_secret
  <2>1. /\ p_toR' = Append(Tail(p_toR), Pair!Msg("Down", 0)) /\ Pair!ToI(Pair!Msg("Down", 0))
        /\ p_up' = FALSE /\ p_sealed' = FALSE /\ p_secret' = Pair!NoKey /\ p_clash' = TRUE
    BY <1>6 DEF Pair!AnswersKey, Pair!Zero
  <2>2. /\ p_toI' \in Seq(Pair!Message) /\ p_toI' = Append(p_toI, Pair!Msg("Down", 0))
        /\ Pair!Msg("Down", 0) \in Pair!Message /\ Pair!Msg("Down", 0).type = "Down"
    BY <1>0, <1>2, <1>6, <2>1, PairSent
  <2>3. PairTypes'
    <3>1. p_toR' \in Seq(Pair!Message) BY <1>0, <1>2, <2>1, Queued
    <3>2. {p_up', p_sealed', p_clash'} \subseteq BOOLEAN BY <2>1, Zenon
    <3> QED BY <1>0, <1>1, <2>1, <2>2, <3>1, <3>2, PeripheralParts DEF PairTypes, Pair!TypeOK
  <2>4. Halved' BY <1>0, <1>1, <2>2, <2>3, HalvesAdded DEF Halves
  <2>5. Empty(Tail(p_toR), {"Down"}) BY <1>0, <1>1, <1>6, TailKeeps DEF PairInv, OnLink
  <2>6. \A k \in DOMAIN p_toR' : p_toR'[k].type = "Down" => k = Len(p_toR')
    <3> DEFINE t == Tail(p_toR)
    <3>1. \A k \in DOMAIN Append(t, Pair!Msg("Down", 0)) :
             (k \in DOMAIN t /\ Append(t, Pair!Msg("Down", 0))[k] = t[k]) \/ k = Len(t) + 1
      BY <1>0, <2>2, InAppended
    <3>2. Len(Append(t, Pair!Msg("Down", 0))) = Len(t) + 1 BY <1>0, <2>2, Appended
    <3> QED BY <2>1, <2>5, <3>1, <3>2 DEF Empty
  <2>7. p_cut BY <1>1, <1>6, PairAnswer
  <2> QED BY <1>1, <2>1, <2>3, <2>4, <2>6, <2>7, PairDown
<1> QED BY <1>4, <1>5, <1>6

\* A link's encryption heard of: what it leaves of everything but the bond.
LEMMA PairSealedKeeps ==
  ASSUME PairInv, PairTypes', Pair!NextR, Head(p_toR).type = "Sealed",
         p_r'.stk = p_r.stk, p_r'.bond = p_r.bond \/ p_r.stk # Pair!NoKey,
         UNCHANGED <<p_up, p_began, p_i, p_secret, p_cut, p_clash>>,
         \A k \in DOMAIN p_toI' : (k \in DOMAIN p_toI /\ p_toI'[k] = p_toI[k]) \/ (p_up /\ p_toI'[k].type \in Halves),
         p_toI = <<>> => (p_toI' = <<>> \/ p_r.stk # Pair!NoKey)
  PROVE  InTurn' /\ OnLink' /\ Revealed' /\ KeyAsked' /\ Pair!KeysAgree'
<1>0. PairTypes /\ p_toI \in Seq(Pair!Message) /\ p_toR \in Seq(Pair!Message) BY Messages DEF PairInv
<1>1. p_toR # <<>> /\ p_toR' = Tail(p_toR) BY DEF Pair!NextR
<1>2. /\ Len(p_toR) \in Nat /\ Head(p_toR) = p_toR[1] /\ 1 \in DOMAIN p_toR
      /\ \A k \in DOMAIN p_toR' : k + 1 \in DOMAIN p_toR /\ p_toR'[k] = p_toR[k + 1]
      /\ \A k \in DOMAIN p_toR' : k + 1 = Len(p_toR) => k = Len(p_toR')
  BY <1>0, <1>1, Shortened
<1>3. InTurn'
  <2> SUFFICES ASSUME p_up PROVE InTurn' BY DEF InTurn
  <2>1. Few(p_toR', Asks) /\ (Empty(p_toR, Asks) => Empty(p_toR', Asks))
    BY <1>0, <1>1, TailKeeps DEF PairInv, InTurn
  <2>2. \A k \in DOMAIN p_toI' : p_toI'[k].type \in Replies => k \in DOMAIN p_toI /\ p_toI'[k] = p_toI[k]
    BY DEF Halves, Replies
  <2>3. Few(p_toI', Replies) /\ (Empty(p_toI, Replies) => Empty(p_toI', Replies))
    BY <2>2 DEF PairInv, InTurn, Few, Empty
  <2> QED BY <2>1, <2>3 DEF PairInv, InTurn
<1>4. OnLink'
  <2>1. p_up => Empty(p_toR', {"Down"}) BY <1>0, <1>1, TailKeeps DEF PairInv, OnLink
  <2>2. p_up => Empty(p_toI', {"Down"}) BY DEF PairInv, OnLink, Empty, Halves
  <2>3. ~(p_up /\ p_began = 0) BY <1>1 DEF PairInv, OnLink
  <2>4. \A k \in DOMAIN p_toR' : p_toR'[k].type = "Down" => k = Len(p_toR') BY <1>2 DEF PairInv, OnLink
  <2> QED BY <2>1, <2>2, <2>3, <2>4 DEF PairInv, OnLink
<1>5. Revealed'
  <2>1. \A k \in DOMAIN p_toI' : p_up /\ p_toI'[k].type = "Random" => k \in DOMAIN p_toI /\ p_toI'[k] = p_toI[k]
    BY DEF Halves
  <2> QED BY <1>2, <2>1 DEF PairInv, Revealed
<1>6. KeyAsked'
  <2> SUFFICES ASSUME p_up, NEW k \in DOMAIN p_toR', p_toR'[k].type = "KeyRequest"
               PROVE  Asked(p_toR'[k].value, p_secret', p_r'.stk, p_r'.bond, p_cut')
    BY DEF KeyAsked
  <2>1. Asked(p_toR[k + 1].value, p_secret, p_r.stk, p_r.bond, p_cut) BY <1>2 DEF PairInv, KeyAsked
  <2> QED BY <1>2, <2>1 DEF Asked
<1>7. Pair!KeysAgree' BY DEF PairInv, Pair!KeysAgree
<1> QED BY <1>3, <1>4, <1>5, <1>6, <1>7

LEMMA PairOnSealedR == PairInv /\ Pair!OnSealedR => PairInv'
<1> SUFFICES ASSUME PairInv, Pair!OnSealedR PROVE PairInv' OBVIOUS
<1>0. /\ PairTypes /\ p_toI \in Seq(Pair!Message) /\ p_toR \in Seq(Pair!Message) /\ p_draws \in Nat
      /\ p_i.ident \in Pair!Numbers
  BY Messages, PeripheralParts DEF PairInv
<1>1. /\ Pair!NextR /\ p_toR # <<>> /\ p_toR' = Tail(p_toR) /\ Head(p_toR).type = "Sealed"
      /\ UNCHANGED <<p_up, p_began, p_i, p_secret, p_sealed, p_cut, p_clash>>
  BY DEF Pair!OnSealedR, Pair!NextR
<1>2. p_toR' \in Seq(Pair!Message) BY <1>0, <1>1, Messages
<1>3. CASE UNCHANGED <<p_toI, p_r, p_draws, p_saved>>
  <2>1. PairTypes' BY <1>0, <1>1, <1>2, <1>3 DEF PairTypes, Pair!TypeOK
  <2>2. Pair!Msg("Sealed", 0) \in Pair!Message /\ Pair!Msg("Sealed", 0).type = "Sealed"
    <3>1. "Sealed" \in Pair!Kinds /\ 0 \in Pair!Numbers BY <1>0, Messages DEF Pair!Kinds
    <3> QED BY <1>0, <3>1, PairSent
  <2>3. Halved' BY <1>0, <1>1, <1>3, <2>1, <2>2, HalvesAdded DEF Halves
  <2>4. InTurn' /\ OnLink' /\ Revealed' /\ KeyAsked' /\ Pair!KeysAgree'
    BY <1>1, <1>3, <2>1, PairSealedKeeps
  <2>5. Pair!BondsAgree' BY <1>1, <1>3 DEF PairInv, Pair!BondsAgree
  <2> QED BY <2>1, <2>3, <2>4, <2>5 DEF PairInv
<1>4. CASE ~UNCHANGED <<p_toI, p_r, p_draws, p_saved>>
  <2>1. /\ p_r.stk # Pair!NoKey /\ ~p_r.distributed /\ p_draws < Draws /\ p_draws' = p_draws + 1
        /\ p_r' = [p_r EXCEPT !.bond = p_draws + 1, !.distributed = TRUE]
        /\ p_toI' = IF p_up THEN p_toI \o <<Pair!Msg("Ltk", p_draws + 1), Pair!Msg("Ident", p_draws + 1)>> ELSE p_toI
        /\ p_saved' \in {p_saved, p_draws + 1}
    BY <1>4 DEF Pair!OnSealedR, Pair!Draw, Pair!Fresh
  <2>2. p_draws + 1 \in Pair!Numbers BY <1>0, <2>1, Messages
  <2> DEFINE n == p_draws + 1
  <2>3. /\ Pair!Msg("Ltk", n) \in Pair!Message /\ Pair!Msg("Ident", n) \in Pair!Message
        /\ Pair!Msg("Ltk", n).type = "Ltk" /\ Pair!Msg("Ident", n).type = "Ident"
        /\ Pair!Msg("Ltk", n).value = n /\ Pair!Msg("Ident", n).value = n
    <3>1. {"Ltk", "Ident"} \subseteq Pair!Kinds BY DEF Pair!Kinds
    <3> QED BY <1>0, <2>2, <3>1, Messages DEF Pair!Msg
  <2>4. n \in Nat /\ p_draws < n /\ n # 0 BY <1>0
  <2> HIDE DEF n
  <2> DEFINE t == p_toI \o <<Pair!Msg("Ltk", n), Pair!Msg("Ident", n)>>
             l == Len(p_toI)
  <2>5. /\ l \in Nat /\ DOMAIN p_toI = 1..l
        /\ t \in Seq(Pair!Message) /\ DOMAIN t = 1..(l + 2)
        /\ \A k \in 1..l : t[k] = p_toI[k]
        /\ t[l + 1] = Pair!Msg("Ltk", n) /\ t[l + 2] = Pair!Msg("Ident", n)
    BY <1>0, <2>3, TwoAppended DEF l, t
  <2> HIDE DEF t, l
  <2>6. p_toI' = IF p_up THEN t ELSE p_toI BY <2>1 DEF n, t
  <2>7. p_r' \in PeripheralState
    BY <1>0, <2>1, <2>2, PeripheralParts, PairPeripheralTypes DEF PairTypes
  <2>8. p_r'.stk = p_r.stk /\ p_r'.bond = n BY <1>0, <2>1 DEF PairTypes, PeripheralState, n
  <2>9. p_r'.distributed BY <1>0, <2>1 DEF PairTypes, PeripheralState
  <2>10. PairTypes'
    <3>1. p_toI' \in Seq(Pair!Message) BY <1>0, <2>5, <2>6
    <3>2. p_saved' \in Pair!Numbers /\ p_draws' \in Pair!Numbers BY <1>0, <2>1, <2>2, PeripheralParts
    <3> QED BY <1>0, <1>1, <1>2, <2>7, <3>1, <3>2 DEF PairTypes, Pair!TypeOK, PeripheralState
  <2>11. \A k \in DOMAIN p_toI : p_toI[k].type \notin Halves BY <1>1, <2>1 DEF PairInv, Halved
  <2>12. \A k \in DOMAIN p_toI' : \/ k \in DOMAIN p_toI /\ p_toI'[k] = p_toI[k] /\ p_toI'[k].type \notin Halves
                                  \/ p_up /\ k = l + 1 /\ p_toI'[k] = Pair!Msg("Ltk", n)
                                  \/ p_up /\ k = l + 2 /\ p_toI'[k] = Pair!Msg("Ident", n)
    BY <2>5, <2>6, <2>11
  <2>13. InTurn' /\ OnLink' /\ Revealed' /\ KeyAsked' /\ Pair!KeysAgree'
    BY <1>1, <2>1, <2>3, <2>8, <2>10, <2>12, PairSealedKeeps DEF Halves
  <2>14. Halved'
    <3>1. \A k \in DOMAIN p_toI' : p_toI'[k].type \in Halves => p_toI'[k].value = n BY <2>3, <2>12
    <3>2. \A k \in DOMAIN p_toI' : p_toI'[k].type = "Ltk" => k = l + 1 BY <2>3, <2>12 DEF Halves
    <3>3. \A k \in DOMAIN p_toI' : p_toI'[k].type = "Ident" => k = l + 2 /\ p_up BY <2>3, <2>12 DEF Halves
    <3>4. p_i.ident <= p_draws /\ p_i.ident \in Int BY <1>0 DEF PairInv, Halved, Pair!Numbers
    <3>5. n \in 1..p_draws' /\ n # p_i.ident BY <1>0, <2>1, <2>4, <3>4 DEF n
    <3>6. \A k \in DOMAIN p_toI' : p_toI'[k].type \in Halves =>
            /\ p_toI'[k].value \in 1..p_draws'
            /\ p_cut' \/ p_toI'[k].value = p_r'.bond
            /\ p_r'.distributed \/ (p_toR' = <<>> /\ ~p_up')
      BY <2>8, <2>9, <3>1, <3>5
    <3>7. \A k \in DOMAIN p_toI' : p_toI'[k].type = "Ltk" => p_toI'[k].value # p_i'.ident
      BY <1>1, <3>1, <3>5 DEF Halves
    <3>8. ASSUME NEW k \in DOMAIN p_toI', p_toI'[k].type = "Ident"
          PROVE  IF k = 1 THEN p_i'.ltk = p_toI'[k].value ELSE p_toI'[k - 1] = Pair!Msg("Ltk", p_toI'[k].value)
      <4>1. k = l + 2 /\ p_up /\ p_toI'[k].value = n BY <3>1, <3>3, <3>8 DEF Halves
      <4>2. k # 1 /\ k - 1 = l + 1 BY <2>5, <4>1
      <4> QED BY <2>5, <2>6, <4>1, <4>2
    <3>9. Few(p_toI', {"Ltk"}) BY <3>2 DEF Few
    <3>10. \A j, k \in DOMAIN p_toI' : p_toI'[j].type = "Ident" /\ p_toI'[k].type = "Ltk" => k < j
      BY <2>5, <3>2, <3>3
    <3>11. (p_i'.haveBond => p_i'.ltk # 0 /\ p_i'.ident # 0) /\ p_i'.ident <= p_draws'
      BY <1>0, <1>1, <2>1, <3>4 DEF PairInv, Halved
    <3> QED BY <3>6, <3>7, <3>8, <3>9, <3>10, <3>11 DEF Halved, Pair!Msg
  <2>15. Pair!BondsAgree'
    <3>1. p_i.ident # n BY <1>0, <2>4 DEF PairInv, Halved, Pair!Numbers
    <3> QED BY <1>1, <2>8, <3>1 DEF Pair!BondsAgree
  <2> QED BY <2>10, <2>13, <2>14, <2>15 DEF PairInv
<1> QED BY <1>3, <1>4

\* What the central begins reaches a peripheral that is sent nothing else.
LEMMA PairBegun ==
  ASSUME PairInv, PairTypes', p_up, NEW m \in Pair!Message, p_toR' = Append(p_toR, m), m.type \in Asks,
         Empty(p_toR, Asks), Empty(p_toI, Replies), p_began' # 0,
         p_i'.state # "Idle" \/ p_secret' # Pair!NoKey,
         p_i'.state \in {"WaitResponse", p_i.state}, m.type # "Random",
         p_i'.mrand = p_i.mrand, p_i'.ltk = p_i.ltk, p_i'.ident = p_i.ident, p_i'.haveBond = p_i.haveBond,
         m.type = "KeyRequest" => Asked(m.value, p_secret', p_r.stk, p_r.bond, p_cut),
         UNCHANGED <<p_up, p_r, p_toI, p_draws, p_sealed, p_saved, p_cut, p_clash>>
  PROVE  PairInv'
<1>0. p_toI \in Seq(Pair!Message) /\ p_toR \in Seq(Pair!Message) /\ p_draws \in Int
  BY Messages DEF PairInv
<1>1. \A k \in DOMAIN p_toR' : (k \in DOMAIN p_toR /\ p_toR'[k] = p_toR[k]) \/ p_toR'[k] = m
  BY <1>0, InAppended
<1>2. Few(p_toR', Asks) /\ Empty(p_toR', {"Down"}) BY <1>0, AppendKeeps DEF PairInv, OnLink, Asks
<1>3. InTurn' BY <1>2 DEF InTurn, Few, Empty
<1>4. OnLink' BY <1>2 DEF PairInv, OnLink, Empty
<1>5. Revealed'
  <2>1. \A k \in DOMAIN p_toR' : p_toR'[k].type # "Random" BY <1>1 DEF Empty, Asks
  <2>2. \A k \in DOMAIN p_toI : p_toI[k].type # "Random" BY DEF Empty, Replies
  <2> QED BY <2>1, <2>2 DEF PairInv, Revealed
<1>6. KeyAsked'
  <2>1. \A k \in DOMAIN p_toR' : p_toR'[k].type = "KeyRequest" => p_toR'[k] = m BY <1>1 DEF Empty, Asks
  <2> QED BY <2>1 DEF KeyAsked
<1>7. Halved'
  <2>1. \A k \in DOMAIN p_toI : p_toI[k].type \in Halves => p_r.distributed BY DEF PairInv, Halved
  <2>2. p_r.distributed \/ Empty(p_toI', Halves) BY <2>1 DEF Empty
  <2>3. \A k \in DOMAIN p_toI' : \A j \in 1..k : j \in DOMAIN p_toI /\ p_toI'[j] = p_toI[j]
    BY <1>0, LenProperties
  <2> QED BY <1>0, <2>2, <2>3, HalvesStay
<1>8. Pair!KeysAgree' /\ Pair!BondsAgree' BY DEF PairInv, Pair!KeysAgree, Pair!BondsAgree
<1> QED BY <1>3, <1>4, <1>5, <1>6, <1>7, <1>8 DEF PairInv

LEMMA PairStart == PairInv /\ Pair!StartPairing => PairInv'
<1> SUFFICES ASSUME PairInv, Pair!StartPairing PROVE PairInv' OBVIOUS
<1>0. /\ PairTypes /\ p_toI \in Seq(Pair!Message) /\ p_toR \in Seq(Pair!Message) /\ p_draws \in Int
      /\ p_began \in 0..Pairings /\ "Request" \in Pair!Kinds /\ 0 \in Pair!Numbers
  BY Messages DEF PairInv, PairTypes, Pair!TypeOK, Pair!Kinds
<1>1. /\ p_up /\ p_began < Pairings /\ p_began' = p_began + 1 /\ p_secret = Pair!NoKey /\ p_secret' = p_secret
      /\ p_i.state = "Idle" \/ (p_toR = <<>> /\ p_toI = <<>>)
      /\ p_i' = [p_i EXCEPT !.state = "WaitResponse"] /\ Pair!ToR(Pair!Msg("Request", 0))
      /\ UNCHANGED <<p_up, p_r, p_toI, p_draws, p_sealed, p_saved, p_cut, p_clash>>
  BY DEF Pair!StartPairing, Pair!Begin, Pair!FromBegin, Pair!CameToNothing, Pair!Zero
<1>2. /\ p_toR' \in Seq(Pair!Message) /\ p_toR' = Append(p_toR, Pair!Msg("Request", 0))
      /\ Pair!Msg("Request", 0) \in Pair!Message /\ Pair!Msg("Request", 0).type = "Request"
  BY <1>0, <1>1, PairSent
<1>3. p_i' \in CentralState BY <1>0, <1>1, PeripheralParts, PairCentralTypes DEF PairTypes
<1>4. /\ p_i'.state = "WaitResponse" /\ p_i'.mrand = p_i.mrand
      /\ p_i'.ltk = p_i.ltk /\ p_i'.ident = p_i.ident /\ p_i'.haveBond = p_i.haveBond
  BY <1>0, <1>1 DEF PairTypes, CentralState
<1>5. p_began' \in 0..Pairings /\ p_began' # 0 BY <1>0, <1>1
<1>6. PairTypes' BY <1>0, <1>1, <1>2, <1>3, <1>5 DEF PairTypes, Pair!TypeOK, CentralState
<1>7. Empty(p_toR, Asks) /\ Empty(p_toI, Replies) BY <1>1 DEF PairInv, InTurn, Empty
<1> QED BY <1>1, <1>2, <1>4, <1>5, <1>6, <1>7, PairBegun DEF Asks

LEMMA PairReconnect == PairInv /\ Pair!Reconnect => PairInv'
<1> SUFFICES ASSUME PairInv, Pair!Reconnect PROVE PairInv' OBVIOUS
<1>0. /\ PairTypes /\ p_toI \in Seq(Pair!Message) /\ p_toR \in Seq(Pair!Message) /\ p_draws \in Int
      /\ p_began \in 0..Pairings /\ "KeyRequest" \in Pair!Kinds
      /\ p_i.ident \in Pair!Numbers /\ p_i.ltk \in Pair!Numbers
  BY Messages, PeripheralParts DEF PairInv, PairTypes, Pair!TypeOK, Pair!Kinds
<1>1. /\ p_up /\ p_began < Pairings /\ p_began' = p_began + 1 /\ p_began = 0 /\ p_i.haveBond
      /\ p_secret' = <<p_i.ltk, p_i.ltk>> /\ Pair!ToR(Pair!Msg("KeyRequest", p_i.ident))
      /\ UNCHANGED <<p_up, p_r, p_i, p_toI, p_draws, p_sealed, p_saved, p_cut, p_clash>>
  BY DEF Pair!Reconnect, Pair!Begin, Pair!FromBegin, Pair!Ltk
<1>2. /\ p_toR' \in Seq(Pair!Message) /\ p_toR' = Append(p_toR, Pair!Msg("KeyRequest", p_i.ident))
      /\ Pair!Msg("KeyRequest", p_i.ident) \in Pair!Message
      /\ Pair!Msg("KeyRequest", p_i.ident).type = "KeyRequest"
      /\ Pair!Msg("KeyRequest", p_i.ident).value = p_i.ident
  BY <1>0, <1>1, PairSent
<1>3. p_began' \in 0..Pairings /\ p_began' # 0 BY <1>0, <1>1
<1>4. PairTypes' BY <1>0, <1>1, <1>2, <1>3 DEF PairTypes, Pair!TypeOK
<1>5. /\ p_toR = <<>> /\ p_toI = <<>> /\ p_r.stk = Pair!NoKey /\ p_i.ltk # 0 /\ p_i.ident # 0
  BY <1>1 DEF PairInv, OnLink, Halved
<1>6. p_secret' # Pair!NoKey BY <1>1, <1>5 DEF Pair!NoKey, Pair!Zero
<1>7. p_r.bond = p_i.ident /\ ~p_cut => p_secret' = Pair!Ltk(p_i.ident)
  BY <1>1 DEF PairInv, Pair!BondsAgree, Pair!Ltk
<1>8. Asked(p_i.ident, p_secret', p_r.stk, p_r.bond, p_cut) BY <1>5, <1>6, <1>7 DEF Asked
<1>9. Empty(p_toR, Asks) /\ Empty(p_toI, Replies) BY <1>5 DEF Empty
<1> QED BY <1>1, <1>2, <1>3, <1>4, <1>6, <1>8, <1>9, PairBegun DEF Asks

\* Pairing keeps its invariant at every step of the two ends and of the link.
LEMMA PairStep == PairInv /\ [Pair!Next]_pVars => PairInv'
<1> SUFFICES ASSUME PairInv, [Pair!Next]_pVars PROVE PairInv' OBVIOUS
<1>1. CASE UNCHANGED pVars
  BY <1>1 DEF pVars, PairInv, PairTypes, Pair!TypeOK, InTurn, OnLink, Revealed, KeyAsked, Halved, Pair!KeysAgree,
              Pair!BondsAgree
<1>2. CASE Pair!Connect \/ Pair!Drop \/ Pair!PowerCycle BY <1>2, PairConnect, PairDrop, PairPowerCycle
<1>3. CASE Pair!Peripheral
  BY <1>3, PairOnRequest, PairRefusesR, PairOnConfirmR, PairOnRandomR, PairOnFailedR, PairStumbles, PairAnswersNone,
     PairAnswersKey, PairOnSealedR, PairOnDownR DEF Pair!Peripheral
<1>4. CASE Pair!Central
  BY <1>4, PairStart, PairReconnect, PairRefusesI, PairOnResponse, PairOnConfirmI, PairOnRandomI, PairOnLtk,
     PairOnIdent, PairQuietly DEF Pair!Central
<1> QED BY <1>1, <1>2, <1>3, <1>4 DEF Pair!Next

HIDE PairAssumption
=============================================================================
