------------------------------ MODULE AttClient ------------------------------
(***************************************************************************)
(* The GATT client (gatt_client.rs Client): discovery walks made of one    *)
(* ATT request at a time, over a link that keeps order and brings a PDU in *)
(* one or two fragments.  The server's database is chosen at the start;    *)
(* its answers hold as many entries as it likes, or are an error, or, of a *)
(* server that strays from the protocol, list what was not asked for or    *)
(* nothing.  It also notifies, and sends requests of its own, between      *)
(* answers.  While no request waits, the caller feeds the client what it   *)
(* polls.                                                                  *)
(***************************************************************************)
EXTENDS Naturals, Sequences, FiniteSets

CONSTANTS Databases,  \* what a server lists for each kind of walk, in order: <<first handle, last handle>>
          Top,        \* HANDLE_MAX
          Room,       \* entries the caller's slice holds
          Walks,      \* walks the caller makes (bound)
          Slow        \* requests the server lets run into their timeout (bound)

VARIABLES db,         \* what the server has
          walk,       \* kind, range, place and finds of the walk in progress, or how the last ended
          walks,      \* walks begun
          toServer,   \* requests on their way
          toUs,       \* fragments on their way
          reasm,      \* the PDU whose first fragment has come and whose rest has not
          up,         \* the link stands
          slow,       \* requests given up
          owed        \* answers still to come besides the one awaited

vars == <<db, walk, walks, toServer, toUs, reasm, up, slow, owed>>

None == [op |-> "None", entries |-> <<>>]
Pdu(o, e) == [op |-> o, entries |-> e]
\* The groups of a list that begin below a handle; and what an answer to a request may list: of Read
\* By Group Type services, of Read By Type and Find Information single handles.
Before(es, h) == Cardinality({k \in DOMAIN es : es[k][1] < h})
Entries(d, kind, lo, hi) == SubSeq(d[kind], Before(d[kind], lo) + 1, Before(d[kind], hi + 1))
Group == (1..Top) \X (1..Top)
Ordered(es) == /\ es \in Seq(Group)
               /\ \A k \in DOMAIN es : es[k][1] <= es[k][2]
               /\ \A j, k \in DOMAIN es : j < k => es[j][2] < es[k][1]

Init == /\ db \in Databases /\ walks = 0
        /\ walk = [on |-> FALSE, kind |-> "Services", lo |-> 1, hi |-> Top, start |-> 1,
                   found |-> <<>>, asked |-> FALSE, end |-> "None", clean |-> TRUE]
        /\ toServer = <<>> /\ toUs = <<>> /\ reasm = None /\ up = TRUE /\ slow = 0 /\ owed = 0

(* ------------------------------ the client ------------------------------ *)

Resting == ~walk.on /\ walk.end # "Down"

\* discover_primary_services walks every handle; discover_characteristics and
\* discover_descriptors walk the range they are given.
Discover ==
  /\ Resting /\ walks < Walks /\ walks' = walks + 1
  /\ \E kind \in {"Services", "Parts"}, lo, hi \in 1..Top :
       /\ lo <= hi /\ (kind = "Services" => lo = 1 /\ hi = Top)
       /\ walk' = [on |-> TRUE, kind |-> kind, lo |-> lo, hi |-> hi, start |-> lo,
                   found |-> <<>>, asked |-> FALSE, end |-> "None", clean |-> owed = 0]
  /\ UNCHANGED <<db, toServer, toUs, reasm, up, slow, owed>>

\* The head of the loop: past the end of the range there is nothing to ask.
Walking == walk.on /\ ~walk.asked
Ended(w, how) == [w EXCEPT !.on = FALSE, !.asked = FALSE, !.end = how]
Request ==
  /\ Walking
  /\ IF walk.start > walk.hi
       THEN walk' = Ended(walk, "Ok") /\ UNCHANGED toServer
       ELSE /\ walk' = [walk EXCEPT !.asked = TRUE]
            /\ toServer' = IF up THEN Append(toServer, [kind |-> walk.kind, lo |-> walk.start,
                                                        hi |-> walk.hi])
                           ELSE toServer
  /\ UNCHANGED <<db, walks, toUs, reasm, up, slow, owed>>

\* Reassembler::feed: a first fragment starts over, a rest completes what was begun.
Polled == toUs # <<>> /\ toUs' = Tail(toUs)
Fed == /\ Polled /\ Head(toUs).part # "Down"
       /\ reasm' = IF Head(toUs).part = "First" THEN Head(toUs).pdu ELSE None
Complete == LET f == Head(toUs) IN IF f.part = "Whole" THEN f.pdu
                                   ELSE IF f.part = "Rest" THEN reasm ELSE None

First(es, n) == SubSeq(es, 1, IF n < Len(es) THEN n ELSE Len(es))

\* The entries of an answer as far as the slice has room for them; the walk goes on after the
\* last, wherever that is, or ends at the last handle there is.
LastOf(es) == IF es = <<>> THEN 0 ELSE es[Len(es)][2]
Takes(es) ==
  LET fit == First(es, Room - Len(walk.found))
      all == [walk EXCEPT !.found = @ \o fit, !.asked = FALSE]
      last == LastOf(es) IN
  walk' = IF Len(fit) < Len(es) THEN Ended(all, "Overflow")
          ELSE IF last = Top THEN Ended(all, "Ok")
          ELSE [all EXCEPT !.start = last + 1]

\* request: the awaited answer, or an error about this very request, ends the wait; Attribute
\* Not Found ends the walk well, and any other error or an answer that cannot be read ends it
\* badly; everything else is skipped.
Rsp(kind) == IF kind = "Services" THEN "GroupRsp" ELSE "TypeRsp"
Err(kind) == IF kind = "Services" THEN "GroupErr" ELSE "TypeErr"
Fault(kind) == IF kind = "Services" THEN "GroupFault" ELSE "TypeFault"
Answer(pdu) == pdu.op \notin {"None", "Other"}
PassesBy == owed' = IF owed > 0 /\ Answer(Complete) THEN owed - 1 ELSE owed
Waits ==
  /\ walk.asked /\ Fed
  /\ IF Complete.op = Rsp(walk.kind) THEN Takes(Complete.entries) /\ UNCHANGED owed
     ELSE IF Complete.op = Err(walk.kind) THEN walk' = Ended(walk, "Ok") /\ UNCHANGED owed
     ELSE IF Complete.op = Fault(walk.kind) THEN walk' = Ended(walk, "Error") /\ UNCHANGED owed
     ELSE UNCHANGED walk /\ PassesBy
  /\ UNCHANGED <<db, walks, toServer, up, slow>>

\* feed: only a notification is of interest, and it changes nothing here.
Feeds ==
  /\ Resting /\ Fed /\ UNCHANGED <<db, walk, walks, toServer, up, slow>>
  /\ PassesBy

\* The deadline passes, or polling the controller fails.
GivesUp ==
  /\ walk.asked /\ slow < Slow /\ slow' = slow + 1 /\ owed' = owed + 1
  /\ walk' = Ended(walk, "Timeout")
  /\ UNCHANGED <<db, walks, toServer, toUs, reasm, up>>

LearnsOfEnd ==
  /\ walk.asked \/ Resting
  /\ Polled /\ Head(toUs).part = "Down"
  /\ walk' = Ended(walk, "Down")
  /\ UNCHANGED <<db, walks, toServer, reasm, up, slow, owed>>

(* ------------------------------ the server ------------------------------ *)

Sends(pdu) == \/ toUs' = Append(toUs, [part |-> "Whole", pdu |-> pdu])
              \/ toUs' = toUs \o <<[part |-> "First", pdu |-> pdu], [part |-> "Rest", pdu |-> None]>>
Server == UNCHANGED <<db, walk, walks, reasm, up, slow, owed>>

\* The first entries of the range, at least one, or Attribute Not Found; or another error.
Serve ==
  /\ up /\ toServer # <<>> /\ toServer' = Tail(toServer)
  /\ LET q == Head(toServer)
         es == Entries(db, q.kind, q.lo, q.hi) IN
     \/ es = <<>> /\ Sends(Pdu(Err(q.kind), <<>>))
     \/ \E n \in 1..Len(es) : Sends(Pdu(Rsp(q.kind), SubSeq(es, 1, n)))
     \/ Sends(Pdu(Fault(q.kind), <<>>))
  /\ Server

\* A server outside the protocol lists what was not asked for, behind the range's start or past
\* its end, or it lists nothing.  Of an answer only its last handle matters, so an entry stands for
\* a list.  (A bound: until a request is given up on.)
Outside(es) ==
  /\ slow = 0
  /\ up /\ toServer # <<>> /\ toServer' = Tail(toServer)
  /\ Sends(Pdu(Rsp(Head(toServer).kind), es))
  /\ walk' = [walk EXCEPT !.clean = FALSE]
  /\ UNCHANGED <<db, walks, reasm, up, slow, owed>>
Strays == \E h \in {1, Top} : Outside(<<<<h, h>>>>)
ListsNothing == Outside(<<>>)

\* A notification, or a request of the server's own, to which this client has no answer.
Interject == /\ up /\ Len(toUs) = 0 /\ Sends(Pdu("Other", <<>>)) /\ UNCHANGED toServer /\ Server

\* The link goes, with what the radio had not carried.
Drop ==
  /\ up /\ up' = FALSE /\ toServer' = <<>>
  /\ \E n \in 0..Len(toUs) : toUs' = Append(SubSeq(toUs, 1, n), [part |-> "Down", pdu |-> None])
  /\ UNCHANGED <<db, walk, walks, reasm, slow, owed>>

Client == Request \/ Waits \/ Feeds \/ LearnsOfEnd
Next == Discover \/ Client \/ GivesUp \/ Serve \/ Strays \/ ListsNothing \/ Interject \/ Drop
\* request polls until it has its answer, and this server gives one; and it does not list
\* nothing for ever, which starts the walk over each time.
Fairness == WF_vars(Client) /\ SF_vars(Serve \/ Strays)
Spec == Init /\ [][Next]_vars /\ Fairness

(* ----------------------------- properties ------------------------------- *)

TypeOK == /\ walks \in 0..Walks /\ slow \in 0..Slow /\ owed \in 0..Slow /\ up \in BOOLEAN
          /\ walk.kind \in {"Services", "Parts"} /\ walk.start \in 1..(Top + 1)
          /\ Len(walk.found) <= Room
          /\ walk.end \in {"None", "Ok", "Overflow", "Error", "Timeout", "Down"}

\* gatt_client.rs discover_*: however the server splits its answers, the link the PDUs, and
\* whatever comes in between, a walk that ends well lists the range exactly, in order, and one
\* that overflows filled the slice.  That is so of a walk that is clean: the server keeps to the
\* protocol, and the answer to no request given up on was still to come when the walk began.
\* Of other walks nothing is said: an answer is known by its opcode alone.
WalkIsWhole ==
  LET es == Entries(db, walk.kind, walk.lo, walk.hi) IN
  walk.clean => /\ walk.end = "Ok" => walk.found = es
                /\ walk.end = "Overflow" => walk.found = First(es, Room) /\ Len(es) > Room

\* gatt_client.rs request, discover_*: with a server that answers, a walk ends without a timeout,
\* whatever ranges the server lists and in whatever order.
WalkEnds == walk.on ~> ~walk.on
============================================================================
