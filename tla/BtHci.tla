-------------------------------- MODULE BtHci --------------------------------
(***************************************************************************)
(* The Bluetooth controller's serial line (hal/src/bluetooth.rs): packets   *)
(* read byte by byte against a deadline, commands answered by opcode, links *)
(* that come up and go down by events, and credit for the controller's      *)
(* transmit buffers.  One task calls.  The controller is external: it        *)
(* answers, late if at all, and frees its buffers when it has sent them or  *)
(* the link is gone.                                                        *)
(***************************************************************************)
EXTENDS FiniteSets, Naturals, Sequences

CONSTANTS Handles,   \* connections
          Opcodes,   \* commands
          Total,     \* the controller's transmit buffers
          MaxFragments, \* of one payload
          MaxLine,   \* bound on packets on the line
          None

VARIABLES call,      \* the call under way: None, "send", "poll", or an opcode
          credits,   \* acl_credits
          line,      \* packets on their way here
          held,      \* the controller's buffers in use, by connection
          up,        \* connections the controller has
          seen,      \* connections the caller was told of and not told are gone
          late,      \* opcodes whose answer is still to come though their wait is over
          asked,     \* an opcode the controller has not answered
          answered,  \* history: the last command, and the command its answer was to
          gaveUp,    \* history: opcodes whose wait ran out
          spilled,   \* history: completions a wait threw away, and buffers freed with none
          missed,    \* history: a link's event was thrown away
          cut        \* a deadline passed inside a packet: what is read after it is not modelled

host == <<call, credits, seen, answered>>
controller == <<line, held, up, late, asked>>
history == <<gaveUp, spilled, missed, cut>>
vars == <<host, controller, history>>

Idle == call = None /\ ~cut
Event(kind, what, n) == [kind |-> kind, what |-> what, n |-> n]
Put(p) == Len(line) < MaxLine /\ line' = Append(line, p)

\* read_buffer_size and le_read_buffer_size have been called.
Init == /\ call = None /\ credits = Total /\ line = <<>> /\ held = [h \in Handles |-> 0]
        /\ up = {} /\ seen = {} /\ late = {} /\ asked = None /\ answered = None
        /\ gaveUp = {} /\ spilled = 0 /\ missed = FALSE /\ cut = FALSE

-----------------------------------------------------------------------------
(* Sending *)

\* Mutant: the fragments are sent while any credit is left.
SendAny(h) == /\ Idle /\ h \in seen
              /\ \E n \in 1..MaxFragments :
                   /\ credits > 0 /\ credits' = IF n > credits THEN 0 ELSE credits - n
                   /\ held' = [held EXCEPT ![h] = @ + n]
              /\ UNCHANGED <<call, seen, answered, line, up, late, asked, history>>

\* send_acl: every fragment has a credit, or none is sent; the controller throws away what is for a
\* connection it no longer has.
Send(h) == /\ Idle /\ h \in seen
           /\ \E n \in 1..MaxFragments :
                /\ n <= credits /\ credits' = credits - n
                /\ IF h \in up THEN held' = [held EXCEPT ![h] = @ + n] /\ UNCHANGED spilled
                               ELSE spilled' = spilled + n /\ UNCHANGED held
           /\ UNCHANGED <<call, seen, answered, line, up, late, asked, gaveUp, missed, cut>>

\* command: written, then every packet is looked at until the answer or the deadline.
Command(op) == /\ Idle /\ asked = None /\ call' = op /\ asked' = op
               /\ UNCHANGED <<credits, seen, answered, line, held, up, late, history>>

Poll == Idle /\ call' = "poll" /\ UNCHANGED <<credits, seen, answered, controller, history>>

-----------------------------------------------------------------------------
(* read_packet *)

Completed(p) == IF p.kind = "completed" THEN p.n ELSE 0
Front(kind) == line # <<>> /\ Head(line).kind = kind /\ ~cut
Taken == line' = Tail(line)
Waiting == call \in Opcodes
Got == [to |-> call, of |-> Head(line).what, own |-> Head(line).n = 1]

\* command: Command Complete or Command Status for its opcode.
Answered == /\ Waiting /\ Front("answer") /\ Head(line).what = call /\ Taken
            /\ call' = None /\ answered' = Got
            /\ UNCHANGED <<credits, seen, held, up, late, asked, history>>

\* command: what is not its answer is skipped, whatever it is.
Skip == /\ Waiting /\ line # <<>> /\ ~cut /\ ~(Head(line).kind = "answer" /\ Head(line).what = call) /\ Taken
        /\ spilled' = spilled + Completed(Head(line))
        /\ missed' = (missed \/ Head(line).kind \in {"up", "down"})
        /\ UNCHANGED <<host, held, up, late, asked, gaveUp, cut>>

\* credit_completed_packets.
Credit == /\ call = "poll" /\ Front("completed") /\ Taken
          /\ credits' = credits + Head(line).n
          /\ UNCHANGED <<call, seen, answered, held, up, late, asked, history>>

\* poll: a link's event is handed over, anything else passed by.
Connected == /\ call = "poll" /\ Front("up") /\ Taken
             /\ seen' = seen \cup {Head(line).what} /\ call' = None
             /\ UNCHANGED <<credits, answered, held, up, late, asked, history>>
Disconnected == /\ call = "poll" /\ Front("down") /\ Taken
                /\ seen' = seen \ {Head(line).what} /\ call' = None
                /\ UNCHANGED <<credits, answered, held, up, late, asked, history>>
PassBy == /\ call = "poll" /\ Front("answer") /\ Taken
          /\ UNCHANGED <<host, held, up, late, asked, history>>

\* The deadline, the line quiet: None from poll, Timeout from a command, whose answer may yet come.
TimesOut == /\ call \in Opcodes \cup {"poll"} /\ line = <<>> /\ ~cut
            /\ call' = None
            /\ late' = IF call = asked THEN late \cup {call} ELSE late
            /\ asked' = IF call = asked THEN None ELSE asked
            /\ gaveUp' = gaveUp \cup ({call} \cap Opcodes)
            /\ UNCHANGED <<credits, seen, answered, line, held, up, spilled, missed, cut>>

\* The deadline, a packet half read: the same, and the rest of the packet taken for the next one.
TimesOutInside == /\ call \in Opcodes \cup {"poll"} /\ line # <<>> /\ ~cut
                  /\ call' = None /\ cut' = TRUE
                  /\ UNCHANGED <<credits, seen, answered, controller, gaveUp, spilled, missed>>

-----------------------------------------------------------------------------
(* The controller *)

\* The answer carries 1 if it is to the command waited for, 0 if to one given up.
Answer == /\ asked # None /\ ~cut /\ Put(Event("answer", asked, 1)) /\ asked' = None
          /\ UNCHANGED <<host, held, up, late, history>>
AnswerLate == /\ ~cut /\ \E op \in late : Put(Event("answer", op, 0)) /\ late' = late \ {op}
              /\ UNCHANGED <<host, held, up, asked, history>>
Completes == /\ ~cut /\ \E h \in up : \E n \in 1..held[h] : /\ held' = [held EXCEPT ![h] = @ - n]
                                                             /\ Put(Event("completed", h, n))
             /\ UNCHANGED <<host, up, late, asked, history>>
LinkUp == /\ ~cut /\ \E h \in Handles \ (up \cup seen) : up' = up \cup {h} /\ Put(Event("up", h, 0))
          /\ UNCHANGED <<host, held, late, asked, history>>

\* A link lost frees its buffers, and no completion says so.
LinkDown == /\ ~cut /\ \E h \in up : /\ up' = up \ {h} /\ Put(Event("down", h, 0))
                                     /\ held' = [held EXCEPT ![h] = 0] /\ spilled' = spilled + held[h]
            /\ UNCHANGED <<host, late, asked, gaveUp, missed, cut>>

Receive == Answered \/ Skip \/ Credit \/ Connected \/ Disconnected \/ PassBy
Controller == Answer \/ AnswerLate \/ Completes \/ LinkUp \/ LinkDown
Next == \/ \E h \in Handles : Send(h)
        \/ \E op \in Opcodes : Command(op)
        \/ Poll \/ Receive \/ TimesOut \/ TimesOutInside \/ Controller
Spec == Init /\ [][Next]_vars

-----------------------------------------------------------------------------
(* Properties *)

TypeOK == /\ call \in {None, "poll"} \cup Opcodes /\ credits \in 0..Total /\ held \in [Handles -> 0..Total]
          /\ up \subseteq Handles /\ seen \subseteq Handles /\ late \subseteq Opcodes
          /\ asked \in {None} \cup Opcodes /\ answered \in {None} \cup [to: Opcodes, of: Opcodes, own: BOOLEAN]
          /\ gaveUp \subseteq Opcodes /\ spilled \in 0..Total /\ cut \in BOOLEAN
          /\ line \in Seq([kind: {"answer", "completed", "up", "down"}, what: Handles \cup Opcodes, n: 0..Total])

\* The buffers in use, and those whose completion is on its way, one by one.
InUse == UNION {{h} \X (1..held[h]) : h \in Handles}
Returning == UNION {{k} \X (1..Completed(line[k])) : k \in DOMAIN line}

\* The controller's buffers are never overrun, and every one is a credit, in use, on its way back or
\* among those that waits and lost links let slip: none is counted twice.
BuffersAddUp == credits + Cardinality(InUse) + Cardinality(Returning) + spilled = Total

\* bluetooth.rs:1578 "pump poll to let the controller's completions replenish credits, then retry":
\* a credit spent is never lost.
CreditsComeBack == spilled = 0

\* The caller's view of the links is the controller's, but for what is on its way.  Not so once a
\* command's wait threw a link's event away (bluetooth.rs:1842): a link up that the caller was never
\* told of, or one it goes on sending to that is gone.
LinksAgree == \A h \in Handles : (~missed /\ (\A k \in DOMAIN line : line[k].kind \in {"up", "down"} => line[k].what # h))
                                    => (h \in seen <=> h \in up)

\* A command returns by an answer to its opcode, and to itself unless a wait for that opcode was given
\* up before.
AnswerIsOwn == answered # None => /\ answered.of = answered.to
                                  /\ answered.own \/ answered.to \in gaveUp
=============================================================================
