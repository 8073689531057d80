----------------------------- MODULE VideoDecode -----------------------------
(***************************************************************************)
(* The H.264 decoder (hal/src/video_decode.rs) over the buffers of mmal.rs: *)
(* pictures go in, frames come out in buffers the firmware is lent, and     *)
(* when a picture needs another layout the output port is disabled, its     *)
(* buffers waited for, and enabled again, inside the caller's poll.         *)
(* A layout is the bytes its frames take.  The firmware is external: it     *)
(* decodes in order, announces a layout before the first picture that needs *)
(* it, waits for the port to be enabled anew, and gives back what it holds  *)
(* before it acknowledges that the port is disabled.                        *)
(***************************************************************************)
EXTENDS Naturals, Sequences, FiniteSetsExt, SequencesExt

CONSTANTS Size,     \* bytes of each output buffer
          Inputs,   \* how many input buffers there are
          Streams,  \* what may be decoded: the layout of each picture
          Holds,    \* frames the caller holds at a time
          MayDelay  \* whether a buffer may be away past the deadline of a drain

VARIABLES stream, fed, last,                      \* the caller: pictures fed, the last one seen
          inputPool, outputPool, held,            \* buffers free here, and frames with the caller
          pc, outputEnabled, inFlight, format, eos, changed, refused, late,  \* the decoder
          returned, pending,                      \* mmal: buffers to hand over, and the event
          ring, bulks, asked,                     \* messages here, fetches, and the request out
          portOn, layout, paused, parsed, decoded, firm, fill  \* the firmware, and what buffers hold

caller == <<stream, fed, last>>
pools == <<inputPool, outputPool, held>>
decoder == <<pc, outputEnabled, inFlight, format, eos, changed, refused, late>>
mmal == <<returned, pending>>
wire == <<ring, bulks, asked>>
firmware == <<portOn, layout, paused, parsed, decoded, firm, fill>>
vars == <<caller, pools, decoder, mmal, wire, firmware>>

Unknown == 0            \* no format, no event, no picture
Input == 0             \* any input buffer; output buffers are numbered from 1
Outputs == DOMAIN Size
End == Len(stream) + 1  \* the end of the stream, fed as a picture is

\* After start: both ports enabled, no output buffer handed over, no format known.
Init == /\ stream \in Streams /\ fed = 0 /\ last = 0
        /\ inputPool = Inputs /\ outputPool = Outputs /\ held = {}
        /\ pc = "out" /\ outputEnabled = TRUE /\ inFlight = 0 /\ format = Unknown /\ eos = FALSE
        /\ changed = Unknown /\ refused = FALSE /\ late = FALSE
        /\ returned = <<>> /\ pending = Unknown /\ ring = <<>> /\ bulks = <<>> /\ asked = "nothing"
        /\ portOn = TRUE /\ layout = Unknown /\ paused = FALSE /\ parsed = 0 /\ decoded = 0
        /\ firm = {} /\ fill = [b \in Outputs |-> 0]

(* ------------------------------ the caller ------------------------------ *)

\* feed, and finish once there is no more: each needs a free input buffer.
Feed == /\ pc = "out" /\ inputPool > 0 /\ fed < End
        /\ inputPool' = inputPool - 1 /\ fed' = fed + 1
        /\ UNCHANGED <<stream, last, outputPool, held, decoder, mmal, wire, firmware>>

\* refill_output, with the buffers in b free.
Open == outputEnabled /\ format # Unknown
Refill(b, away) == IF Open
  THEN outputPool' = {} /\ firm' = firm \cup b /\ inFlight' = away + Cardinality(b)
  ELSE outputPool' = b /\ inFlight' = away /\ UNCHANGED firm

Recycle(f) ==
  /\ pc = "out" /\ f \in held /\ held' = held \ {f} /\ fill' = [fill EXCEPT ![f.buffer] = 0]
  /\ UNCHANGED <<pc, outputEnabled, format, eos, changed, refused, late>>
  /\ Refill(outputPool \cup {f.buffer}, inFlight)
  /\ UNCHANGED <<inputPool, portOn, layout, paused, parsed, decoded, caller, mmal, wire>>

Poll == /\ pc = "out" /\ Cardinality(held) < Holds /\ pc' = "poll"
        /\ UNCHANGED <<outputEnabled, inFlight, format, eos, changed, refused, late>>
        /\ UNCHANGED <<caller, pools, mmal, wire, firmware>>

(* ------------------------------ mmal.rs ------------------------------- *)

\* pump: a buffer with nothing in it is back, any other has a fetch to wait for.
Holding(b) == b # Input /\ fill[b] # 0
OnMessage(m) ==
  /\ ring' = Tail(ring) /\ UNCHANGED asked
  /\ returned' = (IF m.kind = "done" \/ (m.kind = "back" /\ ~Holding(m.of))
                    THEN Append(returned, m.of) ELSE returned)
  /\ bulks' = (IF m.kind = "back" /\ Holding(m.of) THEN Append(bulks, m.of) ELSE bulks)
  /\ pending' = (IF m.kind = "format" THEN m.of ELSE pending)
Something == returned # <<>> \/ pending # Unknown
LessOne == IF inFlight = 0 THEN 0 ELSE inFlight - 1

(* ---------------------------- VideoDecoder::poll ------------------------ *)

\* Nothing is ready: one message is looked at, and the caller is told if it brought nothing.
Look ==
  /\ pc = "poll" /\ ~Something
  /\ IF ring = <<>> THEN UNCHANGED <<mmal, wire>> ELSE OnMessage(Head(ring))
  /\ pc' = (IF Something' THEN "poll" ELSE "out")
  /\ UNCHANGED <<outputEnabled, inFlight, format, eos, changed, refused, late>>
  /\ UNCHANGED <<caller, pools, firmware>>

TakeInput ==
  /\ returned # <<>> /\ Head(returned) = Input
  /\ returned' = Tail(returned) /\ inputPool' = inputPool + 1
TakesInput ==
  /\ pc = "poll" /\ TakeInput
  /\ UNCHANGED <<caller, outputPool, held, decoder, pending, wire, firmware>>

TakesOutput ==
  /\ pc = "poll" /\ returned # <<>> /\ Head(returned) # Input
  /\ LET b == Head(returned)
     IN /\ returned' = Tail(returned) /\ eos' = (eos \/ fill[b] = End)
        /\ IF fill[b] \in 1..Len(stream) /\ format # Unknown
             THEN /\ held' = held \cup {[buffer |-> b, format |-> format]} /\ last' = fill[b]
                  /\ pc' = "out" /\ inFlight' = LessOne
                  /\ UNCHANGED <<outputPool, firm, fill>>
             ELSE /\ Refill(outputPool \cup {b}, LessOne) /\ fill' = [fill EXCEPT ![b] = 0]
                  /\ UNCHANGED <<held, last, pc>>
  /\ UNCHANGED <<stream, fed, inputPool, outputEnabled, format, changed, refused, late>>
  /\ UNCHANGED <<pending, wire, portOn, layout, paused, parsed, decoded>>

\* Outputs first, then the event: reconfigure_output begins with the request to disable.
TakesFormat ==
  /\ pc = "poll" /\ returned = <<>> /\ pending # Unknown
  /\ changed' = pending /\ pending' = Unknown
  /\ IF outputEnabled THEN pc' = "disable" /\ asked' = "disable" ELSE pc' = "drain" /\ UNCHANGED asked
  /\ UNCHANGED <<outputEnabled, inFlight, format, eos, refused, late, returned, ring, bulks>>
  /\ UNCHANGED <<caller, pools, firmware>>

(* ---------------------------- reconfigure_output ------------------------ *)

\* request: messages are dealt with as they come until the answer is among them.
Await ==
  /\ pc \in {"disable", "enable"} /\ ring # <<>> /\ OnMessage(Head(ring))
  /\ IF Head(ring).kind # "answer"
       THEN UNCHANGED <<pc, outputEnabled, inFlight, format, outputPool, firm>>
     ELSE IF pc = "disable"
       THEN /\ pc' = "drain" /\ outputEnabled' = FALSE
            /\ UNCHANGED <<inFlight, format, outputPool, firm>>
       ELSE /\ pc' = "poll" /\ outputEnabled' = TRUE /\ format' = changed
            /\ outputPool' = {} /\ firm' = firm \cup outputPool
            /\ inFlight' = inFlight + Cardinality(outputPool)
  /\ UNCHANGED <<eos, changed, refused, late, caller, inputPool, held>>
  /\ UNCHANGED <<portOn, layout, paused, parsed, decoded, fill>>

\* drain_output: whatever the buffers hold is given up, and so is an event.
Draining == pc = "drain" /\ inFlight > 0
DrainInput == /\ Draining /\ TakeInput
              /\ UNCHANGED <<caller, outputPool, held, decoder, pending, wire, firmware>>
DrainOutput ==
  /\ Draining /\ returned # <<>> /\ Head(returned) # Input
  /\ returned' = Tail(returned) /\ inFlight' = LessOne
  /\ outputPool' = outputPool \cup {Head(returned)} /\ fill' = [fill EXCEPT ![Head(returned)] = 0]
  /\ UNCHANGED <<pc, outputEnabled, format, eos, changed, refused, late, inputPool, held, pending>>
  /\ UNCHANGED <<caller, wire, portOn, layout, paused, parsed, decoded, firm>>
DrainLook ==
  /\ Draining /\ returned = <<>>
  /\ IF pending # Unknown THEN pending' = Unknown /\ UNCHANGED <<returned, wire>>
                          ELSE ring # <<>> /\ OnMessage(Head(ring))
  /\ UNCHANGED <<caller, pools, decoder, firmware>>
DrainTimesOut ==
  /\ Draining /\ MayDelay /\ ~late /\ late' = TRUE /\ inFlight' = 0
  /\ UNCHANGED <<pc, outputEnabled, format, eos, changed, refused, caller, pools, mmal, wire, firmware>>

\* The buffers that are here must do for the layout; then it is set and the port enabled.
Smallest == IF outputPool = {} THEN 0 ELSE Min({Size[b] : b \in outputPool})
Configure ==
  /\ pc = "drain" /\ inFlight = 0
  /\ IF Smallest < changed THEN pc' = "out" /\ refused' = TRUE /\ UNCHANGED asked
                           ELSE pc' = "enable" /\ asked' = "enable" /\ UNCHANGED refused
  /\ UNCHANGED <<outputEnabled, inFlight, format, eos, changed, late, ring, bulks>>
  /\ UNCHANGED <<caller, pools, mmal, firmware>>

(* ----------------------------- the firmware ----------------------------- *)

Message(k, x) == [kind |-> k, of |-> x]
Says(m) == ring' = ring \o m

\* An input buffer is done with once it is parsed, whenever its picture is decoded.
Parse == /\ parsed < fed /\ parsed' = parsed + 1 /\ Says(<<Message("back", Input)>>)
         /\ UNCHANGED <<caller, pools, decoder, mmal, bulks, asked>>
         /\ UNCHANGED <<portOn, layout, paused, decoded, firm, fill>>
Coming == decoded + 1
CanDecode == decoded < parsed /\ portOn /\ ~paused
Announce == /\ CanDecode /\ Coming # End /\ stream[Coming] # layout
            /\ paused' = TRUE /\ Says(<<Message("format", stream[Coming])>>)
            /\ UNCHANGED <<caller, pools, decoder, mmal, bulks, asked>>
            /\ UNCHANGED <<portOn, layout, parsed, decoded, firm, fill>>
Decode(b) == /\ CanDecode /\ (Coming # End => stream[Coming] = layout) /\ b \in firm
             /\ decoded' = Coming /\ fill' = [fill EXCEPT ![b] = Coming] /\ firm' = firm \ {b}
             /\ Says(<<Message("back", b)>>)
             /\ UNCHANGED <<caller, pools, decoder, mmal, bulks, asked, portOn, layout, paused, parsed>>
Move == /\ bulks # <<>> /\ bulks' = Tail(bulks) /\ Says(<<Message("done", Head(bulks))>>)
        /\ UNCHANGED <<caller, pools, decoder, mmal, asked, firmware>>
Answer ==
  /\ asked # "nothing" /\ asked' = "nothing"
  /\ IF asked = "disable"
       THEN /\ Says([i \in 1..Cardinality(firm) |-> Message("back", SetToSeq(firm)[i])]
                      \o <<Message("answer", Input)>>)
            /\ portOn' = FALSE /\ firm' = {} /\ UNCHANGED <<layout, paused>>
       ELSE /\ Says(<<Message("answer", Input)>>)
            /\ portOn' = TRUE /\ layout' = changed /\ paused' = FALSE /\ UNCHANGED firm
  /\ UNCHANGED <<caller, pools, decoder, mmal, bulks, parsed, decoded, fill>>

Decoder == \/ Look \/ TakesInput \/ TakesOutput \/ TakesFormat \/ Await
           \/ DrainInput \/ DrainOutput \/ DrainLook \/ Configure
Firmware == Parse \/ Announce \/ (\E b \in Outputs : Decode(b)) \/ Move \/ Answer
Hands == Feed \/ \E f \in held : Recycle(f)
Polls == Poll \/ Decoder
Next == Hands \/ Polls \/ DrainTimesOut \/ Firmware

\* The caller's loop feeds, polls and recycles again and again (examples/h264_decode.rs).
Fairness == SF_vars(Hands) /\ WF_vars(Polls) /\ WF_vars(Firmware)
Spec == Init /\ [][Next]_vars /\ Fairness

(* ------------------------------ properties ------------------------------ *)

TypeOK == /\ fed \in 0..End /\ last \in 0..Len(stream) /\ inputPool \in 0..Inputs
          /\ outputPool \subseteq Outputs /\ firm \subseteq Outputs
          /\ pc \in {"out", "poll", "disable", "drain", "enable"}
          /\ asked \in {"nothing", "disable", "enable"} /\ inFlight \in 0..Cardinality(Outputs)
          /\ fill \in [Outputs -> 0..End] /\ returned \in Seq(Outputs \cup {Input})
          /\ decoded <= parsed /\ parsed <= fed

\* video_decode.rs output_in_flight, "Output buffers currently held by the firmware": what a drain
\* waits for is what is not free here nor with the caller, unless a drain was cut short.
AwayIsCounted == ~late => inFlight = Cardinality(Outputs \ (outputPool \cup {f.buffer : f \in held}))

\* video_decode.rs reconfigure_output: no frame comes back "in a layout that no longer matches what
\* the caller is told", unless a drain was cut short.
LayoutIsTold == ~late => \A f \in held : f.format = stream[fill[f.buffer]]

\* video_decode.rs poll: frames come in the stream's order, none twice; and one is missing only if
\* a change of layout came after it.
Relaid(k) == \E j \in k..Len(stream) - 1 : stream[j] # stream[j + 1]
InTurn == last' # last => last' > last /\ \A k \in last + 1..last' - 1 : Relaid(k)
OnlyRelaidLost == [][InTurn]_vars
\* end_of_stream: the end is told after the last frame.
EndIsLast == eos => last = Len(stream)

\* video_decode.rs refill_output, so the firmware "always has somewhere to decode into": between
\* calls no output buffer is kept back.
NoneKeptBack == pc = "out" /\ outputEnabled /\ format # Unknown => outputPool = {}

\* video_decode.rs reconfigure_output: BufferTooSmall is said of a buffer that is too small.
RefusedRightly == refused /\ ~late => \E b \in Outputs : Size[b] < changed

\* video_decode.rs finish: the end of the stream comes back out, or the caller was refused.
Finishing == fed = End /\ ~eos /\ ~refused
StreamEnds == Finishing ~> ~Finishing
===============================================================================
